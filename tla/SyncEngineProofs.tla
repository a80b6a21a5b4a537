-------------------------- MODULE SyncEngineProofs --------------------------
(***************************************************************************)
(* What holds of SyncEngine for every set of labels, every bound, every    *)
(* assignment of work to chains and every setting of the daemon.           *)
(*                                                                         *)
(* Types and ranges.  The state splits in two: the world (node, contract,  *)
(* mempool, file) and the daemon's locals.  IInv types both and says, per  *)
(* program counter, which task runs, which fields of the stored header are *)
(* filled in and how far the compact headers have come.                    *)
(*                                                                         *)
(* Progress, for blocks of equal work.  The headers of a batch have the    *)
(* heights above its parent, whatever branches they were read from         *)
(* (PayloadOK).  They are what is pending (MempoolOK, ReceiptOK), so a     *)
(* mined batch puts the relay at its last height.  The relay never sinks,  *)
(* so what landed before a crash has still landed after it (RelayOK).      *)
(*                                                                         *)
(* Forks and verification.  An id in use was not in use before this        *)
(* attempt (ForkOK); once the last batch has landed nothing is left        *)
(* pending that could move the relay (VerifyOK).                           *)
(***************************************************************************)
EXTENDS SyncEngine, TLAPS, SequenceTheorems, WellFoundedInduction

Fields == [block : Chain, work : Nat, context : Chain]

WorldOK ==
    /\ main \in Chain
    /\ forks \in [ForkIds -> Chain \cup {None}]
    /\ node \in Chain
    /\ mempool \in Tx \cup {None}
    /\ file \in Chain \cup {None}
    /\ faults \in [kinds : FaultSets, left : 0..MaxFaults]

HoldOK == hold \in ((0..MaxHeight) \X (0..MaxHeight)) \cup {None}

LocalsOK ==
    /\ receipt \in {"none", "pending", "dropped", "ok", "reverted"}
    /\ pc \in Pcs
    /\ task \in Tasks
    /\ btcTip \in 0..MaxHeight
    /\ relayTip \in 0..MaxHeight
    /\ parent \in 0..MaxHeight
    /\ last \in 0..MaxHeight
    /\ endHash \in Chain \cup {None}
    /\ commit \in Fields \cup {None}
    /\ stored \in [block : Chain \cup {None}, work : Nat, context : Chain \cup {None}]
    /\ headers \in Seq(Chain)
    /\ forkId \in ForkIds \cup {None}

\* Which task the program counter serves.
Control ==
    /\ pc \in {"tipBitcoin", "tipRelay", "reorgTip", "stopped"} => task = "tips"
    /\ pc = "endHash" => task = "main"
    /\ pc = "commit" => task \in {"scan", "verify"}
    /\ pc \in {"work", "parent", "context"} => task \in {"main", "scan", "branch", "verify"}
    /\ pc \in {"headers", "send", "wait"} => task \in {"main", "branch"}
    /\ pc = "verifyTip" => task = "verify"
    /\ pc = "tipHash" => task = "record"

\* What has been read of the stored header.
Filled ==
    /\ pc = "context" => stored.block \in Chain /\ parent >= TsWindow
    /\ pc \in {"headers", "send", "wait"} => stored \in Fields
    /\ pc \in {"work", "parent", "context"} /\ task \in {"scan", "verify"}
           => parent >= TsWindow
    /\ pc \in {"endHash", "commit", "work", "parent", "context"} => headers = <<>>

DaemonOK == LocalsOK /\ Control /\ Filled /\ RangeSafe

IInv == WorldOK /\ HoldOK /\ DaemonOK

----------------------------------------------------------------------------
\* Chains.

\* A chain is a sequence of at most MaxHeight labels.
LEMMA ChainIsSeq ==
    ASSUME NEW c \in Chain
    PROVE  c \in Seq(Label) /\ Height(c) \in 0..MaxHeight
<1>1. PICK n \in 0..MaxHeight : c \in [1..n -> Label]
  BY DEF Chain
<1>2. n \in Nat
  BY HeightAssumption
<1>3. c \in Seq(Label)
  BY <1>1, <1>2, SeqDef
<1>4. Len(c) = n
  BY <1>1, <1>2, <1>3, LenProperties
<1> QED
  BY <1>3, <1>4 DEF Height

\* A sequence of at most MaxHeight labels is a chain.
LEMMA SeqIsChain ==
    ASSUME NEW s \in Seq(Label), Len(s) <= MaxHeight
    PROVE  s \in Chain
<1>1. Len(s) \in Nat /\ s \in [1..Len(s) -> Label]
  BY LenProperties
<1>2. Len(s) \in 0..MaxHeight
  BY <1>1, HeightAssumption
<1> QED
  BY <1>1, <1>2 DEF Chain

\* The block at a height of a chain is a chain of that height.
LEMMA BlockAtIsChain ==
    ASSUME NEW c \in Chain, NEW h \in 0..Height(c)
    PROVE  BlockAt(c, h) \in Chain /\ Height(BlockAt(c, h)) = h
<1>1. c \in Seq(Label) /\ Len(c) \in 0..MaxHeight
  BY ChainIsSeq DEF Height
<1>2. \A i \in 1..h : c[i] \in Label
  BY <1>1, ElementOfSeq DEF Height
<1>3. SubSeq(c, 1, h) \in Seq(Label) /\ Len(SubSeq(c, 1, h)) = h
  BY <1>1, <1>2, SubSeqProperties, HeightAssumption DEF Height
<1>4. h <= MaxHeight
  BY <1>1, HeightAssumption DEF Height
<1>5. SubSeq(c, 1, h) \in Chain
  BY <1>3, <1>4, SeqIsChain
<1> QED
  BY <1>3, <1>5 DEF BlockAt, Height

\* The blocks of a block are those of the chain it lies on.
LEMMA NestedBlock ==
    ASSUME NEW c \in Chain, NEW k \in 0..Height(c), NEW h \in 0..k
    PROVE  BlockAt(BlockAt(c, k), h) = BlockAt(c, h)
<1>1. c \in Seq(Label) /\ Len(c) \in Nat
  BY ChainIsSeq, LenProperties
<1>2. CASE h = 0
  BY <1>2, SubSeqEmpty DEF BlockAt
<1>3. CASE h # 0
  <2>1. /\ Len(c) \in 1..Len(c) /\ 1 \in 1..Len(c) /\ k \in 1..Len(c)
        /\ 1 \in 1..(k - 1 + 1) /\ h \in 1..(k - 1 + 1)
    BY <1>1, <1>3 DEF Height
  <2>2. SubSeq(SubSeq(c, 1, k), 1, h) = SubSeq(c, 1 + 1 - 1, 1 + h - 1)
    BY <1>1, <2>1, SubSeqOfSubSeq
  <2> QED
    BY <1>3, <2>1, <2>2 DEF BlockAt
<1> QED
  BY <1>2, <1>3

LEMMA WholeChain ==
    ASSUME NEW c \in Chain
    PROVE  BlockAt(c, Height(c)) = c
  BY ChainIsSeq, SubSeqFull DEF BlockAt, Height

LEMMA ParentOfBlock ==
    ASSUME NEW c \in Chain, NEW h \in 1..Height(c)
    PROVE  ParentOf(BlockAt(c, h)) = BlockAt(c, h - 1)
<1>1. Height(c) \in Nat
  BY ChainIsSeq, HeightAssumption
<1>2. h \in 0..Height(c) /\ h - 1 \in 0..h
  BY <1>1
<1> QED
  BY <1>2, BlockAtIsChain, NestedBlock DEF ParentOf

LEMMA HoldsOwnBlock ==
    ASSUME NEW c \in Chain, NEW h \in 0..Height(c)
    PROVE  Holds(c, BlockAt(c, h))
<1>1. Height(c) \in Nat
  BY ChainIsSeq, HeightAssumption
<1> QED
  BY <1>1, BlockAtIsChain DEF Holds

\* A set of numbers has a least one: what holds of an index if it holds of those
\* below it has no least counterexample.
LEMMA LeastElement ==
    ASSUME NEW S \in SUBSET Nat, S # {}
    PROVE  \E m \in S : \A k \in S : ~(k < m)
<1>1. PICK m \in S : \A k \in S : <<k, m>> \notin OpToRel(<, Nat)
  BY NatLessThanWellFounded, WFMin, Zenon
<1> QED
  BY <1>1, Zenon DEF OpToRel

\* Every block of a chain below its tip has less work.
LEMMA WorkBelow ==
    ASSUME NEW c \in Chain, NEW h \in 0..Height(c)
    PROVE  /\ Work[BlockAt(c, h)] <= Work[c]
           /\ h < Height(c) => Work[BlockAt(c, h)] < Work[c]
           /\ Work[c] \in Nat
<1>1. Height(c) \in Nat /\ Work[c] \in Nat
  BY ChainIsSeq, HeightAssumption, WorkAssumption
<1>2. CASE h = Height(c)
  BY <1>1, <1>2, WholeChain
<1>3. CASE h # Height(c)
  <2>1. h \in 0..(Height(c) - 1)
    BY <1>1, <1>3
  <2>2. Work[BlockAt(c, h)] < Work[c]
    BY <2>1, WorkAssumption
  <2>3. BlockAt(c, h) \in Chain
    BY BlockAtIsChain
  <2>4. Work[BlockAt(c, h)] \in Nat
    BY <2>3, WorkAssumption
  <2> QED
    BY <1>1, <2>2, <2>4
<1> QED
  BY <1>2, <1>3

\* Linked headers end in a chain that holds the block they start from.
LEMMA LinkedTip ==
    ASSUME NEW p \in Chain, NEW hs \in Seq(Chain), hs # <<>>, Linked(p, hs)
    PROVE  /\ Len(hs) \in Nat \ {0}
           /\ hs[Len(hs)] \in Chain
           /\ Height(hs[Len(hs)]) = Height(p) + Len(hs)
           /\ BlockAt(hs[Len(hs)], Height(p)) = p
<1> DEFINE n == Height(p)
           Good(i) == Height(hs[i]) = n + i /\ BlockAt(hs[i], n) = p
           Bad == {i \in 1..Len(hs) : ~Good(i)}
<1>1. n \in Nat /\ Len(hs) \in Nat \ {0}
  BY ChainIsSeq, HeightAssumption, LenProperties, EmptySeq
<1>2. \A i \in 1..Len(hs) : hs[i] \in Chain /\ Height(hs[i]) \in Nat
  BY ElementOfSeq, ChainIsSeq, HeightAssumption
<1>3. ASSUME NEW i \in 1..Len(hs), i = 1 \/ Good(i - 1)
      PROVE  Good(i)
  <2> DEFINE q == IF i = 1 THEN p ELSE hs[i - 1]
             k == Height(hs[i]) - 1
  <2>1. Height(q) = n + (i - 1) /\ BlockAt(q, n) = p
    BY <1>1, <1>3, WholeChain
  <2>2. /\ hs[i] \in Chain /\ Height(hs[i]) \in Nat /\ Height(hs[i]) > 0
        /\ BlockAt(hs[i], k) = q
    BY <1>2 DEF Linked, ParentOf
  <2> HIDE DEF q
  <2>3. k \in 0..Height(hs[i])
    BY <2>2
  <2>4. Height(q) = k
    BY <2>2, <2>3, BlockAtIsChain
  <2>5. Height(hs[i]) = n + i /\ n \in 0..k
    BY <1>1, <2>1, <2>2, <2>4
  <2>6. BlockAt(BlockAt(hs[i], k), n) = BlockAt(hs[i], n)
    BY <2>2, <2>3, <2>5, NestedBlock
  <2> QED
    BY <2>1, <2>2, <2>5, <2>6
<1>4. Bad = {}
  <2>1. SUFFICES ASSUME Bad # {} PROVE FALSE
    OBVIOUS
  <2>2. Bad \in SUBSET Nat
    OBVIOUS
  <2>3. PICK m \in Bad : \A k \in Bad : ~(k < m)
    BY <2>1, <2>2, LeastElement
  <2>4. m \in 1..Len(hs) /\ ~Good(m)
    OBVIOUS
  <2>5. m # 1 => m - 1 \in 1..Len(hs) /\ m - 1 < m
    BY <1>1, <2>4
  <2>6. m = 1 \/ Good(m - 1)
    BY <2>3, <2>5
  <2> QED
    BY <1>3, <2>4, <2>6
<1>5. Len(hs) \in 1..Len(hs)
  BY <1>1
<1>6. Good(Len(hs))
  BY <1>4, <1>5
<1> QED
  BY <1>1, <1>2, <1>5, <1>6

\* The commitment at a height of the main chain above genesis has three fields.
LEMMA CommitmentFields ==
    ASSUME NEW c \in Chain, NEW h \in 1..Height(c)
    PROVE  Commitment(BlockAt(c, h)) \in Fields
<1>1. BlockAt(c, h) \in Chain /\ Height(BlockAt(c, h)) = h
  BY BlockAtIsChain, ChainIsSeq
<1>2. ParentOf(BlockAt(c, h)) \in Chain
  BY <1>1, BlockAtIsChain DEF ParentOf
<1>3. Work[BlockAt(c, h)] \in Nat
  BY <1>1, WorkAssumption
<1> QED
  BY <1>1, <1>2, <1>3 DEF Commitment, StoredHeader, Fields

----------------------------------------------------------------------------
\* The policy: a batch is not empty and ends in the range.

LEMMA BatchEndInRange ==
    ASSUME NEW from \in 1..MaxHeight, NEW to \in from..MaxHeight
    PROVE  BatchEnd(from, to, BatchLimit, LiveLag) \in from..to
<1> DEFINE size == BatchSize(Remaining(from, to), BatchLimit, LiveLag)
<1>1. MaxHeight \in Nat /\ MaxU64 \in Nat /\ MaxHeight < MaxU64
      /\ BatchLimit \in Nat \ {0} /\ LiveLag \in Nat
  BY HeightAssumption, EngineAssumption, WidthAssumption
<1>2. Remaining(from, to) = to - from + 1
  BY <1>1 DEF Remaining, SatAdd, SatSub, Least, Greatest
<1>3. size \in 1..(to - from + 1)
  BY <1>1, <1>2 DEF BatchSize, Least, Greatest
<1> HIDE DEF size
<1>4. SatSub(size, 1) \in 0..(to - from)
  BY <1>1, <1>3 DEF SatSub, Greatest
<1>5. Least(SatAdd(from, SatSub(size, 1)), to) \in from..to
  BY <1>1, <1>4 DEF SatAdd, Least
<1> QED
  BY <1>5 DEF BatchEnd, size

LEMMA ForkBatchEndInRange ==
    ASSUME NEW p \in 0..MaxHeight, NEW end \in (p + 1)..MaxHeight
    PROVE  ForkBatchEnd(p, end, BatchLimit) \in (p + 1)..end
  BY HeightAssumption, EngineAssumption, WidthAssumption
  DEF ForkBatchEnd, SatAdd, Least

----------------------------------------------------------------------------
\* How a function returns.

\* The locals are in order when a poll cycle is left.
LEMMA LeaveOK ==
    ASSUME NEW w \in {"tipBitcoin", "stopped"}, Leave(w)
    PROVE  DaemonOK'
<1> USE HeightAssumption DEF Leave, ClearPayload, Blank, StoredHeader
<1>1. LocalsOK'
  BY EmptySeq DEF LocalsOK, Pcs, Tasks
<1>2. Control'
  BY DEF Control
<1>3. Filled'
  BY DEF Filled
<1>4. RangeSafe'
  BY DEF RangeSafe
<1> QED
  BY <1>1, <1>2, <1>3, <1>4 DEF DaemonOK

\* ... and when a batch is started.
LEMMA StartBatchOK ==
    ASSUME IInv, relayTip' \in 0..MaxHeight,
           NEW p \in 0..MaxHeight, NEW l \in 0..MaxHeight,
           p < l, l <= btcTip, StartBatch(p, l)
    PROVE  DaemonOK' /\ HoldOK'
<1> USE HeightAssumption DEF StartBatch, ClearPayload, Blank, StoredHeader
<1>1. LocalsOK'
  BY EmptySeq DEF LocalsOK, Pcs, Tasks, IInv, DaemonOK
<1>2. Control'
  BY DEF Control
<1>3. Filled'
  BY DEF Filled
<1>4. RangeSafe'
  BY DEF RangeSafe
<1>5. HoldOK'
  BY DEF IInv, HoldOK
<1> QED
  BY <1>1, <1>2, <1>3, <1>4, <1>5 DEF DaemonOK

\* ... and when follow_reorg begins.
LEMMA EnterReorgOK ==
    ASSUME IInv, EnterReorg
    PROVE  DaemonOK' /\ HoldOK'
<1> USE HeightAssumption DEF EnterReorg, ClearPayload, Blank, StoredHeader, tips
<1>1. LocalsOK'
  BY EmptySeq DEF LocalsOK, Pcs, Tasks, IInv, DaemonOK
<1>2. Control'
  BY DEF Control
<1>3. Filled'
  BY DEF Filled
<1>4. RangeSafe'
  BY DEF RangeSafe
<1>5. HoldOK'
  BY DEF IInv, HoldOK
<1> QED
  BY <1>1, <1>2, <1>3, <1>4, <1>5 DEF DaemonOK

LEMMA EndCycleOK ==
    ASSUME IInv, EndCycle
    PROVE  DaemonOK' /\ HoldOK'
  BY LeaveOK DEF EndCycle, IInv, HoldOK

LEMMA ExitOK ==
    ASSUME Exit
    PROVE  DaemonOK' /\ HoldOK'
  BY LeaveOK DEF Exit, HoldOK

LEMMA HoldBranchOK ==
    ASSUME IInv, HoldBranch
    PROVE  DaemonOK' /\ HoldOK'
<1>1. DaemonOK'
  BY LeaveOK DEF HoldBranch
<1>2. HoldOK'
  BY DEF HoldBranch, RememberHold, IInv, DaemonOK, LocalsOK, HoldOK
<1> QED
  BY <1>1, <1>2

\* ... and after an error of either kind.
LEMMA RetryableErrorOK ==
    ASSUME IInv, RetryableError
    PROVE  DaemonOK' /\ HoldOK'
<1>1. CASE task = "main" /\ StartBatch(parent, last) /\ UNCHANGED relayTip
  <2>1. /\ relayTip' \in 0..MaxHeight
        /\ parent \in 0..MaxHeight /\ last \in 0..MaxHeight
        /\ parent < last /\ last <= btcTip
    BY <1>1 DEF IInv, DaemonOK, LocalsOK, RangeSafe
  <2> QED
    BY <1>1, <2>1, StartBatchOK
<1> QED
  BY <1>1, EndCycleOK, ExitOK DEF RetryableError

LEMMA HardErrorOK ==
    ASSUME IInv, HardError
    PROVE  DaemonOK' /\ HoldOK'
  BY EnterReorgOK, HoldBranchOK, ExitOK DEF HardError

----------------------------------------------------------------------------
\* One lemma per action of the daemon: DaemonOK and HoldOK are preserved.

LEMMA ReadBitcoinTipOK ==
    ASSUME IInv, ReadBitcoinTip
    PROVE  DaemonOK' /\ HoldOK'
<1> USE HeightAssumption DEF ReadBitcoinTip, span, IInv, DaemonOK
<1>1. Height(node) \in 0..MaxHeight
  BY ChainIsSeq DEF WorldOK
<1>2. LocalsOK'
  BY <1>1 DEF LocalsOK, Pcs
<1>3. Control' /\ Filled' /\ RangeSafe'
  BY DEF Control, Filled, RangeSafe
<1>4. HoldOK'
  BY DEF HoldOK
<1> QED
  BY <1>2, <1>3, <1>4

LEMMA ReadRelayTipOK ==
    ASSUME IInv, ReadRelayTip
    PROVE  DaemonOK' /\ HoldOK'
<1> DEFINE r == Height(main)
           from == FromHeight(r, Resume)
<1>1. r \in 0..MaxHeight /\ btcTip \in 0..MaxHeight
  BY ChainIsSeq DEF IInv, WorldOK, DaemonOK, LocalsOK
<1>2. CASE /\ RangeExists(r, btcTip, Resume)
           /\ relayTip' = r
           /\ StartBatch(from - 1, NextBatchEnd(from))
  <2>1. Resume \in Nat
    BY <1>1, HeightAssumption, EngineAssumption, WidthAssumption
    DEF Resume, ResumeHeight, SatAdd, Least, Greatest
  <2>2. from \in 1..MaxHeight /\ btcTip \in from..MaxHeight
    BY <1>1, <1>2, <2>1, HeightAssumption, EngineAssumption, WidthAssumption
    DEF FromHeight, RangeExists, SatAdd, Least, Greatest
  <2>3. NextBatchEnd(from) \in from..btcTip
    BY <2>2, BatchEndInRange DEF NextBatchEnd
  <2> HIDE DEF from
  <2>4. /\ from - 1 \in 0..MaxHeight
        /\ NextBatchEnd(from) \in 0..MaxHeight
        /\ from - 1 < NextBatchEnd(from)
        /\ NextBatchEnd(from) <= btcTip
    BY <1>1, <2>2, <2>3, HeightAssumption
  <2> QED
    BY <1>1, <1>2, <2>4, StartBatchOK
<1> QED
  BY <1>2, EndCycleOK, ExitOK DEF ReadRelayTip

\* The steps that fill in a payload move only pc and one local.
LEMMA ReadEndHashOK ==
    ASSUME IInv, ReadEndHash
    PROVE  DaemonOK' /\ HoldOK'
<1> USE HeightAssumption DEF ReadEndHash, tips, span, IInv, DaemonOK
<1>1. last <= Height(node) /\ last \in 0..MaxHeight
  BY DEF NodeHasIt, WantedHeight, LocalsOK
<1>2. BlockAt(node, last) \in Chain
  BY <1>1, BlockAtIsChain, ChainIsSeq DEF WorldOK
<1>3. LocalsOK'
  BY <1>2 DEF LocalsOK, Pcs
<1>4. Control' /\ Filled' /\ RangeSafe'
  BY DEF Control, Filled, RangeSafe, Top
<1>5. HoldOK'
  BY DEF HoldOK
<1> QED
  BY <1>3, <1>4, <1>5

LEMMA ReadWorkOK ==
    ASSUME IInv, ReadWork
    PROVE  DaemonOK' /\ HoldOK'
<1> USE HeightAssumption DEF ReadWork, tips, span, IInv, DaemonOK
<1> DEFINE w == IF task = "main" THEN Work[main] ELSE Work[BlockAt(node, parent)]
<1>2. w \in Nat
  <2>1. CASE task = "main"
    BY <2>1, WorkAssumption DEF WorldOK
  <2>2. CASE task # "main"
    <3>1. parent <= Height(node) /\ parent \in 0..MaxHeight
      BY <2>2 DEF NodeHasIt, WantedHeight, LocalsOK
    <3>2. BlockAt(node, parent) \in Chain
      BY <3>1, BlockAtIsChain, ChainIsSeq DEF WorldOK
    <3> QED
      BY <2>2, <3>2, WorkAssumption
  <2> QED
    BY <2>1, <2>2
<1> HIDE DEF w
<1>3. LocalsOK'
  BY <1>2 DEF LocalsOK, Pcs, w
<1>4. Control' /\ Filled' /\ RangeSafe'
  BY DEF Control, Filled, RangeSafe, Top
<1>5. HoldOK'
  BY DEF HoldOK
<1> QED
  BY <1>3, <1>4, <1>5

LEMMA ReadParentOK ==
    ASSUME IInv, ReadParent, ~HardError
    PROVE  DaemonOK' /\ HoldOK'
<1> USE HeightAssumption DEF ReadParent, tips, span, IInv, DaemonOK
<1>1. parent <= Height(node) /\ parent \in 0..MaxHeight
  BY DEF NodeHasIt, WantedHeight, LocalsOK
<1>2. BlockAt(node, parent) \in Chain
  BY <1>1, BlockAtIsChain, ChainIsSeq DEF WorldOK
<1>3. LocalsOK'
  BY <1>2 DEF LocalsOK, Pcs
<1>4. Filled'
  BY <1>2 DEF Filled, LocalsOK
<1>5. Control' /\ RangeSafe'
  BY DEF Control, RangeSafe, Top
<1>6. HoldOK'
  BY DEF HoldOK
<1> QED
  BY <1>3, <1>4, <1>5, <1>6

\* The block below the parent, which a stored header's timestamps come from.
LEMMA ContextIsChain ==
    ASSUME IInv, pc = "context", NodeHasIt
    PROVE  BlockAt(node, parent - 1) \in Chain
<1>1. parent - 1 <= Height(node) /\ parent \in 0..MaxHeight
  BY DEF NodeHasIt, WantedHeight, LocalsOK, IInv, DaemonOK
<1>2. parent - 1 \in 0..Height(node)
  BY <1>1, EngineAssumption, HeightAssumption, ChainIsSeq
  DEF IInv, WorldOK, DaemonOK, Filled
<1> QED
  BY <1>2, BlockAtIsChain DEF IInv, WorldOK

LEMMA ReadContextOK ==
    ASSUME IInv, ReadContext
    PROVE  DaemonOK' /\ HoldOK'
<1> USE HeightAssumption DEF ReadContext, tips, span, IInv, DaemonOK
<1>1. BlockAt(node, parent - 1) \in Chain
  BY ContextIsChain
<1>2. stored' \in Fields
  BY <1>1 DEF LocalsOK, Filled, Fields
<1>3. LocalsOK'
  BY <1>1 DEF LocalsOK, Pcs
<1>4. Filled'
  BY <1>2 DEF Filled
<1>5. Control'
  BY DEF Control
<1>6. RangeSafe'
  BY DEF RangeSafe, Top, LocalsOK, Filled
<1>7. HoldOK'
  BY DEF HoldOK
<1> QED
  BY <1>3, <1>4, <1>5, <1>6, <1>7

LEMMA ReadHeaderOK ==
    ASSUME IInv, ReadHeader
    PROVE  DaemonOK' /\ HoldOK'
<1> USE HeightAssumption DEF ReadHeader, tips, span, IInv, DaemonOK
<1> DEFINE h == parent + 1 + Len(headers)
<1>1. /\ parent \in 0..MaxHeight /\ last \in 0..MaxHeight
      /\ headers \in Seq(Chain) /\ Len(headers) \in Nat
      /\ parent + Len(headers) < last
  BY LenProperties DEF LocalsOK, RangeSafe
<1>2. h \in 0..Height(node)
  BY <1>1, ChainIsSeq DEF NodeHasIt, WantedHeight, WorldOK
<1>3. BlockAt(node, h) \in Chain
  BY <1>2, BlockAtIsChain DEF WorldOK
<1>4. headers' \in Seq(Chain) /\ Len(headers') = Len(headers) + 1
  BY <1>1, <1>3, AppendProperties
<1>5. LocalsOK'
  BY <1>4 DEF LocalsOK, Pcs
<1>6. Filled' /\ Control'
  BY DEF Filled, Control
<1>7. RangeSafe'
  BY <1>1, <1>4 DEF RangeSafe, Top, Control
<1>8. HoldOK'
  BY DEF HoldOK
<1> QED
  BY <1>5, <1>6, <1>7, <1>8

LEMMA SendOK ==
    ASSUME IInv, Send
    PROVE  DaemonOK' /\ HoldOK'
<1> USE DEF Send, tips, span, IInv, DaemonOK
<1>1. LocalsOK'
  BY DEF LocalsOK, Pcs
<1>2. Control' /\ Filled' /\ RangeSafe'
  BY DEF Control, Filled, RangeSafe, Top
<1>3. HoldOK'
  BY DEF HoldOK
<1> QED
  BY <1>1, <1>2, <1>3

LEMMA MainConfirmedOK ==
    ASSUME IInv, MainConfirmed
    PROVE  DaemonOK' /\ HoldOK'
<1>1. CASE last < btcTip /\ StartBatch(last, NextBatchEnd(last + 1)) /\ UNCHANGED relayTip
  <2>1. /\ relayTip' \in 0..MaxHeight
        /\ last \in 0..MaxHeight /\ btcTip \in 0..MaxHeight
    BY <1>1 DEF IInv, DaemonOK, LocalsOK
  <2>2. last + 1 \in 1..MaxHeight /\ btcTip \in (last + 1)..MaxHeight
    BY <1>1, <2>1, HeightAssumption
  <2>3. NextBatchEnd(last + 1) \in (last + 1)..btcTip
    BY <2>2, BatchEndInRange DEF NextBatchEnd
  <2>4. /\ NextBatchEnd(last + 1) \in 0..MaxHeight
        /\ last < NextBatchEnd(last + 1)
        /\ NextBatchEnd(last + 1) <= btcTip
    BY <2>1, <2>3, HeightAssumption
  <2> QED
    BY <1>1, <2>1, <2>4, StartBatchOK
<1> QED
  BY <1>1, EndCycleOK DEF MainConfirmed

LEMMA BranchConfirmedOK ==
    ASSUME IInv, BranchConfirmed
    PROVE  DaemonOK' /\ HoldOK'
<1> USE HeightAssumption
    DEF BranchConfirmed, ClearPayload, Blank, StoredHeader, tips, IInv, DaemonOK
<1>1. last \in 0..MaxHeight /\ btcTip \in 0..MaxHeight /\ task = "branch"
  BY DEF LocalsOK
<1>2. HoldOK'
  BY DEF HoldOK
<1>3. CASE /\ last < btcTip /\ pc' = "work" /\ parent' = last
           /\ last' = ForkBatchEnd(last, btcTip, BatchLimit)
           /\ UNCHANGED <<task, forkId>>
  <2>1. last' \in (last + 1)..btcTip
    BY <1>1, <1>3, ForkBatchEndInRange
  <2>2. LocalsOK'
    BY <1>1, <1>3, <2>1, EmptySeq DEF LocalsOK, Pcs
  <2>3. Control' /\ Filled' /\ RangeSafe'
    BY <1>1, <1>3, <2>1 DEF Control, Filled, RangeSafe
  <2> QED
    BY <1>2, <2>2, <2>3
<1>4. CASE pc' = "verifyTip" /\ task' = "verify" /\ parent' = btcTip /\ last' = 0 /\ forkId' = None
  <2>1. LocalsOK'
    BY <1>1, <1>4, EmptySeq DEF LocalsOK, Pcs, Tasks
  <2>2. Control' /\ Filled' /\ RangeSafe'
    BY <1>1, <1>4 DEF Control, Filled, RangeSafe
  <2> QED
    BY <1>2, <2>1, <2>2
<1> QED
  BY <1>3, <1>4

LEMMA ReadReorgTipOK ==
    ASSUME IInv, ReadReorgTip
    PROVE  DaemonOK' /\ HoldOK'
<1> USE HeightAssumption
    DEF ReadReorgTip, Probe, ClearPayload, Blank, StoredHeader, IInv, DaemonOK
<1>1. Height(main) \in 0..MaxHeight /\ btcTip \in 0..MaxHeight
  BY ChainIsSeq DEF WorldOK, LocalsOK
<1>2. Least(Height(main), btcTip) \in 0..MaxHeight
  BY <1>1 DEF Least
<1>3. LocalsOK'
  BY <1>1, <1>2, EmptySeq DEF LocalsOK, Pcs, Tasks
<1>4. Control' /\ Filled'
  BY DEF Control, Filled
<1>5. RangeSafe'
  BY <1>1, <1>2 DEF RangeSafe, Top
<1>6. HoldOK'
  BY DEF HoldOK
<1> QED
  BY <1>3, <1>4, <1>5, <1>6

LEMMA ReadCommitOK ==
    ASSUME IInv, ReadCommit
    PROVE  DaemonOK' /\ HoldOK'
<1>1. CASE HoldBranch
  BY <1>1, HoldBranchOK
<1>2. CASE ~HoldBranch
  <2> USE <1>2, HeightAssumption DEF ReadCommit, tips, span, IInv, DaemonOK
  <2>1. parent \in 0..MaxHeight /\ parent >= TsWindow /\ commit' = CommitAt(parent)
    BY DEF LocalsOK
  <2>2. parent \in 1..Height(main)
    BY <2>1, EngineAssumption, ContractAssumption DEF CommitAt
  <2>3. commit' \in Fields
    BY <2>1, <2>2, CommitmentFields DEF CommitAt, WorldOK
  <2>4. LocalsOK'
    BY <2>3 DEF LocalsOK, Pcs
  <2>5. Control' /\ RangeSafe'
    BY DEF Control, RangeSafe, Top
  <2>6. Filled'
    BY <2>1 DEF Filled
  <2>7. HoldOK'
    BY DEF HoldOK
  <2> QED
    BY <2>4, <2>5, <2>6, <2>7
<1> QED
  BY <1>1, <1>2

LEMMA ReadVerifyTipOK ==
    ASSUME IInv, ReadVerifyTip
    PROVE  DaemonOK' /\ HoldOK'
<1>1. CASE HoldBranch
  BY <1>1, HoldBranchOK
<1>2. CASE ~HoldBranch
  <2> USE HeightAssumption DEF Probe, ClearPayload, Blank, StoredHeader, tips, IInv, DaemonOK
  <2>1. /\ task = "verify" /\ btcTip \in 0..MaxHeight
        /\ Probe(btcTip)
        /\ UNCHANGED <<task, tips, last, forkId, hold>>
    BY <1>2 DEF ReadVerifyTip, Control, LocalsOK
  <2>2. LocalsOK'
    BY <2>1, EmptySeq DEF LocalsOK, Pcs
  <2>3. Control' /\ Filled' /\ RangeSafe'
    BY <2>1 DEF Control, Filled, RangeSafe
  <2>4. HoldOK'
    BY <2>1 DEF HoldOK
  <2> QED
    BY <2>2, <2>3, <2>4
<1> QED
  BY <1>1, <1>2

\* Below `top` agreement is a fork point: the branch that starts there.
LEMMA StartBranchOK ==
    ASSUME IInv, task = "scan", ~NoReorg, StartBranch(parent)
    PROVE  DaemonOK' /\ HoldOK'
<1> USE HeightAssumption
    DEF StartBranch, ClearPayload, Blank, StoredHeader, tips, IInv, DaemonOK
<1>1. parent \in 0..MaxHeight /\ btcTip \in 0..MaxHeight /\ parent < btcTip
  BY DEF LocalsOK, RangeSafe, NoReorg, Top, Least
<1>2. ForkBatchEnd(parent, btcTip, BatchLimit) \in (parent + 1)..btcTip
  BY <1>1, ForkBatchEndInRange
<1>3. last' \in (parent + 1)..btcTip
  BY <1>1, <1>2
<1>4. forkId' \in ForkIds \cup {None}
  BY DEF LocalsOK
<1>5. LocalsOK'
  BY <1>1, <1>3, <1>4, EmptySeq DEF LocalsOK, Pcs, Tasks
<1>6. Control' /\ Filled' /\ RangeSafe'
  BY <1>1, <1>3 DEF Control, Filled, RangeSafe
<1>7. HoldOK'
  BY DEF HoldOK
<1> QED
  BY <1>5, <1>6, <1>7

LEMMA CompareOK ==
    ASSUME IInv, Compare
    PROVE  DaemonOK' /\ HoldOK'
<1> DEFINE full == [stored EXCEPT !.context = BlockAt(node, parent - 1)]
<1> USE HeightAssumption DEF IInv, DaemonOK
<1>1. full \in [block : Chain \cup {None}, work : Nat, context : Chain \cup {None}]
  BY ContextIsChain DEF Compare, LocalsOK
<1> HIDE DEF full
<1>2. CASE Exit
  BY <1>2, ExitOK
<1>3. CASE task = "scan" /\ ~NoReorg /\ StartBranch(parent)
  BY <1>3, StartBranchOK
<1>4. CASE /\ task = "scan" /\ Probe(parent - 1)
           /\ UNCHANGED <<task, tips, last, forkId, hold>>
  <2> USE DEF Probe, ClearPayload, Blank, StoredHeader, tips
  <2>1. /\ parent \in 0..MaxHeight /\ parent >= TsWindow /\ parent <= Top
        /\ btcTip \in 0..MaxHeight /\ relayTip \in 0..MaxHeight
    BY <1>4 DEF Compare, LocalsOK, Filled, RangeSafe
  <2>2. parent - 1 \in 0..MaxHeight /\ parent - 1 <= Top
    BY <2>1, EngineAssumption DEF Top, Least
  <2>3. LocalsOK'
    BY <1>4, <2>2, EmptySeq DEF LocalsOK, Pcs
  <2>4. Control' /\ Filled' /\ RangeSafe'
    BY <1>4, <2>2 DEF Control, Filled, RangeSafe, Top
  <2>5. HoldOK'
    BY <1>4 DEF HoldOK
  <2> QED
    BY <2>3, <2>4, <2>5
<1>5. CASE /\ task = "verify" /\ task' = "record" /\ pc' = "tipHash" /\ stored' = full
           /\ UNCHANGED <<tips, span, endHash, commit, headers, forkId, hold, receipt>>
  <2> USE DEF tips, span
  <2>1. LocalsOK'
    BY <1>1, <1>5 DEF LocalsOK, Pcs, Tasks
  <2>2. Control' /\ Filled' /\ RangeSafe'
    BY <1>5 DEF Control, Filled, RangeSafe
  <2>3. HoldOK'
    BY <1>5 DEF HoldOK
  <2> QED
    BY <2>1, <2>2, <2>3
<1>6. CASE HoldBranch
  BY <1>6, HoldBranchOK
<1> QED
  BY <1>2, <1>3, <1>4, <1>5, <1>6 DEF Compare, full

----------------------------------------------------------------------------
\* The world: what the daemon sends is a transaction, what is mined is a chain.

LEMMA ThisTxIsTx ==
    ASSUME IInv, pc = "send"
    PROVE  ThisTx \in Tx
<1> USE DEF IInv, DaemonOK
<1>1. stored \in Fields /\ forkId \in ForkIds \cup {None}
  BY DEF Filled, LocalsOK
<1>2. headers \in Seq(Chain) /\ headers # <<>>
  BY HeightAssumption, LenProperties, EmptySeq DEF LocalsOK, RangeSafe, Control
<1>3. Kind \in {"main", "short", "fork"}
  BY DEF Kind
<1> QED
  BY <1>1, <1>2, <1>3 DEF ThisTx, Tx, Fields

\* The contract holds chains before and after it executes a transaction.
LEMMA MinedChain ==
    ASSUME WorldOK, mempool # None, Execute(mempool)
    PROVE  main' \in Chain /\ forks' \in [ForkIds -> Chain \cup {None}]
<1>1. mempool.headers \in Seq(Chain) /\ mempool.headers # <<>>
  BY DEF WorldOK, Tx
<1>2. Len(mempool.headers) \in 1..Len(mempool.headers)
  BY <1>1, LenProperties, EmptySeq
<1>3. TipOf(mempool) \in Chain
  BY <1>1, <1>2, ElementOfSeq DEF TipOf
<1> QED
  BY <1>3 DEF Execute, WorldOK

LEMMA MineTxOK ==
    ASSUME WorldOK, MineTx
    PROVE  WorldOK' /\ receipt' \in {receipt, "ok", "reverted"}
<1>1. main' \in Chain /\ forks' \in [ForkIds -> Chain \cup {None}]
  <2>1. CASE Execute(mempool)
    BY <2>1, MinedChain DEF MineTx
  <2>2. CASE UNCHANGED contractVars
    BY <2>2 DEF contractVars, WorldOK
  <2> QED
    BY <2>1, <2>2 DEF MineTx
<1> QED
  BY <1>1, EngineAssumption DEF MineTx, Fault, WorldOK

LEMMA DropTxOK ==
    ASSUME WorldOK, DropTx
    PROVE  WorldOK' /\ receipt' \in {receipt, "dropped"}
  BY EngineAssumption DEF DropTx, Fault, WorldOK

----------------------------------------------------------------------------
\* The induction.

\* The locals are in order at the start.
LEMMA InitOK == Init => IInv
<1> SUFFICES ASSUME Init PROVE IInv
  OBVIOUS
<1> USE HeightAssumption, EngineAssumption DEF Init, Blank, StoredHeader
<1>1. WorldOK
  BY EmptySeq DEF WorldOK, ContractInit
<1>2. HoldOK
  BY DEF HoldOK
<1>3. LocalsOK
  BY EmptySeq DEF LocalsOK, Pcs, Tasks
<1>4. Control /\ Filled /\ RangeSafe
  BY DEF Control, Filled, RangeSafe
<1> QED
  BY <1>1, <1>2, <1>3, <1>4 DEF IInv, DaemonOK

\* Nothing the daemon relies on is disturbed from outside but the receipt.
LEMMA EnvironmentOK ==
    ASSUME DaemonOK, HoldOK,
           receipt' \in {"none", "pending", "dropped", "ok", "reverted"},
           UNCHANGED <<pc, task, locals, hold>>
    PROVE  DaemonOK' /\ HoldOK'
<1> USE DEF locals, tips, span
<1>1. LocalsOK'
  BY DEF DaemonOK, LocalsOK
<1>2. Control' /\ Filled'
  BY DEF DaemonOK, Control, Filled
<1>3. RangeSafe'
  BY DEF DaemonOK, RangeSafe, Top
<1>4. HoldOK'
  BY DEF HoldOK
<1> QED
  BY <1>1, <1>2, <1>3, <1>4 DEF DaemonOK

LEMMA ReadStepOK ==
    ASSUME IInv, ReadStep
    PROVE  IInv'
<1>1. WorldOK'
  BY DEF ReadStep, IInv, WorldOK
<1> SUFFICES DaemonOK' /\ HoldOK'
  BY <1>1 DEF IInv
<1>2. CASE ReadBitcoinTip
  BY <1>2, ReadBitcoinTipOK
<1>3. CASE ReadRelayTip
  BY <1>3, ReadRelayTipOK
<1>4. CASE ReadEndHash
  BY <1>4, ReadEndHashOK
<1>5. CASE ReadWork
  BY <1>5, ReadWorkOK
<1>6. CASE ReadParent
  BY <1>6, ReadParentOK, HardErrorOK
<1>7. CASE ReadContext
  BY <1>7, ReadContextOK
<1>8. CASE ReadHeader
  BY <1>8, ReadHeaderOK
<1>9. CASE ReadReorgTip
  BY <1>9, ReadReorgTipOK
<1>10. CASE ReadCommit
  BY <1>10, ReadCommitOK
<1>11. CASE ReadVerifyTip
  BY <1>11, ReadVerifyTipOK
<1>12. CASE Reverted
  BY <1>12, HardErrorOK DEF Reverted, RevertError
<1>13. CASE BranchConfirmed
  BY <1>13, BranchConfirmedOK
<1>14. CASE OutOfRange
  BY <1>14, HardErrorOK DEF OutOfRange
<1> QED
  BY <1>2, <1>3, <1>4, <1>5, <1>6, <1>7, <1>8, <1>9, <1>10, <1>11, <1>12,
     <1>13, <1>14 DEF ReadStep

LEMMA WriteStepOK ==
    ASSUME IInv, WriteStep
    PROVE  IInv'
<1>1. CASE Send /\ UNCHANGED <<node, main, forks, file, faults>>
  <2>1. WorldOK'
    BY <1>1, ThisTxIsTx DEF Send, IInv, WorldOK
  <2> QED
    BY <1>1, <2>1, SendOK DEF IInv
<1>2. CASE (Refused \/ RejectedByEstimate) /\ UNCHANGED <<node, main, forks, file, faults>>
  <2>1. WorldOK'
    BY <1>2 DEF Refused, RejectedByEstimate, IInv, WorldOK
  <2>2. HardError
    BY <1>2 DEF Refused, RejectedByEstimate, RevertError
  <2> QED
    BY <2>1, <2>2, HardErrorOK DEF IInv
<1>3. CASE MainConfirmed /\ UNCHANGED <<node, main, forks, mempool, faults>>
  <2>1. WorldOK'
    BY <1>3 DEF MainConfirmed, Saved, IInv, WorldOK, DaemonOK, LocalsOK
  <2> QED
    BY <1>3, <2>1, MainConfirmedOK DEF IInv
<1>4. CASE RecordProgress /\ UNCHANGED <<node, main, forks, mempool, faults>>
  <2>1. btcTip \in 0..Height(node)
    BY <1>4, HeightAssumption
    DEF RecordProgress, NodeHasIt, WantedHeight, IInv, DaemonOK, LocalsOK
  <2>2. file' \in Chain
    BY <1>4, <2>1, BlockAtIsChain DEF RecordProgress, IInv, WorldOK
  <2>3. WorldOK'
    BY <1>4, <2>2 DEF IInv, WorldOK
  <2> QED
    BY <1>4, <2>3, EndCycleOK DEF RecordProgress, IInv
<1>5. CASE Compare /\ UNCHANGED <<node, main, mempool, file, faults>>
  <2>1. forks' \in [ForkIds -> Chain \cup {None}]
    BY <1>5 DEF Compare, StartBranch, NewSlot, IInv, WorldOK
  <2>2. WorldOK'
    BY <1>5, <2>1 DEF IInv, WorldOK
  <2> QED
    BY <1>5, <2>2, CompareOK DEF IInv
<1> QED
  BY <1>1, <1>2, <1>3, <1>4, <1>5 DEF WriteStep

LEMMA MisfortuneOK ==
    ASSUME IInv, Misfortune \/ Restart
    PROVE  IInv'
<1> USE EngineAssumption DEF Fault, IInv
<1>1. CASE RpcFault
  <2>1. WorldOK'
    BY <1>1 DEF RpcFault, WorldOK
  <2> QED
    BY <1>1, <2>1, RetryableErrorOK, HardErrorOK DEF RpcFault
<1>2. CASE RecordFault
  <2>1. WorldOK'
    BY <1>2 DEF RecordFault, WorldOK
  <2> QED
    BY <1>2, <2>1, ExitOK DEF RecordFault
<1>3. CASE SendLost
  <2>1. WorldOK'
    BY <1>3, ThisTxIsTx DEF SendLost, WorldOK
  <2> QED
    BY <1>3, <2>1, RetryableErrorOK DEF SendLost
<1>4. CASE Timeout
  <2>1. WorldOK'
    BY <1>4 DEF Timeout, WorldOK
  <2> QED
    BY <1>4, <2>1, RetryableErrorOK DEF Timeout
<1>5. CASE TimeoutOfDropped
  <2>1. WorldOK'
    BY <1>5 DEF TimeoutOfDropped, WorldOK
  <2> QED
    BY <1>5, <2>1, RetryableErrorOK DEF TimeoutOfDropped
<1>6. CASE SaveFault
  <2>1. WorldOK'
    BY <1>6 DEF SaveFault, WorldOK
  <2> QED
    BY <1>6, <2>1, EnterReorgOK DEF SaveFault
<1>7. CASE Crash
  <2>1. WorldOK'
    BY <1>7 DEF Crash, WorldOK
  <2> QED
    BY <1>7, <2>1, ExitOK DEF Crash
<1>8. CASE Restart
  <2>1. WorldOK'
    BY <1>8 DEF Restart, WorldOK
  <2> QED
    BY <1>8, <2>1, EndCycleOK DEF Restart
<1> QED
  BY <1>1, <1>2, <1>3, <1>4, <1>5, <1>6, <1>7, <1>8 DEF Misfortune

LEMMA Induction ==
    ASSUME IInv, [Next]_vars
    PROVE  IInv'
<1> USE DEF IInv
<1>1. receipt \in {"none", "pending", "dropped", "ok", "reverted"}
  BY DEF DaemonOK, LocalsOK
<1>2. CASE Daemon
  BY <1>2, ReadStepOK, WriteStepOK DEF Daemon
<1>3. CASE Misfortune \/ Restart
  BY <1>3, MisfortuneOK
<1>4. CASE NodeAdvance
  <2>1. WorldOK'
    BY <1>4 DEF NodeAdvance, WorldOK
  <2> QED
    BY <1>1, <1>4, <2>1, EnvironmentOK DEF NodeAdvance
<1>5. CASE MineTx
  BY <1>1, <1>5, MineTxOK, EnvironmentOK DEF MineTx
<1>6. CASE DropTx
  BY <1>1, <1>6, DropTxOK, EnvironmentOK DEF DropTx
<1>7. CASE UNCHANGED vars
  <2>1. WorldOK'
    BY <1>7 DEF vars, WorldOK
  <2> QED
    BY <1>1, <1>7, <2>1, EnvironmentOK DEF vars
<1> QED
  BY <1>2, <1>3, <1>4, <1>5, <1>6, <1>7 DEF Next, Environment

\* The strengthened invariant: the locals are filled in as the program counter
\* says, in every reachable state of every instance.
THEOREM Inductive == Spec => []IInv
<1>1. Init => IInv
  BY InitOK
<1>2. IInv /\ [Next]_vars => IInv'
  BY Induction
<1> QED
  BY <1>1, <1>2, PTL DEF Spec

\* The types of SyncEngine hold for every instance: each height stays in range,
\* each block read is one of the node's, and whatever is broadcast is a whole
\* transaction (a complete stored header and at least one compact header).
THEOREM TypeCorrect == Spec => []TypeOK
<1>1. IInv => TypeOK
  BY DEF IInv, WorldOK, HoldOK, DaemonOK, LocalsOK, TypeOK, ContractTypeOK, Fields
<1> QED
  BY <1>1, Inductive, PTL

\* The arithmetic of the batches and of the scan is in range for every batch
\* size, lag, fork limit, window and START_HEIGHT, and for every interleaving
\* of reorgs, faults and crashes: no payload is empty or reaches above the node
\* tip of the cycle, no subtraction of heights wraps.
THEOREM RangeCorrect == Spec => []RangeSafe
<1>1. IInv => RangeSafe
  BY DEF IInv, DaemonOK
<1> QED
  BY <1>1, Inductive, PTL

----------------------------------------------------------------------------
\* Progress.

\* START_HEIGHT leaves no gap above the checkpoint.
LowStart == StartHeight <= Checkpoint + 1

\* hs are blocks of the heights above p.
Stacked(hs, p) == \A i \in 1..Len(hs) : Height(hs[i]) = p + i

PayloadOK ==
    /\ task \in {"main", "branch"} => Stacked(headers, parent)
    /\ task = "main" /\ pc # "endHash" => endHash \in Chain /\ Height(endHash) = last

\* Between the verification's read of the tip and the end of the cycle.
Verified ==
    task = "record" \/ (task = "verify" /\ pc # "verifyTip") => btcTip <= Height(main)

MempoolOK == mempool # None => \E p \in 0..MaxHeight : Stacked(mempool.headers, p)

ReceiptOK ==
    /\ receipt # "none" => pc = "wait"
    /\ receipt = "pending" =>
           /\ mempool.headers = headers
           /\ task = "main" => mempool.kind = "main"
    /\ receipt = "ok" /\ task = "main" => last <= Height(main)

RelayOK ==
    /\ Checkpoint <= Height(main)
    /\ SavedNotAhead

Progress == PayloadOK /\ Verified /\ MempoolOK /\ ReceiptOK /\ RelayOK

\* The daemon's share of it, and what it is where no transaction is awaited.
Followed == PayloadOK /\ Verified /\ (receipt # "none" => pc = "wait")

Quiet == PayloadOK /\ Verified /\ receipt = "none"

LEMMA ProgressFollowed == Progress => Followed
  BY DEF Progress, ReceiptOK, Followed

----------------------------------------------------------------------------
\* How a function returns.

LEMMA LeaveQuiet ==
    ASSUME NEW w, Leave(w)
    PROVE  Quiet'
  BY DEF Leave, ClearPayload, Quiet, PayloadOK, Verified

LEMMA StackedEmpty == \A p : Stacked(<<>>, p)
  BY EmptySeq DEF Stacked

LEMMA StartBatchQuiet ==
    ASSUME NEW p, NEW l, StartBatch(p, l)
    PROVE  Quiet'
  BY StackedEmpty DEF StartBatch, ClearPayload, Quiet, PayloadOK, Verified

LEMMA EnterReorgQuiet ==
    ASSUME EnterReorg
    PROVE  Quiet'
  BY DEF EnterReorg, ClearPayload, Quiet, PayloadOK, Verified

LEMMA ReturnQuiet ==
    ASSUME EndCycle \/ Exit \/ HoldBranch
    PROVE  Quiet'
  BY LeaveQuiet DEF EndCycle, Exit, HoldBranch

LEMMA ErrorQuiet ==
    ASSUME RetryableError \/ HardError
    PROVE  Quiet'
  BY StartBatchQuiet, EnterReorgQuiet, ReturnQuiet DEF RetryableError, HardError

----------------------------------------------------------------------------
\* Reading.

\* A header read is the block one above those read before.
LEMMA ReadHeaderStacks ==
    ASSUME IInv, ReadHeader, Stacked(headers, parent)
    PROVE  Stacked(headers', parent)
<1> USE HeightAssumption DEF ReadHeader, IInv, DaemonOK
<1> DEFINE h == parent + 1 + Len(headers)
<1>1. parent \in 0..MaxHeight /\ headers \in Seq(Chain) /\ Len(headers) \in Nat
  BY LenProperties DEF LocalsOK
<1>2. h \in 0..Height(node)
  BY <1>1, ChainIsSeq DEF NodeHasIt, WantedHeight, WorldOK
<1>3. BlockAt(node, h) \in Chain /\ Height(BlockAt(node, h)) = h
  BY <1>2, BlockAtIsChain DEF WorldOK
<1>4. /\ Len(headers') = Len(headers) + 1
      /\ \A i \in 1..Len(headers) : headers'[i] = headers[i]
      /\ headers'[Len(headers) + 1] = BlockAt(node, h)
  BY <1>1, <1>3, AppendProperties
<1>5. SUFFICES ASSUME NEW i \in 1..Len(headers') PROVE Height(headers'[i]) = parent + i
  BY DEF Stacked
<1>6. CASE i \in 1..Len(headers)
  <2>1. headers'[i] = headers[i]
    BY <1>4, <1>6
  <2>2. Height(headers[i]) = parent + i
    BY <1>1, <1>6 DEF Stacked
  <2> QED
    BY <2>1, <2>2
<1>7. CASE i = Len(headers) + 1
  <2>1. headers'[i] = BlockAt(node, h) /\ h = parent + i
    BY <1>1, <1>4, <1>7
  <2> QED
    BY <1>3, <2>1
<1> QED
  BY <1>1, <1>4, <1>6, <1>7

LEMMA ReadHeaderQuiet ==
    ASSUME IInv, Followed, ReadHeader
    PROVE  PayloadOK'
<1>1. Stacked(headers, parent)
  BY DEF ReadHeader, Followed, PayloadOK, IInv, DaemonOK, Control
<1>2. Stacked(headers', parent)
  BY <1>1, ReadHeaderStacks
<1> QED
  BY <1>2 DEF ReadHeader, Followed, PayloadOK, tips, span

LEMMA ReadEndHashQuiet ==
    ASSUME IInv, Followed, ReadEndHash
    PROVE  PayloadOK'
<1> USE HeightAssumption DEF ReadEndHash, tips, span, IInv, DaemonOK
<1>1. last \in 0..Height(node)
  BY ChainIsSeq DEF NodeHasIt, WantedHeight, LocalsOK, WorldOK
<1>2. BlockAt(node, last) \in Chain /\ Height(BlockAt(node, last)) = last
  BY <1>1, BlockAtIsChain DEF WorldOK
<1> QED
  BY <1>2 DEF Followed, PayloadOK

\* No step of reading ends with a transaction awaited.
LEMMA ReadStepQuiet ==
    ASSUME IInv, Followed, ReadStep
    PROVE  Quiet'
<1> USE DEF ReadStep
<1>1. CASE OutOfRange \/ Reverted
  BY <1>1, ErrorQuiet DEF OutOfRange, Reverted, RevertError
<1>2. CASE ReadBitcoinTip
  BY <1>2 DEF ReadBitcoinTip, Quiet, PayloadOK, Verified, Followed,
              IInv, DaemonOK, Control
<1>3. CASE ReadRelayTip
  BY <1>3, StartBatchQuiet, ReturnQuiet DEF ReadRelayTip
<1>4. CASE ReadEndHash
  BY <1>4, ReadEndHashQuiet
  DEF ReadEndHash, Quiet, Verified, Followed, IInv, DaemonOK, Control
<1>5. CASE ReadWork
  BY <1>5 DEF ReadWork, Quiet, PayloadOK, Verified, Followed, tips, span
<1>6. CASE ReadParent
  <2>1. CASE HardError
    BY <2>1, ErrorQuiet
  <2>2. CASE ~HardError
    BY <1>6, <2>2 DEF ReadParent, Quiet, PayloadOK, Verified, Followed, tips, span
  <2> QED
    BY <2>1, <2>2
<1>7. CASE ReadContext
  BY <1>7 DEF ReadContext, Quiet, PayloadOK, Verified, Followed, tips, span
<1>8. CASE ReadHeader
  BY <1>8, ReadHeaderQuiet
  DEF ReadHeader, Quiet, Verified, Followed, IInv, DaemonOK, Control, tips
<1>9. CASE ReadReorgTip
  BY <1>9 DEF ReadReorgTip, Probe, ClearPayload, Quiet, PayloadOK, Verified
<1>10. CASE ReadCommit
  <2>1. CASE HoldBranch
    BY <2>1, ReturnQuiet
  <2>2. CASE ~HoldBranch
    BY <1>10, <2>2 DEF ReadCommit, Quiet, PayloadOK, Verified, Followed,
                       IInv, DaemonOK, Control, tips, span
  <2> QED
    BY <2>1, <2>2
<1>11. CASE ReadVerifyTip
  <2>1. CASE HoldBranch
    BY <2>1, ReturnQuiet
  <2>2. CASE ~HoldBranch
    BY <1>11, <2>2, ChainIsSeq, HeightAssumption
    DEF ReadVerifyTip, Probe, ClearPayload, Quiet, PayloadOK, Verified, IInv, DaemonOK,
        Control, tips
  <2> QED
    BY <2>1, <2>2
<1>12. CASE BranchConfirmed
  BY <1>12, StackedEmpty DEF BranchConfirmed, ClearPayload, Quiet, PayloadOK, Verified, tips
<1> QED
  BY <1>1, <1>2, <1>3, <1>4, <1>5, <1>6, <1>7, <1>8, <1>9, <1>10, <1>11, <1>12

LEMMA CompareQuiet ==
    ASSUME IInv, Followed, Compare, UNCHANGED main
    PROVE  Quiet'
<1>1. CASE Exit \/ HoldBranch
  BY <1>1, ReturnQuiet
<1>2. CASE StartBranch(parent)
  BY <1>2, StackedEmpty DEF StartBranch, ClearPayload, Quiet, PayloadOK, Verified
<1>3. CASE task = "scan" /\ Probe(parent - 1) /\ UNCHANGED task
  BY <1>3 DEF Probe, ClearPayload, Quiet, PayloadOK, Verified
<1>4. CASE /\ task = "verify" /\ task' = "record"
           /\ UNCHANGED <<tips, span, endHash, commit, headers, forkId, hold, receipt>>
  BY <1>4 DEF Compare, Quiet, PayloadOK, Verified, Followed, tips
<1> QED
  BY <1>1, <1>2, <1>3, <1>4 DEF Compare

----------------------------------------------------------------------------
\* Sending: what becomes pending has the heights above the batch's parent.

LEMMA SentStacked ==
    ASSUME IInv, Progress, pc = "send", mempool' = ThisTx
    PROVE  MempoolOK'
<1>1. parent \in 0..MaxHeight /\ Stacked(headers, parent)
  BY DEF IInv, DaemonOK, Control, LocalsOK, Progress, PayloadOK
<1> QED
  BY <1>1 DEF MempoolOK, ThisTx

LEMMA SendProgress ==
    ASSUME IInv, Progress, Send, UNCHANGED <<node, main, forks, file, faults>>
    PROVE  Progress'
<1>1. MempoolOK'
  BY SentStacked DEF Send
<1>2. PayloadOK' /\ Verified'
  BY DEF Send, Progress, PayloadOK, Verified, IInv, DaemonOK, Control, tips, span
<1>3. ReceiptOK'
  BY DEF Send, ReceiptOK, ThisTx, Kind
<1>4. RelayOK'
  BY DEF Progress, RelayOK, SavedNotAhead
<1> QED
  BY <1>1, <1>2, <1>3, <1>4 DEF Progress

----------------------------------------------------------------------------
\* A mined transaction: the relay never sinks, and a main batch puts it at the
\* last height of the batch.

LEMMA MinedRises ==
    ASSUME EqualWork, IInv, Progress, mempool # None, Execute(mempool)
    PROVE  /\ main' = main \/ Height(main) < Height(main')
           /\ mempool.kind = "main" => main' = TipOf(mempool)
<1> DEFINE hs == mempool.headers
<1>1. mempool \in Tx /\ main \in Chain
  BY DEF IInv, WorldOK
<1>2. hs \in Seq(Chain) /\ Len(hs) \in Nat /\ 1 \in 1..Len(hs) /\ Len(hs) \in 1..Len(hs)
  BY <1>1, LenProperties, EmptySeq DEF Tx
<1>3. hs[1] \in Chain /\ TipOf(mempool) \in Chain
  BY <1>2, ElementOfSeq DEF TipOf
<1>4. CASE Work[TipOf(mempool)] > Work[main] /\ main' = TipOf(mempool)
  BY <1>1, <1>3, <1>4, ChainIsSeq, HeightAssumption DEF EqualWork
<1>5. CASE AcceptsMain(mempool) /\ main' = TipOf(mempool)
  <2>1. PICK p \in 0..MaxHeight : Stacked(hs, p)
    BY DEF Progress, MempoolOK
  <2>2. Height(hs[1]) = p + 1 /\ Height(TipOf(mempool)) = p + Len(hs)
    BY <1>2, <2>1 DEF Stacked, TipOf
  <2>3. ParentOf(hs[1]) = main
    BY <1>2, <1>5 DEF AcceptsMain, Linked, Commitment, StoredHeader
  <2>4. Height(main) = p
    BY <1>3, <2>1, <2>2, <2>3, BlockAtIsChain, HeightAssumption DEF ParentOf
  <2> QED
    BY <1>2, <1>5, <2>1, <2>2, <2>4, HeightAssumption
<1>6. CASE UNCHANGED main /\ AcceptsFork(mempool)
  BY <1>1, <1>6, ChainIsSeq, HeightAssumption DEF AcceptsFork
<1> QED
  BY <1>4, <1>5, <1>6 DEF Execute, AcceptsShortFork, Promotes, AcceptsFork

LEMMA MinedHeight ==
    ASSUME EqualWork, IInv, Progress, mempool # None, Execute(mempool)
    PROVE  /\ Height(main) <= Height(main')
           /\ mempool.kind = "main" => main' = TipOf(mempool)
<1>1. Height(main) \in Nat
  BY ChainIsSeq, HeightAssumption DEF IInv, WorldOK
<1>2. CASE main' = main
  BY <1>1, <1>2, MinedRises
<1>3. CASE Height(main) < Height(main')
  <2>1. Height(main') \in Nat
    BY MinedChain, ChainIsSeq, HeightAssumption DEF IInv
  <2> QED
    BY <1>1, <1>3, <2>1, MinedRises
<1> QED
  BY <1>2, <1>3, MinedRises

\* A relay that does not sink keeps what was true of heights below its tip.
LEMMA RelayStays ==
    ASSUME IInv, Verified, RelayOK, Height(main) <= Height(main'), Height(main') \in Nat,
           UNCHANGED <<file, pc, task, btcTip>>
    PROVE  Verified' /\ RelayOK'
<1>1. Height(main) \in Nat /\ btcTip \in Nat /\ Checkpoint \in Nat
      /\ (file # None => Height(file) \in Nat)
  BY ChainIsSeq, HeightAssumption, ContractAssumption
  DEF IInv, WorldOK, DaemonOK, LocalsOK
<1> QED
  BY <1>1 DEF Verified, RelayOK, SavedNotAhead

LEMMA MineTxProgress ==
    ASSUME EqualWork, IInv, Progress, MineTx
    PROVE  Progress'
<1>1. PayloadOK' /\ MempoolOK'
  BY DEF MineTx, Progress, PayloadOK, MempoolOK, locals, span
<1>2. CASE Execute(mempool)
  <2>1. /\ Height(main) <= Height(main')
        /\ mempool.kind = "main" => main' = TipOf(mempool)
    BY <1>2, MinedHeight DEF MineTx
  <2>2. main' \in Chain /\ Height(main') \in Nat
    BY MineTxOK, ChainIsSeq, HeightAssumption DEF IInv, WorldOK
  <2>3. Verified' /\ RelayOK'
    BY <2>1, <2>2, RelayStays DEF MineTx, Progress, locals, tips
  <2>4. CASE receipt = "pending" /\ task = "main"
    <3>1. main' = TipOf(mempool) /\ mempool.headers = headers /\ pc = "wait"
      BY <2>1, <2>4 DEF Progress, ReceiptOK
    <3>2. /\ parent + Len(headers) = last /\ parent < last
          /\ Stacked(headers, parent) /\ parent \in Nat /\ last \in Nat /\ Len(headers) \in Nat
      BY <2>4, <3>1, LenProperties, HeightAssumption
      DEF IInv, DaemonOK, RangeSafe, LocalsOK, Progress, PayloadOK
    <3>3. Height(main') = last
      BY <3>1, <3>2 DEF Stacked, TipOf
    <3>4. pc' = "wait" /\ receipt' \in {"pending", "ok", "reverted"} /\ last' = last
      BY <2>4, <3>1 DEF MineTx, locals, span
    <3>5. receipt' # "pending"
      BY <2>4 DEF MineTx
    <3>6. last' <= Height(main')
      BY <3>2, <3>3, <3>4
    <3>7. ReceiptOK'
      BY <3>4, <3>5, <3>6 DEF ReceiptOK
    <3> QED
      BY <1>1, <2>3, <3>7 DEF Progress
  <2>5. CASE ~(receipt = "pending" /\ task = "main")
    <3>1. receipt = "ok" /\ task = "main" => last <= Height(main')
      BY <2>1, <2>2, ChainIsSeq, HeightAssumption
      DEF Progress, ReceiptOK, IInv, WorldOK, DaemonOK, LocalsOK
    <3>2. ReceiptOK'
      BY <1>2, <2>5, <3>1 DEF MineTx, Progress, ReceiptOK, locals, span
    <3> QED
      BY <1>1, <2>3, <3>2 DEF Progress
  <2> QED
    BY <2>4, <2>5
<1>3. CASE UNCHANGED main /\ receipt' \in {receipt, "reverted"} /\ receipt' # "pending"
  <2>1. Verified' /\ RelayOK'
    BY <1>3 DEF MineTx, Progress, Verified, RelayOK, SavedNotAhead, locals, tips
  <2>2. ReceiptOK'
    BY <1>3 DEF MineTx, Progress, ReceiptOK, locals, span
  <2> QED
    BY <1>1, <2>1, <2>2 DEF Progress
<1> QED
  BY <1>2, <1>3 DEF MineTx, contractVars

----------------------------------------------------------------------------
\* The remaining steps.

\* Where nothing is awaited and nothing is written, the daemon's share is all.
LEMMA QuietStays ==
    ASSUME Progress, Quiet', MempoolOK', UNCHANGED <<main, file>>
    PROVE  Progress'
<1>1. RelayOK'
  BY DEF Progress, RelayOK, SavedNotAhead
<1> QED
  BY <1>1 DEF Progress, Quiet, ReceiptOK

LEMMA SameMempool ==
    ASSUME Progress, UNCHANGED mempool
    PROVE  MempoolOK'
  BY DEF Progress, MempoolOK

LEMMA DropTxProgress ==
    ASSUME Progress, DropTx
    PROVE  Progress'
<1>1. PayloadOK' /\ MempoolOK'
  BY DEF DropTx, Progress, PayloadOK, MempoolOK, locals, span
<1>2. Verified' /\ RelayOK'
  BY DEF DropTx, Progress, Verified, RelayOK, SavedNotAhead, locals, tips
<1>3. ReceiptOK'
  BY DEF DropTx, Progress, ReceiptOK, locals, span
<1> QED
  BY <1>1, <1>2, <1>3 DEF Progress

\* What the node does, and stuttering, touch none of it.
LEMMA NodeProgress ==
    ASSUME Progress,
           UNCHANGED <<main, mempool, receipt, pc, task, locals, file>>
    PROVE  Progress'
  BY DEF Progress, PayloadOK, Verified, MempoolOK, ReceiptOK, RelayOK, SavedNotAhead,
         locals, tips, span

\* A batch that landed has put the relay at its last height, which is saved.
LEMMA MainConfirmedProgress ==
    ASSUME IInv, Progress, MainConfirmed, UNCHANGED <<main, mempool>>
    PROVE  Progress'
<1>1. endHash \in Chain /\ Height(endHash) = last /\ last <= Height(main)
  BY DEF MainConfirmed, Landed, Progress, PayloadOK, ReceiptOK
<1>2. RelayOK'
  BY <1>1 DEF MainConfirmed, Saved, Progress, RelayOK, SavedNotAhead
<1>3. Quiet'
  BY StartBatchQuiet, ReturnQuiet DEF MainConfirmed
<1> QED
  BY <1>2, <1>3, SameMempool DEF Progress, Quiet, ReceiptOK

\* The verification saw the relay at the height of the block that is saved.
LEMMA RecordProgressProgress ==
    ASSUME IInv, Progress, RecordProgress, UNCHANGED <<main, mempool>>
    PROVE  Progress'
<1>1. btcTip \in 0..Height(node) /\ btcTip <= Height(main)
  BY HeightAssumption
  DEF RecordProgress, NodeHasIt, WantedHeight, IInv, DaemonOK, LocalsOK, Control,
      Progress, Verified
<1>2. Height(file') = btcTip
  BY <1>1, BlockAtIsChain DEF RecordProgress, IInv, WorldOK
<1>3. RelayOK'
  BY <1>1, <1>2 DEF Progress, RelayOK, SavedNotAhead
<1>4. Quiet'
  BY ReturnQuiet DEF RecordProgress
<1> QED
  BY <1>3, <1>4, SameMempool DEF Progress, Quiet, ReceiptOK

LEMMA DaemonProgress ==
    ASSUME IInv, Progress, Daemon
    PROVE  Progress'
<1>1. CASE ReadStep
  <2>1. UNCHANGED <<main, mempool, file>>
    BY <1>1 DEF ReadStep
  <2> QED
    BY <1>1, <2>1, ReadStepQuiet, SameMempool, QuietStays, ProgressFollowed
<1>2. CASE Send /\ UNCHANGED <<node, main, forks, file, faults>>
  BY <1>2, SendProgress
<1>3. CASE (Refused \/ RejectedByEstimate) /\ UNCHANGED <<node, main, forks, file, faults>>
  <2>1. HardError /\ UNCHANGED <<main, mempool, file>>
    BY <1>3 DEF Refused, RejectedByEstimate, RevertError
  <2> QED
    BY <2>1, ErrorQuiet, SameMempool, QuietStays
<1>4. CASE MainConfirmed /\ UNCHANGED <<node, main, forks, mempool, faults>>
  BY <1>4, MainConfirmedProgress
<1>5. CASE RecordProgress /\ UNCHANGED <<node, main, forks, mempool, faults>>
  BY <1>5, RecordProgressProgress
<1>6. CASE Compare /\ UNCHANGED <<node, main, mempool, file, faults>>
  BY <1>6, CompareQuiet, SameMempool, QuietStays, ProgressFollowed
<1> QED
  BY <1>1, <1>2, <1>3, <1>4, <1>5, <1>6 DEF Daemon, WriteStep

LEMMA MisfortuneProgress ==
    ASSUME IInv, Progress, Misfortune \/ Restart
    PROVE  Progress'
<1>1. CASE SendLost
  <2>1. MempoolOK' /\ RetryableError /\ UNCHANGED <<main, file>>
    BY <1>1, SentStacked DEF SendLost
  <2> QED
    BY <2>1, ErrorQuiet, QuietStays
<1>2. CASE ~SendLost
  <2>1. /\ RetryableError \/ HardError \/ Exit \/ EnterReorg \/ EndCycle
        /\ UNCHANGED <<main, mempool, file>>
    BY <1>2 DEF Misfortune, RpcFault, RecordFault, Timeout, TimeoutOfDropped, SaveFault,
                Crash, Restart
  <2>2. Quiet'
    BY <2>1, ErrorQuiet, EnterReorgQuiet, ReturnQuiet
  <2> QED
    BY <2>1, <2>2, SameMempool, QuietStays
<1> QED
  BY <1>1, <1>2

LEMMA ProgressInit == Init => Progress
<1> SUFFICES ASSUME Init PROVE Progress
  OBVIOUS
<1>1. Height(main) = Checkpoint
  BY DEF Init, ContractInit
<1> QED
  BY <1>1, ContractAssumption
  DEF Init, Progress, PayloadOK, Verified, MempoolOK, ReceiptOK, RelayOK, SavedNotAhead

LEMMA ProgressInduction ==
    ASSUME EqualWork, IInv, Progress, [Next]_vars
    PROVE  Progress'
<1>1. CASE Daemon
  BY <1>1, DaemonProgress
<1>2. CASE Misfortune \/ Restart
  BY <1>2, MisfortuneProgress
<1>3. CASE MineTx
  BY <1>3, MineTxProgress
<1>4. CASE DropTx
  BY <1>4, DropTxProgress
<1>5. CASE NodeAdvance \/ UNCHANGED vars
  BY <1>5, NodeProgress DEF NodeAdvance, vars
<1> QED
  BY <1>1, <1>2, <1>3, <1>4, <1>5 DEF Next, Environment

----------------------------------------------------------------------------
\* Where a main batch starts.  Only ReadRelayTip and a landed batch move it.

\* The first batch of a cycle starts on the relay tip.
LEMMA FirstBatchAnchored ==
    ASSUME LowStart, IInv, Progress, ReadRelayTip, UNCHANGED main
    PROVE  BatchAnchored'
<1> DEFINE r == Height(main)
           from == FromHeight(r, Resume)
<1>1. r \in 0..MaxHeight /\ Checkpoint <= r /\ btcTip \in 0..MaxHeight
  BY ChainIsSeq DEF IInv, WorldOK, DaemonOK, LocalsOK, Progress, RelayOK
<1>2. CASE RangeExists(r, btcTip, Resume) /\ relayTip' = r /\ StartBatch(from - 1, NextBatchEnd(from))
  <2>1. from = r + 1
    BY <1>1, <1>2, HeightAssumption, EngineAssumption, WidthAssumption, ContractAssumption
    DEF FromHeight, Resume, ResumeHeight, SatAdd, Least, Greatest, RangeExists, LowStart
  <2> HIDE DEF from
  <2>2. parent' = r
    BY <1>1, <1>2, <2>1 DEF StartBatch
  <2> QED
    BY <1>1, <1>2, <2>2 DEF BatchAnchored
<1>3. CASE Leave("tipBitcoin") \/ Leave("stopped")
  BY <1>3 DEF Leave, BatchAnchored
<1> QED
  BY <1>2, <1>3 DEF ReadRelayTip, EndCycle, Exit

\* The next one starts where the last one put the relay.
LEMMA NextBatchAnchored ==
    ASSUME IInv, Progress, BatchAnchored, MainConfirmed, UNCHANGED main
    PROVE  BatchAnchored'
<1>1. CASE StartBatch(last, NextBatchEnd(last + 1)) /\ UNCHANGED relayTip
  <2>1. parent < last /\ relayTip <= parent /\ last <= Height(main)
    BY DEF MainConfirmed, Landed, BatchAnchored, Progress, ReceiptOK, IInv, DaemonOK, RangeSafe
  <2>2. relayTip \in Nat /\ parent \in Nat /\ last \in Nat
    BY HeightAssumption DEF IInv, DaemonOK, LocalsOK
  <2> QED
    BY <1>1, <2>1, <2>2 DEF StartBatch, BatchAnchored
<1>2. CASE EndCycle
  BY <1>2 DEF EndCycle, Leave, BatchAnchored
<1> QED
  BY <1>1, <1>2 DEF MainConfirmed

LEMMA ErrorAnchored ==
    ASSUME BatchAnchored, UNCHANGED main,
           RetryableError \/ HardError \/ Exit \/ EnterReorg \/ EndCycle
    PROVE  BatchAnchored'
  BY DEF RetryableError, HardError, StartBatch, EnterReorg, HoldBranch, EndCycle, Exit,
         Leave, BatchAnchored

LEMMA ReadStepAnchored ==
    ASSUME LowStart, IInv, Progress, BatchAnchored, ReadStep
    PROVE  BatchAnchored'
<1> USE DEF ReadStep
<1>1. CASE ReadRelayTip
  BY <1>1, FirstBatchAnchored
<1>2. CASE OutOfRange \/ Reverted
  BY <1>2, ErrorAnchored DEF OutOfRange, Reverted, RevertError
<1>3. CASE ReadParent
  <2>1. CASE HardError
    BY <2>1, ErrorAnchored
  <2>2. CASE ~HardError
    BY <1>3, <2>2 DEF ReadParent, BatchAnchored, tips, span
  <2> QED
    BY <2>1, <2>2
<1>4. CASE ReadBitcoinTip \/ ReadEndHash \/ ReadWork \/ ReadContext \/ ReadHeader
  BY <1>4 DEF ReadBitcoinTip, ReadEndHash, ReadWork, ReadContext, ReadHeader,
              BatchAnchored, tips, span
<1>5. CASE ReadReorgTip \/ ReadCommit \/ ReadVerifyTip \/ BranchConfirmed
  <2>1. task # "main"
    BY <1>5 DEF ReadReorgTip, ReadCommit, ReadVerifyTip, BranchConfirmed, IInv, DaemonOK, Control
  <2>2. task' # "main"
    BY <1>5, <2>1 DEF ReadReorgTip, ReadCommit, ReadVerifyTip, BranchConfirmed, HoldBranch, Leave
  <2> QED
    BY <2>2 DEF BatchAnchored
<1> QED
  BY <1>1, <1>2, <1>3, <1>4, <1>5

LEMMA DaemonAnchored ==
    ASSUME LowStart, IInv, Progress, BatchAnchored, Daemon
    PROVE  BatchAnchored'
<1>1. CASE ReadStep
  BY <1>1, ReadStepAnchored
<1>2. CASE Send /\ UNCHANGED <<node, main, forks, file, faults>>
  BY <1>2 DEF Send, BatchAnchored, tips, span
<1>3. CASE (Refused \/ RejectedByEstimate) /\ UNCHANGED <<node, main, forks, file, faults>>
  BY <1>3, ErrorAnchored DEF Refused, RejectedByEstimate, RevertError
<1>4. CASE MainConfirmed /\ UNCHANGED <<node, main, forks, mempool, faults>>
  BY <1>4, NextBatchAnchored
<1>5. CASE RecordProgress /\ UNCHANGED <<node, main, forks, mempool, faults>>
  BY <1>5, ErrorAnchored DEF RecordProgress
<1>6. CASE Compare /\ UNCHANGED <<node, main, mempool, file, faults>>
  BY <1>6 DEF Compare, StartBranch, HoldBranch, Exit, Leave, BatchAnchored
<1> QED
  BY <1>1, <1>2, <1>3, <1>4, <1>5, <1>6 DEF Daemon, WriteStep

\* What is mined moves the relay up only.
LEMMA EnvironmentAnchored ==
    ASSUME EqualWork, IInv, Progress, BatchAnchored, Environment \/ UNCHANGED vars
    PROVE  BatchAnchored'
<1>1. UNCHANGED <<task, relayTip, parent>>
  BY DEF Environment, NodeAdvance, MineTx, DropTx, vars, locals, tips, span
<1>2. Height(main) <= Height(main') \/ UNCHANGED main
  BY MinedHeight DEF Environment, NodeAdvance, MineTx, DropTx, vars, contractVars
<1>3. Height(main) \in Nat /\ Height(main') \in Nat /\ parent \in Nat
  <2>1. IInv'
    BY Induction DEF Next
  <2> QED
    BY <2>1, ChainIsSeq, HeightAssumption DEF IInv, WorldOK, DaemonOK, LocalsOK
<1> QED
  BY <1>1, <1>2, <1>3 DEF BatchAnchored

LEMMA AnchorInduction ==
    ASSUME EqualWork, LowStart, IInv, Progress, BatchAnchored, [Next]_vars
    PROVE  BatchAnchored'
<1>1. CASE Daemon
  BY <1>1, DaemonAnchored
<1>2. CASE Misfortune \/ Restart
  BY <1>2, ErrorAnchored
  DEF Misfortune, RpcFault, RecordFault, SendLost, Timeout, TimeoutOfDropped, SaveFault,
      Crash, Restart
<1>3. CASE Environment \/ UNCHANGED vars
  BY <1>3, EnvironmentAnchored
<1> QED
  BY <1>1, <1>2, <1>3 DEF Next

----------------------------------------------------------------------------
\* The theorems.

\* The batches' headers, the pending transaction, the receipt and the relay fit
\* together in every reachable state.
THEOREM ProgressInductive ==
    ASSUME EqualWork
    PROVE  Spec => []Progress
<1>1. Init => Progress
  BY ProgressInit
<1>2. IInv /\ Progress /\ [Next]_vars => Progress'
  BY ProgressInduction
<1> QED
  BY <1>1, <1>2, Inductive, PTL DEF Spec

\* The state file never runs ahead of the relay: the height of the last block
\* process_catchup_range or follow_reorg saved has landed, for every number of
\* reorgs, lost answers, timeouts, dropped or reverted transactions, crashes
\* and restarts.
THEOREM SavedCorrect ==
    ASSUME EqualWork
    PROVE  Spec => []SavedNotAhead
<1>1. Progress => SavedNotAhead
  BY DEF Progress, RelayOK
<1> QED
  BY <1>1, ProgressInductive, PTL

\* process_catchup_range leaves no height out and submits none twice: the parent
\* of every main batch is at or above the relay tip of the cycle, and the relay
\* holds a block of that height, whatever landed late or was retried.
THEOREM AnchorCorrect ==
    ASSUME EqualWork, LowStart
    PROVE  Spec => []BatchAnchored
<1>1. Init => BatchAnchored
  BY DEF Init, BatchAnchored
<1>2. IInv /\ Progress /\ BatchAnchored /\ [Next]_vars => BatchAnchored'
  BY AnchorInduction
<1> QED
  BY <1>1, <1>2, Inductive, ProgressInductive, PTL DEF Spec

----------------------------------------------------------------------------
\* The fork of an attempt, for every assignment of work.

\* How far the batches of the attempt have landed.
Landing == IF receipt = "ok" THEN last ELSE parent

ForkOK ==
    /\ task # "branch" => forkId = None
    /\ task = "branch" => Stacked(headers, parent)
    /\ receipt # "none" => pc = "wait"
    /\ receipt = "pending" => mempool = ThisTx
    /\ forkId # None /\ mempool # None /\ mempool.id = forkId => receipt = "pending"
    /\ forkId # None => forks[forkId] = None \/ Height(forks[forkId]) = Landing

\* The daemon is not submitting a branch and awaits nothing.
NoBranch == task # "branch" /\ forkId = None /\ receipt = "none"

LEMMA NoBranchForkOK ==
    ASSUME NoBranch'
    PROVE  ForkOK'
  BY DEF NoBranch, ForkOK

LEMMA LeaveNoBranch ==
    ASSUME NEW w, Leave(w)
    PROVE  NoBranch' /\ task' = "tips" /\ pc' = w
  BY DEF Leave, ClearPayload, NoBranch

LEMMA ReturnNoBranch ==
    ASSUME RetryableError \/ HardError \/ EndCycle \/ Exit \/ HoldBranch \/ EnterReorg
    PROVE  NoBranch' /\ task' \in {"main", "tips"}
  BY LeaveNoBranch
  DEF RetryableError, HardError, EndCycle, Exit, HoldBranch, EnterReorg, StartBatch,
      ClearPayload, NoBranch

\* A step of reading keeps the attempt as it is, but for the headers.
LEMMA ReadingForkOK ==
    ASSUME ForkOK, pc # "wait",
           UNCHANGED <<task, forkId, receipt, mempool, forks, span>>,
           task = "branch" => Stacked(headers', parent)
    PROVE  ForkOK'
<1>1. receipt = "none"
  BY DEF ForkOK
<1> QED
  BY <1>1 DEF ForkOK, Landing, span

\* A batch of the fork landed: the next one starts where the fork ends.
LEMMA BranchConfirmedForkOK ==
    ASSUME IInv, ForkOK, BranchConfirmed, UNCHANGED <<forks, mempool>>
    PROVE  ForkOK'
<1>1. task = "branch" /\ receipt = "ok" /\ receipt' = "none" /\ headers' = <<>>
  BY DEF BranchConfirmed, Landed, ClearPayload
<1>2. CASE parent' = last /\ UNCHANGED <<task, forkId>>
  BY <1>1, <1>2, StackedEmpty DEF ForkOK, Landing
<1>3. CASE task' = "verify" /\ forkId' = None
  BY <1>1, <1>3, NoBranchForkOK DEF NoBranch
<1> QED
  BY <1>2, <1>3 DEF BranchConfirmed

\* A new attempt: an id nothing pending carries, with an empty slot.
LEMMA StartBranchForkOK ==
    ASSUME IInv, ForkOK, task = "scan", StartBranch(parent), UNCHANGED mempool
    PROVE  ForkOK'
<1>1. task' = "branch" /\ receipt' = "none" /\ Stacked(headers', parent') /\ forkId = None
  BY StackedEmpty DEF StartBranch, ClearPayload, ForkOK
<1>2. CASE UNCHANGED forkId
  BY <1>1, <1>2 DEF ForkOK
<1>3. CASE \E id \in ForkIds : IsNextId(id) /\ forkId' = id /\ forks' = NewSlot(id)
  <2>1. PICK id \in ForkIds : IsNextId(id) /\ forkId' = id /\ forks' = NewSlot(id)
    BY <1>3
  <2>2. forks'[forkId'] = None
    BY <2>1 DEF NewSlot, IInv, WorldOK
  <2>3. mempool # None => mempool.id # id
    BY <2>1 DEF IsNextId, FreshIds
  <2> QED
    BY <1>1, <2>1, <2>2, <2>3 DEF ForkOK
<1> QED
  BY <1>2, <1>3 DEF StartBranch

LEMMA ReadStepForkOK ==
    ASSUME IInv, ForkOK, ReadStep
    PROVE  ForkOK'
<1> USE DEF ReadStep
<1>1. CASE RetryableError \/ HardError \/ EndCycle \/ Exit \/ HoldBranch
  BY <1>1, ReturnNoBranch, NoBranchForkOK
<1>2. CASE OutOfRange \/ Reverted
  BY <1>1, <1>2 DEF OutOfRange, Reverted, RevertError
<1>3. CASE ReadRelayTip
  BY <1>1, <1>3, NoBranchForkOK DEF ReadRelayTip, StartBatch, ClearPayload, NoBranch
<1>4. CASE ReadHeader
  BY <1>4, ReadHeaderStacks, ReadingForkOK DEF ReadHeader, ForkOK, span
<1>5. CASE ReadBitcoinTip \/ ReadEndHash \/ ReadWork \/ ReadContext
  BY <1>5, ReadingForkOK
  DEF ReadBitcoinTip, ReadEndHash, ReadWork, ReadContext, ForkOK, span
<1>6. CASE ReadParent
  BY <1>1, <1>6, ReadingForkOK DEF ReadParent, ForkOK, span
<1>7. CASE ReadCommit
  BY <1>1, <1>7, ReadingForkOK DEF ReadCommit, ForkOK, span
<1>8. CASE (ReadReorgTip \/ ReadVerifyTip) /\ ~HoldBranch
  <2>1. task # "branch"
    BY <1>8 DEF ReadReorgTip, ReadVerifyTip, IInv, DaemonOK, Control
  <2>2. NoBranch'
    BY <1>8, <2>1 DEF ReadReorgTip, ReadVerifyTip, Probe, ClearPayload, NoBranch, ForkOK
  <2> QED
    BY <2>2, NoBranchForkOK
<1>9. CASE BranchConfirmed
  BY <1>9, BranchConfirmedForkOK
<1> QED
  BY <1>1, <1>2, <1>3, <1>4, <1>5, <1>6, <1>7, <1>8, <1>9

LEMMA CompareForkOK ==
    ASSUME IInv, ForkOK, Compare, UNCHANGED mempool
    PROVE  ForkOK'
<1>1. CASE Exit \/ HoldBranch
  BY <1>1, ReturnNoBranch, NoBranchForkOK
<1>2. CASE task = "scan" /\ StartBranch(parent)
  BY <1>2, StartBranchForkOK
<1>3. CASE task = "scan" /\ Probe(parent - 1) /\ UNCHANGED <<task, forkId>>
  BY <1>3, NoBranchForkOK DEF Probe, ClearPayload, NoBranch, ForkOK
<1>4. CASE task = "verify" /\ task' = "record" /\ UNCHANGED <<forkId, receipt>>
  BY <1>4, NoBranchForkOK DEF Compare, NoBranch, ForkOK
<1> QED
  BY <1>1, <1>2, <1>3, <1>4 DEF Compare

LEMMA DaemonForkOK ==
    ASSUME IInv, ForkOK, Daemon
    PROVE  ForkOK'
<1>1. CASE ReadStep
  BY <1>1, ReadStepForkOK
<1>2. CASE Send /\ UNCHANGED forks
  <2>1. /\ pc = "send" /\ receipt = "none"
        /\ receipt' = "pending" /\ pc' = "wait" /\ mempool' = ThisTx
        /\ UNCHANGED <<task, forkId, forks, span, stored, headers>>
    BY <1>2 DEF Send, ForkOK
  <2>2. ThisTx' = ThisTx
    BY <2>1 DEF ThisTx, Kind
  <2> QED
    BY <2>1, <2>2 DEF ForkOK, Landing, span
<1>3. CASE Refused \/ RejectedByEstimate
  BY <1>3, ReturnNoBranch, NoBranchForkOK DEF Refused, RejectedByEstimate, RevertError
<1>4. CASE MainConfirmed
  BY <1>4, ReturnNoBranch, NoBranchForkOK
  DEF MainConfirmed, StartBatch, ClearPayload, NoBranch
<1>5. CASE RecordProgress
  BY <1>5, ReturnNoBranch, NoBranchForkOK DEF RecordProgress
<1>6. CASE Compare /\ UNCHANGED mempool
  BY <1>6, CompareForkOK
<1> QED
  BY <1>1, <1>2, <1>3, <1>4, <1>5, <1>6 DEF Daemon, WriteStep

LEMMA MisfortuneForkOK ==
    ASSUME Misfortune \/ Restart
    PROVE  ForkOK'
<1>1. RetryableError \/ HardError \/ EndCycle \/ Exit \/ EnterReorg
  BY DEF Misfortune, RpcFault, RecordFault, SendLost, Timeout, TimeoutOfDropped,
         SaveFault, Crash, Restart
<1> QED
  BY <1>1, ReturnNoBranch, NoBranchForkOK

\* The batch that was sent is mined: the fork under its id ends where it ends.
\* Any other transaction is under another id.
LEMMA MineTxForkOK ==
    ASSUME IInv, ForkOK, MineTx
    PROVE  ForkOK'
<1>1. /\ UNCHANGED <<pc, task, locals>> /\ mempool' = None /\ mempool # None
      /\ receipt' # "pending"
      /\ receipt # "pending" => receipt' = receipt
  BY DEF MineTx
<1>2. ASSUME forkId # None
      PROVE  forks'[forkId] = None \/ Height(forks'[forkId]) = Landing'
  <2>1. task = "branch" /\ forkId \in ForkIds
    BY <1>2 DEF ForkOK, IInv, DaemonOK, LocalsOK
  <2>2. CASE receipt # "pending"
    <3>1. mempool.id # forkId
      BY <1>1, <1>2, <2>2 DEF ForkOK
    <3>2. forks'[forkId] = forks[forkId]
      BY <2>1, <3>1 DEF MineTx, Execute, contractVars, IInv, WorldOK
    <3>3. Landing' = Landing
      BY <1>1, <2>2 DEF Landing, locals, span
    <3> QED
      BY <1>2, <3>2, <3>3 DEF ForkOK
  <2>3. CASE receipt = "pending"
    <3>1. mempool.kind = "fork" /\ mempool.id = forkId /\ mempool.headers = headers
      BY <1>2, <2>1, <2>3 DEF ForkOK, ThisTx, Kind
    <3>2. CASE UNCHANGED forks /\ receipt' = "reverted"
      BY <1>1, <1>2, <2>3, <3>2 DEF ForkOK, Landing, locals, span
    <3>3. CASE Execute(mempool) /\ receipt' = "ok"
      <4>1. CASE forks' = [forks EXCEPT ![forkId] = None]
        BY <2>1, <4>1 DEF IInv, WorldOK
      <4>2. CASE forks' = [forks EXCEPT ![forkId] = TipOf(mempool)]
        <5>1. forks'[forkId] = headers[Len(headers)]
          BY <2>1, <3>1, <4>2 DEF TipOf, IInv, WorldOK
        <5>2. /\ pc = "wait" /\ Stacked(headers, parent)
              /\ parent + Len(headers) = last /\ parent < last
              /\ parent \in Nat /\ last \in Nat /\ Len(headers) \in Nat
          BY <2>1, <2>3, LenProperties, HeightAssumption
          DEF ForkOK, IInv, DaemonOK, RangeSafe, LocalsOK
        <5>3. Height(forks'[forkId]) = last
          BY <5>1, <5>2 DEF Stacked
        <5>4. Landing' = last
          BY <1>1, <3>3 DEF Landing, locals, span
        <5> QED
          BY <5>3, <5>4
      <4> QED
        BY <3>1, <3>3, <4>1, <4>2 DEF Execute, AcceptsMain, AcceptsShortFork
    <3> QED
      BY <2>3, <3>2, <3>3 DEF MineTx, contractVars
  <2> QED
    BY <2>2, <2>3
<1>3. receipt' # "none" => receipt # "none"
  BY <1>1
<1> QED
  BY <1>1, <1>2, <1>3 DEF ForkOK, locals, span

LEMMA DropTxForkOK ==
    ASSUME ForkOK, DropTx
    PROVE  ForkOK'
  BY DEF DropTx, ForkOK, Landing, locals, span

LEMMA NodeForkOK ==
    ASSUME ForkOK, UNCHANGED <<forks, mempool, receipt, pc, task, locals>>
    PROVE  ForkOK'
<1>1. ThisTx' = ThisTx
  BY DEF ThisTx, Kind, locals
<1> QED
  BY <1>1 DEF ForkOK, Landing, locals, span

LEMMA ForkInduction ==
    ASSUME IInv, ForkOK, [Next]_vars
    PROVE  ForkOK'
<1>1. CASE NodeAdvance \/ UNCHANGED vars
  BY <1>1, NodeForkOK DEF NodeAdvance, vars
<1> QED
  BY <1>1, DaemonForkOK, MisfortuneForkOK, MineTxForkOK, DropTxForkOK DEF Next, Environment

\* In every behaviour the fork of the attempt and its batches fit together.
THEOREM ForkInductive == Spec => []ForkOK
<1>1. Init => ForkOK
  BY DEF Init, ForkOK
<1>2. IInv /\ ForkOK /\ [Next]_vars => ForkOK'
  BY ForkInduction
<1> QED
  BY <1>1, <1>2, Inductive, PTL DEF Spec

\* A fork batch is sent under an id whose slot in the contract is empty or ends
\* at the batch's parent: submit_branch never continues the fork of an earlier
\* attempt, whatever that attempt left in the contract or in the mempool, for
\* every difficulty, batch size and sequence of faults.
THEOREM ForkCorrect == Spec => []ForkIsThisAttempts
<1>1. ForkOK => ForkIsThisAttempts
  BY DEF ForkOK, ForkIsThisAttempts, Landing
<1> QED
  BY <1>1, ForkInductive, PTL

----------------------------------------------------------------------------
\* Verification, for every assignment of work.  Once the last batch landed
\* nothing of the relayer's is pending, so the relay stands still.

VerifyOK ==
    /\ receipt = "ok" \/ task \in {"verify", "record"} => mempool = None
    /\ task \in {"verify", "record"} => parent = btcTip
    /\ task = "verify" /\ pc \in {"work", "parent", "context"} => commit = CommitAt(btcTip)
    /\ VerifiedStays

\* The daemon neither verifies nor has seen a transaction land.
NoVerify == task \notin {"verify", "record"} /\ receipt # "ok"

LEMMA NoVerifyOK ==
    ASSUME NoVerify'
    PROVE  VerifyOK'
  BY DEF NoVerify, VerifyOK, VerifiedStays

LEMMA NoBranchVerifyOK ==
    ASSUME NoBranch', task' \notin {"verify", "record"}
    PROVE  VerifyOK'
  BY DEF NoBranch, NoVerify, VerifyOK, VerifiedStays

\* A read of the verification on the relay as it stands.
LEMMA ReadingVerifyOK ==
    ASSUME IInv, ForkOK, VerifyOK, UNCHANGED <<task, receipt, btcTip, parent, main, mempool>>,
           task # "record",
           task = "verify" /\ pc' \in {"work", "parent", "context"} => commit' = CommitAt(btcTip)
    PROVE  VerifyOK'
  BY DEF VerifyOK, VerifiedStays, CommitAt

LEMMA ReadStepVerifyOK ==
    ASSUME IInv, ForkOK, VerifyOK, ReadStep
    PROVE  VerifyOK'
<1> USE DEF ReadStep
<1>1. CASE RetryableError \/ HardError \/ EndCycle \/ Exit \/ HoldBranch
  BY <1>1, ReturnNoBranch, NoBranchVerifyOK
<1>2. CASE OutOfRange \/ Reverted
  BY <1>1, <1>2 DEF OutOfRange, Reverted, RevertError
<1>3. CASE ReadRelayTip
  BY <1>1, <1>3, NoBranchVerifyOK DEF ReadRelayTip, StartBatch, ClearPayload, NoBranch
<1>4. CASE ReadBitcoinTip \/ ReadEndHash \/ ReadHeader \/ ReadContext
  <2>1. task \notin {"verify", "record"} /\ receipt = "none"
    BY <1>4 DEF ReadBitcoinTip, ReadEndHash, ReadHeader, ReadContext, IInv, DaemonOK,
                Control, ForkOK
  <2> QED
    BY <1>4, <2>1, NoVerifyOK
    DEF ReadBitcoinTip, ReadEndHash, ReadHeader, ReadContext, NoVerify
<1>5. CASE ReadWork
  BY <1>5, ReadingVerifyOK DEF ReadWork, VerifyOK, IInv, DaemonOK, Control, tips, span
<1>6. CASE ReadParent
  BY <1>1, <1>6, ReadingVerifyOK DEF ReadParent, VerifyOK, IInv, DaemonOK, Control, tips, span
<1>7. CASE ReadCommit
  <2>1. CASE ~HoldBranch
    <3>1. /\ pc' = "work" /\ commit' = CommitAt(parent)
          /\ UNCHANGED <<task, tips, span, receipt>>
      BY <1>7, <2>1 DEF ReadCommit
    <3>2. task = "verify" => commit' = CommitAt(btcTip)
      BY <3>1 DEF VerifyOK
    <3> QED
      BY <1>7, <3>1, <3>2, ReadingVerifyOK DEF ReadCommit, IInv, DaemonOK, Control, tips, span
  <2> QED
    BY <1>1, <2>1
<1>8. CASE ReadReorgTip
  BY <1>8, NoVerifyOK DEF ReadReorgTip, Probe, ClearPayload, NoVerify
<1>9. CASE ReadVerifyTip
  <2>1. CASE Probe(btcTip) /\ UNCHANGED <<task, tips>>
    BY <1>9, <2>1 DEF ReadVerifyTip, Probe, ClearPayload, VerifyOK, VerifiedStays, IInv,
                      DaemonOK, Control, tips
  <2> QED
    BY <1>1, <1>9, <2>1 DEF ReadVerifyTip
<1>10. CASE BranchConfirmed
  BY <1>10 DEF BranchConfirmed, Landed, ClearPayload, VerifyOK, VerifiedStays, tips
<1> QED
  BY <1>1, <1>2, <1>3, <1>4, <1>5, <1>6, <1>7, <1>8, <1>9, <1>10

\* Agreement means the stored header is the one the relay commits to.
LEMMA CompareVerifyOK ==
    ASSUME IInv, ForkOK, VerifyOK, Compare, UNCHANGED <<main, mempool>>
    PROVE  VerifyOK'
<1>1. CASE Exit \/ HoldBranch
  BY <1>1, ReturnNoBranch, NoBranchVerifyOK
<1>2. CASE task = "scan" /\ (StartBranch(parent) \/ (Probe(parent - 1) /\ UNCHANGED task))
  BY <1>2, NoVerifyOK DEF StartBranch, Probe, ClearPayload, NoVerify
<1>3. CASE /\ task = "verify"
           /\ Agrees([stored EXCEPT !.context = BlockAt(node, parent - 1)])
           /\ task' = "record" /\ pc' = "tipHash"
           /\ stored' = [stored EXCEPT !.context = BlockAt(node, parent - 1)]
           /\ UNCHANGED <<tips, span, receipt>>
  <2>1. stored' = CommitAt(btcTip)
    BY <1>3 DEF Compare, Agrees, VerifyOK
  <2> QED
    BY <1>3, <2>1 DEF VerifyOK, VerifiedStays, CommitAt, tips, span
<1> QED
  BY <1>1, <1>2, <1>3 DEF Compare

LEMMA DaemonVerifyOK ==
    ASSUME IInv, ForkOK, VerifyOK, Daemon
    PROVE  VerifyOK'
<1>1. CASE ReadStep
  BY <1>1, ReadStepVerifyOK
<1>2. CASE Send
  BY <1>2, NoVerifyOK DEF Send, NoVerify, IInv, DaemonOK, Control
<1>3. CASE Refused \/ RejectedByEstimate
  BY <1>3, ReturnNoBranch, NoBranchVerifyOK DEF Refused, RejectedByEstimate, RevertError
<1>4. CASE MainConfirmed
  BY <1>4, ReturnNoBranch, NoBranchVerifyOK
  DEF MainConfirmed, StartBatch, ClearPayload, NoBranch
<1>5. CASE RecordProgress
  BY <1>5, ReturnNoBranch, NoBranchVerifyOK DEF RecordProgress
<1>6. CASE Compare /\ UNCHANGED <<main, mempool>>
  BY <1>6, CompareVerifyOK
<1> QED
  BY <1>1, <1>2, <1>3, <1>4, <1>5, <1>6 DEF Daemon, WriteStep

LEMMA MisfortuneVerifyOK ==
    ASSUME Misfortune \/ Restart
    PROVE  VerifyOK'
<1>1. RetryableError \/ HardError \/ EndCycle \/ Exit \/ EnterReorg
  BY DEF Misfortune, RpcFault, RecordFault, SendLost, Timeout, TimeoutOfDropped,
         SaveFault, Crash, Restart
<1> QED
  BY <1>1, ReturnNoBranch, NoBranchVerifyOK

LEMMA EnvironmentVerifyOK ==
    ASSUME VerifyOK, Environment \/ UNCHANGED vars
    PROVE  VerifyOK'
<1>1. CASE MineTx \/ DropTx
  <2>1. task \notin {"verify", "record"} /\ mempool' = None
    BY <1>1 DEF MineTx, DropTx, VerifyOK
  <2> QED
    BY <1>1, <2>1 DEF MineTx, DropTx, VerifyOK, VerifiedStays
<1>2. CASE NodeAdvance \/ UNCHANGED vars
  BY <1>2 DEF NodeAdvance, vars, VerifyOK, VerifiedStays, CommitAt, locals, tips, span
<1> QED
  BY <1>1, <1>2 DEF Environment

\* In every behaviour nothing is pending from the last receipt to the save.
THEOREM VerifyInductive == Spec => []VerifyOK
<1>1. Init => VerifyOK
  BY DEF Init, VerifyOK, VerifiedStays
<1>2. IInv /\ ForkOK /\ VerifyOK /\ [Next]_vars => VerifyOK'
  BY DaemonVerifyOK, MisfortuneVerifyOK, EnvironmentVerifyOK DEF Next
<1> QED
  BY <1>1, <1>2, Inductive, ForkInductive, PTL DEF Spec

\* When follow_reorg saves its progress, the relay still commits to the node
\* block that submit_branch compared: between the comparison and the
\* save no transaction of the relayer can be mined, neither of this attempt nor
\* one an earlier attempt left behind.
THEOREM VerifiedCorrect == Spec => []VerifiedStays
<1>1. VerifyOK => VerifiedStays
  BY DEF VerifyOK
<1> QED
  BY <1>1, VerifyInductive, PTL
=============================================================================
