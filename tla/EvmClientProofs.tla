-------------------------- MODULE EvmClientProofs --------------------------
(***************************************************************************)
(* The EVM client implements Submission, and a call that reports success   *)
(* left its transaction deep in the chain unless a reorganisation took it  *)
(* back: for every number of calls, blocks and faults, every depth of      *)
(* reorganisation and every EVM_TX_CONFIRMATIONS.                          *)
(*                                                                         *)
(* The argument: a transaction is in the mempool or in one block, and in   *)
(* neither before its call broadcasts it (ChainOK, CallsOK); what the      *)
(* client has read of its transaction stays true until a reorganisation    *)
(* takes the transaction, and is then excused (ReadOK).                    *)
(***************************************************************************)
EXTENDS EvmClient, FiniteSetTheorems, TLAPS

DeepIn(t) == Mined(t) /\ t \in good /\ Depth(peak, place[t]) >= Confirmations

ChainOK ==
    /\ head \in 0..MaxBlocks /\ peak \in 0..MaxBlocks /\ head <= peak
    /\ place \in [TxId -> 0..MaxBlocks]
    /\ good \subseteq TxId /\ pool \subseteq TxId /\ taken \subseteq TxId
    /\ nonce \in [TxId -> Nat \cup {-1}]
    /\ \A t \in TxId : place[t] <= head
    /\ \A t \in TxId : t \in pool \/ Mined(t) => nonce[t] # -1
    /\ \A t \in pool : ~Mined(t)

BeforeBalance == {"nonce", "broadcast", "receipt", "head"}

CallTypes ==
    /\ pc \in Pcs /\ tx \in 0..MaxTx /\ account \in Nat /\ seen \in 0..MaxBlocks
    /\ late \in BOOLEAN
    /\ answer \in [TxId -> {"none", "landed", "failed", "unknown"}]
    /\ counted \in 0..MaxTx /\ counted <= tx
    /\ pc \in BeforeBalance => counted < tx
    /\ faults \in 0..MaxFaults

CallsOK ==
    /\ pc # "idle" => tx \in TxId /\ answer[tx] = "none"
    /\ pc = "idle" => \A t \in TxId : t = tx => answer[t] # "none"
    /\ \A t \in TxId : t < tx => answer[t] # "none"
    /\ \A t \in TxId : t > tx => answer[t] = "none"
    /\ \A t \in TxId : t > tx \/ (t = tx /\ pc \in {"nonce", "broadcast"}) => nonce[t] = -1

ReadOK ==
    /\ pc = "head" /\ tx \notin taken => Mined(tx) /\ place[tx] = seen /\ tx \in good
    /\ pc = "balance" /\ tx \notin taken => DeepIn(tx)
    /\ \A t \in TxId : answer[t] = "landed" /\ t \notin taken => DeepIn(t)

IInv == ChainOK /\ CallTypes /\ CallsOK /\ ReadOK

----------------------------------------------------------------------------
LEMMA TxIdOK == TxId \subseteq Nat /\ MaxTx \in Nat /\ MaxBlocks \in Nat /\ 0 \notin TxId
                    /\ MaxFaults \in Nat /\ Confirmations \in Nat \ {0}
  BY EvmAssumption DEF TxId

\* The account's nonce is a number, as the transactions are finitely many.
LEMMA NonceIsNat == AccountNonce \in Nat
  <1>1. IsFiniteSet(1..MaxTx)
    BY FS_Interval, EvmAssumption
  <1>2. IsFiniteSet({t \in TxId : Mined(t)})
    BY <1>1, FS_Subset DEF TxId
  <1>. QED
    BY <1>2, FS_CardinalityType DEF AccountNonce

LEMMA InitOK == ASSUME Init PROVE IInv
  <1>. USE TxIdOK DEF Init
  <1>1. ChainOK
    BY DEF ChainOK, Mined
  <1>2. CallTypes
    <2>1. late \in BOOLEAN
      OBVIOUS
    <2>. QED
      BY <2>1 DEF CallTypes, Pcs, BeforeBalance
  <1>3. CallsOK
    BY DEF CallsOK
  <1>4. ReadOK
    BY DEF ReadOK
  <1>. QED
    BY <1>1, <1>2, <1>3, <1>4 DEF IInv

----------------------------------------------------------------------------
\* The steps of the client.

\* A call that returns: its answer must be true, whatever it is.
LEMMA ReturnKeeps ==
    ASSUME IInv, pc # "idle", NEW a \in {"landed", "failed", "unknown"}, Return(a),
           a = "landed" /\ tx \notin taken => DeepIn(tx),
           UNCHANGED <<chainVars, tx>>, nonce' \in [TxId -> Nat \cup {-1}],
           \A t \in TxId \ {tx} : nonce'[t] = nonce[t],
           counted' \in {counted, counted + 1}, counted' <= tx,
           faults' \in 0..MaxFaults
    PROVE  CallTypes' /\ CallsOK' /\ ReadOK'
  <1>. USE TxIdOK DEF IInv, Return, chainVars
  <1>1. tx \in TxId /\ pc' = "idle" /\ account' = 0 /\ seen' = 0 /\ late' = FALSE
    BY DEF CallsOK
  <1>2. answer' = [answer EXCEPT ![tx] = a]
    OBVIOUS
  <1>3. CallTypes'
    <2>1. late' \in BOOLEAN
      BY <1>1
    <2>. QED
      BY <1>1, <1>2, <2>1 DEF CallTypes, Pcs, BeforeBalance
  <1>4. CallsOK'
    BY <1>1, <1>2 DEF CallTypes, CallsOK
  <1>5. ReadOK'
    BY <1>1, <1>2 DEF CallTypes, ReadOK, DeepIn, Mined, Depth
  <1>. QED
    BY <1>3, <1>4, <1>5

\* The ways a call returns that change nothing else.
LEMMA ReturnStep ==
    ASSUME IInv, pc \in BeforeBalance \cup {"balance"},
           NEW a \in {"landed", "failed", "unknown"}, Return(a),
           a = "landed" /\ tx \notin taken => DeepIn(tx),
           UNCHANGED <<chainVars, nonce, tx, counted>>, faults' \in 0..MaxFaults
    PROVE  IInv'
  <1>1. pc # "idle" /\ tx \in TxId
    BY DEF BeforeBalance, IInv, CallsOK
  <1>2. counted <= tx /\ nonce \in [TxId -> Nat \cup {-1}]
    BY DEF IInv, CallTypes, ChainOK
  <1>3. CallTypes' /\ CallsOK' /\ ReadOK'
    BY <1>1, <1>2, ReturnKeeps
  <1>4. ChainOK'
    BY DEF IInv, ChainOK, chainVars, Mined
  <1>. QED
    BY <1>3, <1>4 DEF IInv

\* What a step of the client keeps when it moves from one read to the next.
LEMMA MoveStep ==
    ASSUME IInv, UNCHANGED <<chainVars, nonce, answer, faults>>,
           CallTypes', CallsOK',
           pc' = "head" /\ tx' \notin taken => Mined(tx') /\ place[tx'] = seen' /\ tx' \in good,
           pc' = "balance" /\ tx' \notin taken => DeepIn(tx')
    PROVE  IInv'
  <1>1. ChainOK'
    BY DEF IInv, ChainOK, chainVars, Mined
  <1>2. ReadOK'
    BY DEF IInv, ReadOK, chainVars, Mined, DeepIn, Depth
  <1>. QED
    BY <1>1, <1>2 DEF IInv

LEMMA CallStep ==
    ASSUME IInv, Call \/ ReadNonce \/ DeadlinePasses
    PROVE  IInv'
  <1>. USE TxIdOK, NonceIsNat
  <1>1. CASE Call
    <2>1. tx' \in TxId
      BY <1>1 DEF Call, IInv, CallTypes, TxId
    <2>2. late' \in BOOLEAN
      BY <1>1 DEF Call, IInv, CallTypes
    <2>3. CallTypes'
      BY <1>1, <2>1, <2>2 DEF Call, IInv, CallTypes, Pcs, BeforeBalance, TxId
    <2>4. CallsOK'
      BY <1>1, <2>1 DEF Call, IInv, CallTypes, CallsOK
    <2>. QED
      BY <1>1, <2>3, <2>4, MoveStep DEF Call, chainVars
  <1>2. CASE ReadNonce
    <2>1. late' \in BOOLEAN
      BY <1>2 DEF ReadNonce, IInv, CallTypes
    <2>2. CallTypes'
      BY <1>2, <2>1 DEF ReadNonce, IInv, CallTypes, Pcs, BeforeBalance
    <2>3. CallsOK'
      BY <1>2 DEF ReadNonce, IInv, CallsOK
    <2>. QED
      BY <1>2, <2>2, <2>3, MoveStep DEF ReadNonce, chainVars
  <1>3. CASE DeadlinePasses
    <2>1. late' \in BOOLEAN
      BY <1>3 DEF DeadlinePasses
    <2>2. CallTypes'
      BY <1>3, <2>1 DEF DeadlinePasses, IInv, CallTypes, Pcs, BeforeBalance
    <2>3. CallsOK'
      BY <1>3 DEF DeadlinePasses, IInv, CallsOK
    <2>. QED
      BY <1>3, <2>2, <2>3, MoveStep DEF DeadlinePasses, chainVars, IInv, ReadOK
  <1>. QED
    BY <1>1, <1>2, <1>3

\* A broadcast puts the transaction into the mempool, in no block yet.
LEMMA JoinKeeps ==
    ASSUME IInv, pc = "broadcast", Join, UNCHANGED <<head, peak, place, good, taken>>
    PROVE  /\ ChainOK'
           /\ nonce'[tx] = account
           /\ nonce' \in [TxId -> Nat \cup {-1}]
           /\ \A t \in TxId \ {tx} : nonce'[t] = nonce[t]
  <1>1. tx \in TxId /\ nonce[tx] = -1 /\ account \in Nat
    BY DEF IInv, CallsOK, CallTypes
  <1>2. nonce' \in [TxId -> Nat \cup {-1}] /\ nonce'[tx] = account
        /\ \A t \in TxId \ {tx} : nonce'[t] = nonce[t]
    BY <1>1 DEF Join, IInv, ChainOK
  <1>3. account # -1 /\ ~Mined(tx)
    BY <1>1, TxIdOK DEF IInv, ChainOK
  <1>4. pool' \subseteq TxId /\ \A t \in pool' : t \in pool \/ t = tx
    BY <1>1 DEF Join, IInv, ChainOK
  <1>5. (\A t \in pool' : ~Mined(t)) /\ \A t \in TxId : t \in pool' \/ Mined(t) => nonce'[t] # -1
    BY <1>2, <1>3, <1>4 DEF IInv, ChainOK
  <1>. QED
    BY <1>2, <1>4, <1>5 DEF IInv, ChainOK, Mined

LEMMA BroadcastStep ==
    ASSUME IInv, Broadcast \/ BroadcastLost
    PROVE  IInv'
  <1>. USE TxIdOK
  <1>1. CASE Broadcast
    <2>1. ChainOK' /\ nonce' \in [TxId -> Nat \cup {-1}]
          /\ \A t \in TxId \ {tx} : nonce'[t] = nonce[t]
      BY <1>1, JoinKeeps DEF Broadcast
    <2>2. late' \in BOOLEAN
      BY <1>1 DEF Broadcast, IInv, CallTypes
    <2>3. CallTypes'
      BY <1>1, <2>2 DEF Broadcast, IInv, CallTypes, Pcs, BeforeBalance
    <2>4. CallsOK'
      BY <1>1, <2>1 DEF Broadcast, IInv, CallsOK, CallTypes
    <2>5. ReadOK'
      BY <1>1 DEF Broadcast, IInv, ReadOK, DeepIn, Mined, Depth
    <2>. QED
      BY <2>1, <2>3, <2>4, <2>5 DEF IInv
  <1>2. CASE BroadcastLost
    <2>1. ChainOK' /\ nonce' \in [TxId -> Nat \cup {-1}]
          /\ \A t \in TxId \ {tx} : nonce'[t] = nonce[t]
      BY <1>2, JoinKeeps DEF BroadcastLost
    <2>2. faults' \in 0..MaxFaults /\ counted' = counted /\ counted <= tx /\ pc = "broadcast"
      BY <1>2 DEF BroadcastLost, Fault, IInv, CallTypes
    <2>3. tx \in TxId /\ tx' = tx /\ UNCHANGED <<head, peak, place, good, taken>>
      BY <1>2 DEF BroadcastLost, IInv, CallsOK
    <2>4. answer' = [answer EXCEPT ![tx] = "unknown"] /\ pc' = "idle" /\ account' = 0
          /\ seen' = 0 /\ late' = FALSE
      BY <1>2 DEF BroadcastLost, Return
    <2>5. late' \in BOOLEAN
      BY <2>4
    <2>6. CallTypes'
      BY <2>2, <2>3, <2>4, <2>5 DEF IInv, CallTypes, Pcs, BeforeBalance
    <2>7. CallsOK'
      BY <2>1, <2>2, <2>3, <2>4 DEF IInv, CallTypes, CallsOK
    <2>8. ReadOK'
      BY <2>2, <2>3, <2>4 DEF IInv, CallTypes, ReadOK, DeepIn, Mined, Depth
    <2>. QED
      BY <2>1, <2>6, <2>7, <2>8 DEF IInv
  <1>. QED
    BY <1>1, <1>2

LEMMA GiveUpStep ==
    ASSUME IInv, Refused \/ TimedOut \/ RpcFails
    PROVE  IInv'
  <1>1. faults' \in 0..MaxFaults /\ pc \in BeforeBalance \cup {"balance"}
    BY TxIdOK DEF Refused, TimedOut, RpcFails, Fault, BeforeBalance, IInv, CallTypes
  <1>2. Return("unknown") /\ UNCHANGED <<chainVars, nonce, tx, counted>>
    BY DEF Refused, TimedOut, RpcFails
  <1>. QED
    BY <1>1, <1>2, ReturnStep

\* Depth is counted from the receipt, and the chain was never less high.
LEMMA DepthGrows ==
    ASSUME NEW b \in Nat, NEW h \in Nat, NEW k \in Nat, h <= k
    PROVE  Depth(h, b) <= Depth(k, b)
  BY DEF Depth

LEMMA PollStep ==
    ASSUME IInv, PollReceipt \/ PollHead \/ ReadBalance
    PROVE  IInv'
  <1>. USE TxIdOK
  <1>0. tx \in TxId /\ (pc \in BeforeBalance => counted < MaxTx)
    <2>1. pc # "idle"
      BY DEF PollReceipt, PollHead, ReadBalance
    <2>. QED
      BY <2>1 DEF IInv, CallsOK, CallTypes, BeforeBalance
  <1>1. CASE PollReceipt
    <2>1. CASE Return("failed")
      BY <1>1, <2>1, ReturnStep DEF PollReceipt, BeforeBalance, IInv, CallTypes
    <2>2. CASE ~Return("failed")
      <3>1. late' = late /\ answer' = answer /\ account' = account /\ pc = "receipt"
            /\ pc' \in {"receipt", "head"} /\ tx \in TxId
            /\ UNCHANGED <<chainVars, nonce, tx, counted, faults>>
        BY <1>1, <2>2 DEF PollReceipt, IInv, CallsOK
      <3>2. (pc' = "receipt" /\ seen' = seen)
            \/ (pc' = "head" /\ Mined(tx) /\ tx \in good /\ seen' = place[tx])
        BY <1>1, <2>2 DEF PollReceipt, Succeeded
      <3>3. seen' \in 0..MaxBlocks
        BY <3>1, <3>2 DEF IInv, CallTypes, ChainOK
      <3>4. late' \in BOOLEAN
        BY <3>1 DEF IInv, CallTypes
      <3>5. CallTypes'
        BY <3>1, <3>3, <3>4 DEF IInv, CallTypes, Pcs, BeforeBalance
      <3>6. CallsOK'
        BY <3>1 DEF IInv, CallsOK
      <3>. QED
        BY <3>1, <3>2, <3>5, <3>6, MoveStep
    <2>. QED
      BY <2>1, <2>2
  <1>2. CASE PollHead
    <2>1. tx \in TxId /\ pc = "head" /\ UNCHANGED <<chainVars, nonce, tx, faults>>
      BY <1>2 DEF PollHead, IInv, CallsOK
    <2>2. Deep(head, seen) /\ tx \notin taken => DeepIn(tx)
      BY <2>1, DepthGrows DEF IInv, ReadOK, ChainOK, CallTypes, Deep, DeepIn, Depth
    <2>3. CASE Return("landed") /\ UNCHANGED counted /\ Deep(head, seen)
      BY <2>1, <2>2, <2>3, ReturnStep DEF BeforeBalance, IInv, CallTypes
    <2>4. CASE ~(Return("landed") /\ UNCHANGED counted /\ Deep(head, seen))
      <3>1. UNCHANGED <<account, late, answer>> /\ seen' \in {0, seen}
            /\ ((pc' = "balance" /\ Deep(head, seen) /\ counted' = counted + 1)
                  \/ (pc' = "receipt" /\ counted' = counted))
        BY <1>2, <2>4 DEF PollHead
      <3>2. late' \in BOOLEAN
        BY <3>1 DEF IInv, CallTypes
      <3>3. CallTypes'
        BY <2>1, <3>1, <3>2 DEF IInv, CallTypes, Pcs, BeforeBalance
      <3>4. CallsOK'
        BY <2>1, <3>1 DEF IInv, CallsOK
      <3>. QED
        BY <2>1, <2>2, <3>1, <3>3, <3>4, MoveStep
    <2>. QED
      BY <2>3, <2>4
  <1>3. CASE ReadBalance
    <2>1. Return("landed") /\ pc = "balance" /\ UNCHANGED <<chainVars, nonce, tx, counted>>
      BY <1>3 DEF ReadBalance, AfterBalance
    <2>2. faults' \in 0..MaxFaults
      BY <1>3 DEF ReadBalance, AfterBalance, IInv, CallTypes
    <2>3. tx \notin taken => DeepIn(tx)
      BY <2>1 DEF IInv, ReadOK
    <2>. QED
      BY <2>1, <2>2, <2>3, ReturnStep
  <1>. QED
    BY <1>1, <1>2, <1>3

----------------------------------------------------------------------------
\* The steps of the chain.

\* A transaction stays deep while its block and its outcome stay.
LEMMA DeepStays ==
    ASSUME IInv, NEW u \in TxId, DeepIn(u), peak' \in Nat, peak <= peak',
           place'[u] = place[u], u \in good'
    PROVE  DeepIn(u)'
  <1>1. place[u] \in Nat /\ peak \in Nat /\ Confirmations \in Nat
    BY TxIdOK DEF IInv, ChainOK
  <1>2. Depth(peak, place[u]) <= Depth(peak', place[u])
    BY <1>1, DepthGrows
  <1>3. Depth(peak', place[u]) \in Nat /\ Depth(peak, place[u]) \in Nat
    BY <1>1 DEF Depth
  <1>. QED
    BY <1>1, <1>2, <1>3 DEF DeepIn, Mined, Depth

LEMMA ChainStep ==
    ASSUME IInv, EvmChain
    PROVE  IInv'
  <1>. USE TxIdOK
  <1>0. UNCHANGED clientVars /\ faults' \in 0..MaxFaults
    BY DEF EvmChain, EmptyBlock, MineTx, Reorg, DropTx, Fault, IInv, CallTypes
  <1>1. CallTypes' /\ CallsOK'
    <2>1. late' \in BOOLEAN
      BY <1>0 DEF clientVars, IInv, CallTypes
    <2>. QED
      BY <1>0, <2>1 DEF clientVars, IInv, CallTypes, CallsOK
  <1>2. CASE EmptyBlock
    <2>1. head' = head + 1 /\ head' \in 0..MaxBlocks /\ peak' \in 0..MaxBlocks /\ head' <= peak'
          /\ peak <= peak'
      BY <1>2 DEF EmptyBlock, Grow, IInv, ChainOK
    <2>2. ChainOK'
      BY <1>0, <1>2, <2>1 DEF EmptyBlock, IInv, ChainOK, Mined, clientVars
    <2>3. UNCHANGED <<place, good, pool, taken, pc, tx, seen, answer>>
      BY <1>0, <1>2 DEF EmptyBlock, clientVars
    <2>4. \A u \in TxId : DeepIn(u) => DeepIn(u)'
      BY <2>1, <2>3, DeepStays DEF DeepIn
    <2>5. ReadOK'
      BY <2>3, <2>4 DEF IInv, CallsOK, ReadOK, Mined
    <2>. QED
      BY <1>1, <2>2, <2>5 DEF IInv
  <1>3. CASE MineTx
    <2>1. head' = head + 1 /\ head' \in 0..MaxBlocks /\ peak' \in 0..MaxBlocks /\ head' <= peak'
          /\ peak <= peak'
      BY <1>3 DEF MineTx, Grow, IInv, ChainOK
    <2>2. PICK t \in pool :
              /\ place' = [place EXCEPT ![t] = head + 1]
              /\ pool' = pool \ SameNonce(nonce[t])
              /\ good' \in {good \cup {t}, good \ {t}}
      BY <1>3 DEF MineTx
    <2>3. t \in TxId /\ t \notin pool' /\ pool' \subseteq pool /\ ~Mined(t) /\ nonce[t] # -1
      BY <2>2 DEF IInv, ChainOK, SameNonce
    <2>4. taken' = taken
      BY <1>3 DEF MineTx
    <2>5. place' \in [TxId -> 0..MaxBlocks] /\ place'[t] = head'
          /\ \A u \in TxId \ {t} : place'[u] = place[u]
      BY <2>1, <2>2, <2>3 DEF IInv, ChainOK
    <2>6. ChainOK'
      <3>1. good' \subseteq TxId
        BY <2>2, <2>3 DEF IInv, ChainOK
      <3>2. \A u \in TxId : place'[u] <= head'
        BY <2>1, <2>5 DEF IInv, ChainOK
      <3>3. \A u \in TxId : u \in pool' \/ Mined(u)' => nonce'[u] # -1
        BY <1>0, <2>3, <2>5 DEF IInv, ChainOK, Mined, clientVars
      <3>4. \A u \in pool' : ~Mined(u)'
        BY <2>3, <2>5 DEF IInv, ChainOK, Mined
      <3>. QED
        BY <1>0, <2>1, <2>3, <2>4, <2>5, <3>1, <3>2, <3>3, <3>4 DEF IInv, ChainOK, clientVars
    <2>7. \A u \in TxId \ {t} : u \in good => u \in good'
      BY <2>2
    <2>8. \A u \in TxId : DeepIn(u) => DeepIn(u)'
      <3>1. SUFFICES ASSUME NEW u \in TxId, DeepIn(u) PROVE DeepIn(u)'
        OBVIOUS
      <3>2. u # t
        BY <2>3, <3>1 DEF DeepIn
      <3>. QED
        BY <2>1, <2>5, <2>7, <3>1, <3>2, DeepStays DEF DeepIn
    <2>9. pc = "head" /\ tx \notin taken => Mined(tx)' /\ place'[tx] = seen /\ tx \in good'
      <3>1. SUFFICES ASSUME pc = "head", tx \notin taken
                     PROVE  Mined(tx)' /\ place'[tx] = seen /\ tx \in good'
        BY <1>0 DEF clientVars
      <3>2. tx \in TxId /\ Mined(tx) /\ place[tx] = seen /\ tx \in good /\ tx # t
        BY <2>3, <3>1 DEF IInv, CallsOK, ReadOK
      <3>. QED
        BY <1>0, <2>5, <2>7, <3>2 DEF Mined, clientVars
    <2>10. ReadOK'
      BY <1>0, <2>4, <2>8, <2>9 DEF IInv, CallsOK, ReadOK, clientVars
    <2>. QED
      BY <1>1, <2>6, <2>10 DEF IInv
  <1>4. CASE Reorg
    <2>1. PICK h \in 0..(head - 1) :
              /\ head' = h
              /\ place' = [t \in TxId |-> IF place[t] > h THEN 0 ELSE place[t]]
              /\ taken' = taken \cup {t \in TxId : place[t] > h}
              /\ \E back \in SUBSET {t \in TxId : place[t] > h} : pool' = pool \cup back
      BY <1>4 DEF Reorg
    <2>2. UNCHANGED <<peak, good>>
      BY <1>4 DEF Reorg
    <2>3. \A t \in pool' : t \in pool \/ (t \in TxId /\ place[t] > h)
      BY <2>1
    <2>4. ChainOK'
      <3>1. head' \in 0..MaxBlocks /\ head' <= peak' /\ head' < head
        BY <2>1, <2>2 DEF IInv, ChainOK
      <3>2. place' \in [TxId -> 0..MaxBlocks] /\ \A t \in TxId : place'[t] <= head'
        BY <2>1, <3>1 DEF IInv, ChainOK
      <3>3. pool' \subseteq TxId /\ taken' \subseteq TxId
        BY <2>1, <2>3 DEF IInv, ChainOK
      <3>4. \A t \in TxId : t \in pool' \/ Mined(t)' => nonce'[t] # -1
        BY <1>0, <2>1, <2>3, <3>1 DEF IInv, ChainOK, Mined, clientVars
      <3>5. \A t \in pool' : ~Mined(t)'
        BY <2>1, <2>3, <3>3 DEF IInv, ChainOK, Mined
      <3>. QED
        BY <1>0, <2>2, <3>1, <3>2, <3>3, <3>4, <3>5 DEF IInv, ChainOK, clientVars
    <2>5. \A t \in TxId : t \notin taken' => t \notin taken /\ place'[t] = place[t]
      BY <2>1
    <2>6. ReadOK'
      BY <1>0, <2>2, <2>5 DEF IInv, CallsOK, ReadOK, DeepIn, Depth, Mined, clientVars
    <2>. QED
      BY <1>1, <2>4, <2>6 DEF IInv
  <1>5. CASE DropTx
    <2>1. pool' \subseteq pool /\ UNCHANGED <<head, peak, place, good, taken>>
      BY <1>5 DEF DropTx
    <2>2. ChainOK'
      BY <1>0, <2>1 DEF IInv, ChainOK, Mined, clientVars
    <2>3. ReadOK'
      BY <1>0, <2>1 DEF IInv, ReadOK, DeepIn, Depth, Mined, clientVars
    <2>. QED
      BY <1>1, <2>2, <2>3 DEF IInv
  <1>. QED
    BY <1>2, <1>3, <1>4, <1>5 DEF EvmChain

LEMMA NextOK ==
    ASSUME IInv, [Next]_vars
    PROVE  IInv'
  <1>1. CASE UNCHANGED vars
    <2>1. late' \in BOOLEAN
      BY <1>1 DEF vars, clientVars, IInv, CallTypes
    <2>. QED
      BY <1>1, <2>1 DEF vars, chainVars, clientVars, IInv, ChainOK, CallTypes, CallsOK, ReadOK,
                        DeepIn, Depth, Mined
  <1>2. CASE Next
    BY <1>2, CallStep, BroadcastStep, GiveUpStep, PollStep, ChainStep
       DEF Next, Client, Misfortune, Waiting
  <1>. QED
    BY <1>1, <1>2

----------------------------------------------------------------------------
\* In every behaviour a transaction is in the mempool or in one block, in neither
\* before its call broadcasts it, and what was read of it is true or taken back.
THEOREM ClientInductive == Spec => []IInv
  BY InitOK, NextOK, PTL DEF Spec

\* submit_calldata: every reachable state is well-typed, and no more transactions
\* are counted than calls were made.
THEOREM ClientTypes == Spec => []TypeOK
  <1>1. IInv => TypeOK
    BY DEF IInv, ChainOK, CallTypes, TypeOK
  <1>. QED
    BY <1>1, ClientInductive, PTL

\* wait_for_confirmation: a success stands for an executed transaction, as deep as
\* asked for, until a reorganisation takes it back.
THEOREM SuccessStands == Spec => []SuccessIsDeep
  <1>1. IInv => SuccessIsDeep
    BY DEF IInv, ReadOK, DeepIn, SuccessIsDeep
  <1>. QED
    BY <1>1, ClientInductive, PTL

----------------------------------------------------------------------------
\* The successes, counted and reported.

Reported == {t \in TxId : answer[t] = "landed"}

LEMMA ReportedIsNat == IsFiniteSet(Reported) /\ Cardinality(Reported) \in Nat
  <1>1. IsFiniteSet(1..MaxTx)
    BY FS_Interval, EvmAssumption
  <1>2. IsFiniteSet(Reported)
    BY <1>1, FS_Subset DEF TxId, Reported
  <1>. QED
    BY <1>2, FS_CardinalityType

\* A counted transaction whose call has not returned yet.
Owed == IF pc = "balance" THEN 1 ELSE 0

LEMMA SumUp == CountedIsReported <=> counted <= Cardinality(Reported) + Owed
  BY DEF CountedIsReported, Reported, Owed

LEMMA SumUpThen == CountedIsReported' <=> counted' <= Cardinality(Reported') + Owed'
  BY DEF CountedIsReported, Reported, Owed

\* A call that returns is reported then and not before.
LEMMA ReturnReports ==
    ASSUME IInv, pc # "idle", NEW a \in {"landed", "failed", "unknown"}, Return(a)
    PROVE  /\ Cardinality(Reported') = Cardinality(Reported) + (IF a = "landed" THEN 1 ELSE 0)
           /\ Owed' = 0
  <1>1. tx \in TxId /\ answer[tx] = "none"
    BY DEF IInv, CallsOK
  <1>2. answer \in [TxId -> {"none", "landed", "failed", "unknown"}]
    BY DEF IInv, CallTypes
  <1>3. answer' = [answer EXCEPT ![tx] = a] /\ Owed' = 0
    BY DEF Return, Owed
  <1>4. CASE a = "landed"
    <2>1. tx \notin Reported /\ Reported' = Reported \cup {tx}
      BY <1>1, <1>2, <1>3, <1>4 DEF Reported
    <2>. QED
      BY <1>3, <1>4, <2>1, ReportedIsNat, FS_AddElement
  <1>5. CASE a # "landed"
    <2>1. Reported' = Reported
      BY <1>1, <1>2, <1>3, <1>5 DEF Reported
    <2>. QED
      BY <1>3, <1>5, <2>1, ReportedIsNat
  <1>. QED
    BY <1>4, <1>5

\* submit_calldata: what the metrics count has been or is about to be reported as
\* a success, also when the balance cannot be read.
THEOREM CountedReported == Spec => []CountedIsReported
  <1>1. Init => CountedIsReported
    <2>1. ASSUME Init PROVE counted = 0 /\ Owed = 0
      BY <2>1 DEF Init, Owed
    <2>. QED
      BY <2>1, ReportedIsNat, SumUp
  <1>2. ASSUME IInv, CountedIsReported, [Next]_vars
        PROVE  CountedIsReported'
    <2>1. counted \in Nat /\ Owed \in {0, 1} /\ Cardinality(Reported) \in Nat
      BY <1>2, TxIdOK, ReportedIsNat DEF IInv, CallTypes, Owed
    <2>2. counted <= Cardinality(Reported) + Owed
      BY <1>2, SumUp
    <2>3. ASSUME counted' <= Cardinality(Reported') + Owed'
          PROVE  CountedIsReported'
      BY <2>3, SumUpThen
    <2>4. CASE UNCHANGED <<answer, counted>> /\ pc # "balance"
      <3>1. Reported' = Reported /\ Owed = 0 /\ Owed' \in {0, 1}
        BY <2>4 DEF Reported, Owed
      <3>. QED
        BY <2>1, <2>2, <2>3, <2>4, <3>1
    <2>5. CASE UNCHANGED <<answer, counted, pc>>
      <3>1. Reported' = Reported /\ Owed' = Owed
        BY <2>5 DEF Reported, Owed
      <3>. QED
        BY <2>2, <2>3, <2>5, <3>1
    <2>6. ASSUME NEW a \in {"landed", "failed", "unknown"}, Return(a), UNCHANGED counted,
                 pc # "idle", pc = "balance" => a = "landed"
          PROVE  CountedIsReported'
      <3>1. /\ Cardinality(Reported') = Cardinality(Reported) + (IF a = "landed" THEN 1 ELSE 0)
            /\ Owed' = 0
        BY <1>2, <2>6, ReturnReports
      <3>2. Owed <= (IF a = "landed" THEN 1 ELSE 0)
        BY <2>6 DEF Owed
      <3>. QED
        BY <2>1, <2>2, <2>3, <2>6, <3>1, <3>2
    <2>7. CASE PollHead
      <3>1. CASE counted' = counted + 1 /\ pc' = "balance" /\ UNCHANGED answer
        <4>1. Reported' = Reported /\ Owed = 0 /\ Owed' = 1
          BY <2>7, <3>1 DEF Reported, Owed, PollHead
        <4>. QED
          BY <2>1, <2>2, <2>3, <3>1, <4>1
      <3>2. CASE Return("landed") /\ UNCHANGED counted
        BY <2>6, <2>7, <3>2 DEF PollHead
      <3>3. CASE UNCHANGED <<answer, counted>>
        BY <2>4, <2>7, <3>3 DEF PollHead
      <3>. QED
        BY <2>7, <3>1, <3>2, <3>3 DEF PollHead
    <2>8. CASE ReadBalance
      BY <2>6, <2>8 DEF ReadBalance, AfterBalance
    <2>9. CASE Refused \/ TimedOut \/ RpcFails \/ BroadcastLost
      <3>1. Return("unknown") /\ pc # "idle" /\ pc # "balance" /\ UNCHANGED counted
        BY <2>9 DEF Refused, TimedOut, RpcFails, BroadcastLost
      <3>. QED
        BY <2>6, <3>1
    <2>10. CASE PollReceipt
      <3>1. pc = "receipt" /\ UNCHANGED counted /\ (UNCHANGED answer \/ Return("failed"))
        BY <2>10 DEF PollReceipt
      <3>. QED
        BY <2>4, <2>6, <3>1
    <2>11. CASE Call \/ ReadNonce \/ Broadcast \/ DeadlinePasses
      <3>1. UNCHANGED <<answer, counted>> /\ pc # "balance"
        BY <2>11 DEF Call, ReadNonce, Broadcast, DeadlinePasses
      <3>. QED
        BY <2>4, <3>1
    <2>12. CASE EvmChain \/ UNCHANGED vars
      <3>1. UNCHANGED <<answer, counted, pc>>
        BY <2>12 DEF EvmChain, EmptyBlock, MineTx, Reorg, DropTx, clientVars, vars
      <3>. QED
        BY <2>5, <3>1
    <2>. QED
      BY <1>2, <2>7, <2>8, <2>9, <2>10, <2>11, <2>12 DEF Next, Client, Misfortune, Waiting
  <1>. QED
    BY <1>1, <1>2, ClientInductive, PTL DEF Spec

----------------------------------------------------------------------------
\* The steps of the client as steps of Submission.

Step == Promise!Next \/ UNCHANGED Promise!vars

\* What the mapping says of a transaction, case by case.
LEMMA EffectOf ==
    ASSUME NEW t \in TxId
    PROVE  Effect[t] = IF Mined(t) THEN (IF t \in good THEN "landed" ELSE "failed")
                       ELSE IF t \in pool THEN "pending"
                       ELSE IF nonce[t] = -1 THEN "none" ELSE "gone"
  BY DEF Effect

LEMMA EffectThen ==
    ASSUME NEW t \in TxId
    PROVE  Effect'[t] = IF Mined(t)' THEN (IF t \in good' THEN "landed" ELSE "failed")
                        ELSE IF t \in pool' THEN "pending"
                        ELSE IF nonce'[t] = -1 THEN "none" ELSE "gone"
  BY DEF Effect, Mined

LEMMA EffectTypeThen == Effect' \in [TxId -> Promise!Effects]
  <1>1. \A t \in TxId : Effect'[t] \in Promise!Effects
    BY EffectThen DEF Promise!Effects
  <1>. QED
    BY <1>1 DEF Effect

LEMMA NonceNot == ASSUME IInv PROVE account # -1
  BY DEF IInv, CallTypes

LEMMA InitIsInit == ASSUME Init PROVE Promise!Init
  <1>1. \A t \in TxId : Effect[t] = "none"
    BY EffectOf DEF Init, Mined
  <1>2. Effect = [t \in TxId |-> "none"]
    BY <1>1 DEF Effect
  <1>. QED
    BY <1>2 DEF Init, Promise!Init

LEMMA EffectStays ==
    ASSUME UNCHANGED <<chainVars, nonce>>
    PROVE  Effect' = Effect
  BY DEF Effect, Mined, chainVars

LEMMA CallInProgress ==
    ASSUME IInv, pc # "idle"
    PROVE  tx \in TxId /\ Promise!InProgress(tx)
  BY DEF IInv, CallsOK, Promise!InProgress

LEMMA AnswerIsAnswer ==
    ASSUME IInv, pc # "idle", NEW a \in {"landed", "failed", "unknown"}, Return(a),
           UNCHANGED <<chainVars, nonce>>,
           a \in {"landed", "failed"} => Effect[tx] = a \/ tx \in taken
    PROVE  Step
  <1>1. Effect' = Effect /\ taken' = taken
    BY EffectStays DEF chainVars
  <1>2. Promise!Answer(tx)
    BY <1>1, CallInProgress DEF Promise!Answer, Return
  <1>. QED
    BY <1>2, CallInProgress DEF Step, Promise!Next

LEMMA JoinIsSend ==
    ASSUME IInv, pc = "broadcast", Join, UNCHANGED <<head, peak, place, good, taken>>,
           answer' \in {answer, [answer EXCEPT ![tx] = "unknown"]}
    PROVE  Step
  <1>1. tx \in TxId /\ Promise!InProgress(tx)
    BY CallInProgress
  <1>2. nonce[tx] = -1 /\ ~Mined(tx) /\ tx \notin pool
    BY <1>1 DEF IInv, CallsOK, ChainOK
  <1>3. Effect[tx] = "none"
    BY <1>1, <1>2, EffectOf
  <1>4. nonce'[tx] # -1 /\ (\A t \in TxId \ {tx} : nonce'[t] = nonce[t]) /\ tx \in pool'
    BY <1>1, NonceNot, JoinKeeps DEF Join
  <1>5. Effect'[tx] = "pending"
    BY <1>1, <1>2, <1>4, EffectThen DEF Mined
  <1>6. \A t \in TxId \ {tx} : t \in pool' => t \in pool
    BY DEF Join
  <1>7. \A t \in TxId \ {tx} : t \in pool /\ t \notin pool' => nonce[t] # -1
    BY DEF IInv, ChainOK
  <1>8. Promise!OthersStay(tx)
    <2>1. SUFFICES ASSUME NEW t \in TxId \ {tx}
                   PROVE  Effect'[t] = Effect[t] \/ (Effect[t] = "pending" /\ Effect'[t] = "gone")
      BY DEF Promise!OthersStay
    <2>2. (Mined(t)' <=> Mined(t)) /\ (t \in good' <=> t \in good)
      BY DEF Mined
    <2>. QED
      BY <1>4, <1>6, <1>7, <2>2, EffectOf, EffectThen
  <1>9. Promise!Send(tx)
    BY <1>1, <1>3, <1>5, <1>8, EffectTypeThen DEF Promise!Send
  <1>. QED
    BY <1>1, <1>9 DEF Step, Promise!Next

LEMMA ClientIsCaller ==
    ASSUME IInv, Client \/ Misfortune
    PROVE  Step
  <1>1. CASE Call \/ ReadNonce \/ DeadlinePasses
    <2>1. UNCHANGED <<chainVars, nonce, answer>>
      BY <1>1 DEF Call, ReadNonce, DeadlinePasses
    <2>. QED
      BY <2>1, EffectStays DEF Step, Promise!vars, chainVars
  <1>2. CASE Broadcast
    BY <1>2, JoinIsSend DEF Broadcast
  <1>3. CASE BroadcastLost
    BY <1>3, JoinIsSend DEF BroadcastLost, Return
  <1>4. CASE Refused \/ TimedOut \/ RpcFails
    <2>1. pc # "idle" /\ Return("unknown") /\ UNCHANGED <<chainVars, nonce>>
      BY <1>4 DEF Refused, TimedOut, RpcFails
    <2>. QED
      BY <2>1, AnswerIsAnswer
  <1>5. CASE PollReceipt
    <2>1. pc # "idle" /\ tx \in TxId /\ UNCHANGED <<chainVars, nonce>>
      BY <1>5, CallInProgress DEF PollReceipt
    <2>2. CASE Return("failed") /\ Mined(tx) /\ ~Succeeded(tx)
      <3>1. Effect[tx] = "failed"
        BY <2>1, <2>2, EffectOf DEF Succeeded
      <3>. QED
        BY <2>1, <2>2, <3>1, AnswerIsAnswer
    <2>3. CASE ~(Return("failed") /\ Mined(tx) /\ ~Succeeded(tx))
      <3>1. UNCHANGED answer
        BY <1>5, <2>3 DEF PollReceipt
      <3>. QED
        BY <2>1, <3>1, EffectStays DEF Step, Promise!vars, chainVars
    <2>. QED
      BY <2>2, <2>3
  <1>6. CASE PollHead
    <2>1. pc = "head" /\ tx \in TxId /\ UNCHANGED <<chainVars, nonce>>
      BY <1>6, CallInProgress DEF PollHead
    <2>2. CASE Return("landed")
      <3>1. Effect[tx] = "landed" \/ tx \in taken
        BY <2>1, EffectOf DEF IInv, ReadOK
      <3>. QED
        BY <2>1, <2>2, <3>1, AnswerIsAnswer
    <2>3. CASE ~Return("landed")
      <3>1. UNCHANGED answer
        BY <1>6, <2>3 DEF PollHead
      <3>. QED
        BY <2>1, <3>1, EffectStays DEF Step, Promise!vars, chainVars
    <2>. QED
      BY <2>2, <2>3
  <1>7. CASE ReadBalance
    <2>1. pc = "balance" /\ tx \in TxId /\ UNCHANGED <<chainVars, nonce>> /\ Return("landed")
      BY <1>7, CallInProgress DEF ReadBalance, AfterBalance
    <2>2. Effect[tx] = "landed" \/ tx \in taken
      BY <2>1, EffectOf DEF IInv, ReadOK, DeepIn
    <2>. QED
      BY <2>1, <2>2, AnswerIsAnswer
  <1>. QED
    BY <1>1, <1>2, <1>3, <1>4, <1>5, <1>6, <1>7 DEF Client, Misfortune, Waiting

LEMMA ChainIsChain ==
    ASSUME IInv, EvmChain
    PROVE  Step
  <1>0. UNCHANGED <<answer, nonce>>
    BY DEF EvmChain, EmptyBlock, MineTx, Reorg, DropTx, clientVars
  <1>1. CASE EmptyBlock
    <2>1. UNCHANGED <<place, good, pool, taken>>
      BY <1>1 DEF EmptyBlock
    <2>2. Effect' = Effect
      BY <1>0, <2>1 DEF Effect, Mined
    <2>. QED
      BY <1>0, <2>1, <2>2 DEF Step, Promise!vars
  <1>2. CASE MineTx
    <2>1. PICK t \in pool :
              /\ place' = [place EXCEPT ![t] = head + 1]
              /\ pool' = pool \ SameNonce(nonce[t])
              /\ good' \in {good \cup {t}, good \ {t}}
      BY <1>2 DEF MineTx
    <2>2. t \in TxId /\ ~Mined(t) /\ taken' = taken /\ head + 1 # 0
      BY <1>2, TxIdOK DEF MineTx, IInv, ChainOK
    <2>3. Effect[t] = "pending"
      BY <2>2, EffectOf
    <2>4. place'[t] # 0 /\ \A u \in TxId \ {t} : place'[u] = place[u]
      BY <2>1, <2>2 DEF IInv, ChainOK
    <2>5. Effect'[t] \in {"landed", "failed", "gone"}
      BY <2>2, <2>4, EffectThen DEF Mined
    <2>6. Promise!OthersStay(t)
      <3>1. SUFFICES ASSUME NEW u \in TxId \ {t}
                     PROVE  Effect'[u] = Effect[u] \/ (Effect[u] = "pending" /\ Effect'[u] = "gone")
        BY DEF Promise!OthersStay
      <3>2. (Mined(u)' <=> Mined(u)) /\ (u \in good' <=> u \in good)
        BY <2>1, <2>4 DEF Mined
      <3>3. (u \in pool' => u \in pool) /\ (u \in pool => nonce[u] # -1)
        BY <2>1 DEF IInv, ChainOK
      <3>. QED
        BY <1>0, <3>2, <3>3, EffectOf, EffectThen
    <2>7. Promise!Resolve(t)
      BY <1>0, <2>2, <2>3, <2>5, <2>6, EffectTypeThen DEF Promise!Resolve
    <2>. QED
      BY <2>2, <2>7 DEF Step, Promise!Next
  <1>3. CASE Reorg
    <2>1. PICK h \in 0..(head - 1) :
              /\ place' = [t \in TxId |-> IF place[t] > h THEN 0 ELSE place[t]]
              /\ taken' = taken \cup {t \in TxId : place[t] > h}
              /\ \E back \in SUBSET {t \in TxId : place[t] > h} : pool' = pool \cup back
      BY <1>3 DEF Reorg
    <2>2. good' = good
      BY <1>3 DEF Reorg
    <2>3. PICK T : T = {t \in TxId : place[t] > h}
      OBVIOUS
    <2>4. \A t \in T : t \in TxId /\ Mined(t) /\ ~Mined(t)' /\ nonce'[t] # -1
      BY <1>0, <2>1, <2>3, TxIdOK DEF IInv, ChainOK, Mined
    <2>5. T \in SUBSET {t \in TxId : Effect[t] \in {"landed", "failed"}}
      BY <2>4, EffectOf
    <2>6. \A t \in T : Effect'[t] \in {"pending", "gone"}
      BY <2>4, EffectThen
    <2>7. \A t \in TxId \ T : Effect'[t] = Effect[t]
      <3>1. SUFFICES ASSUME NEW t \in TxId \ T PROVE Effect'[t] = Effect[t]
        OBVIOUS
      <3>2. place'[t] = place[t] /\ (t \in pool' <=> t \in pool)
        BY <2>1, <2>3
      <3>. QED
        BY <1>0, <2>2, <3>2, EffectOf, EffectThen DEF Mined
    <2>8. Promise!TakeBack
      BY <1>0, <2>1, <2>3, <2>5, <2>6, <2>7, EffectTypeThen DEF Promise!TakeBack
    <2>. QED
      BY <2>8 DEF Step, Promise!Next
  <1>4. CASE DropTx
    <2>1. PICK t \in pool : pool' = pool \ {t}
      BY <1>4 DEF DropTx
    <2>2. UNCHANGED <<place, good, taken>> /\ t \in TxId /\ ~Mined(t) /\ nonce[t] # -1
      BY <1>4 DEF DropTx, IInv, ChainOK
    <2>3. Effect[t] = "pending" /\ Effect'[t] = "gone"
      BY <1>0, <2>1, <2>2, EffectOf, EffectThen DEF Mined
    <2>4. Promise!OthersStay(t)
      <3>1. SUFFICES ASSUME NEW u \in TxId \ {t} PROVE Effect'[u] = Effect[u]
        BY DEF Promise!OthersStay
      <3>. QED
        BY <1>0, <2>1, <2>2, EffectOf, EffectThen DEF Mined
    <2>5. Promise!Resolve(t)
      BY <1>0, <2>2, <2>3, <2>4, EffectTypeThen DEF Promise!Resolve
    <2>. QED
      BY <2>2, <2>5 DEF Step, Promise!Next
  <1>. QED
    BY <1>1, <1>2, <1>3, <1>4 DEF EvmChain

\* submit_calldata implements Submission: an answer is true of the chain or a
\* reorganisation took the transaction back, each call sends at most once and
\* only before it returns.
THEOREM ClientKeepsPromise == Spec => KeepsPromise
  <1>1. Init => Promise!Init
    BY InitIsInit
  <1>2. IInv /\ [Next]_vars => [Promise!Next]_(Promise!vars)
    <2>1. ASSUME IInv, UNCHANGED vars PROVE UNCHANGED Promise!vars
      BY <2>1, EffectStays DEF vars, chainVars, clientVars, Promise!vars
    <2>2. ASSUME IInv, Next PROVE Step
      BY <2>2, ClientIsCaller, ChainIsChain DEF Next
    <2>. QED
      BY <2>1, <2>2 DEF Step
  <1>. QED
    BY <1>1, <1>2, ClientInductive, PTL DEF Spec, KeepsPromise, Promise!Spec
=============================================================================
