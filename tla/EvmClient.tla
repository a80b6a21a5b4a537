----------------------------- MODULE EvmClient ------------------------------
(***************************************************************************)
(* src/evm_relay_contract_client.rs: submit_calldata, send_tx and          *)
(* wait_for_confirmation, call after call, against an EVM node whose chain *)
(* grows and may lose its newest blocks.                                   *)
(*                                                                         *)
(* The answers to eth_getTransactionReceipt and eth_blockNumber are two    *)
(* RPCs, as are the nonce and the broadcast inside send_transaction, so    *)
(* the chain may change between them.  The calls are numbered; call t      *)
(* sends transaction t.  Of the chain only the height and the place of     *)
(* the relayer's own transactions matter.                                  *)
(***************************************************************************)
EXTENDS Integers, FiniteSets

CONSTANTS
    MaxTx,          \* bound: calls made
    MaxBlocks,      \* bound: no EVM chain is higher
    MaxReorg,       \* how many of the newest blocks the chain may lose
    Confirmations,  \* EVM_TX_CONFIRMATIONS
    MaxFaults       \* bound: RPC failures, lost answers, vanished transactions

\* AppConfig::validate rejects EVM_TX_CONFIRMATIONS = 0.
ASSUME EvmAssumption ==
    /\ {MaxTx, MaxBlocks, MaxReorg, MaxFaults} \subseteq Nat
    /\ Confirmations \in Nat \ {0}

TxId == 1..MaxTx

VARIABLES
    head, peak,  \* height of the EVM chain, and the greatest it ever had
    place,       \* per transaction: the block that holds it, 0 if none does
    good,        \* the transactions whose execution succeeds where they are
    pool,        \* the transactions in the mempool
    taken,       \* the transactions a reorganisation has taken out of the chain
    nonce,       \* per transaction: its nonce, -1 if it was never broadcast
    pc, tx,      \* next RPC of the client, and the call in progress
    account,     \* the account's nonce as read for this call
    seen,        \* block number of the receipt in hand
    late,        \* the deadline of this wait has passed
    answer,      \* per call: none, landed, failed, unknown
    counted,     \* relayer_tx_confirmed_total, and the fees added to the totals
    faults

chainVars == <<head, peak, place, good, pool, taken>>
clientVars == <<nonce, pc, tx, account, seen, late, answer, counted>>
vars == <<chainVars, clientVars, faults>>

Pcs == {"idle", "nonce", "broadcast", "receipt", "head", "balance"}

TypeOK ==
    /\ head \in 0..MaxBlocks /\ peak \in 0..MaxBlocks
    /\ place \in [TxId -> 0..MaxBlocks]
    /\ good \subseteq TxId /\ pool \subseteq TxId /\ taken \subseteq TxId
    /\ nonce \in [TxId -> Nat \cup {-1}] /\ account \in Nat
    /\ pc \in Pcs /\ tx \in 0..MaxTx /\ seen \in 0..MaxBlocks
    /\ late \in BOOLEAN
    /\ answer \in [TxId -> {"none", "landed", "failed", "unknown"}]
    /\ counted \in 0..MaxTx
    /\ faults \in 0..MaxFaults

Mined(t) == place[t] # 0

\* The account's nonce: eth_getTransactionCount at `latest`.
AccountNonce == Cardinality({t \in TxId : Mined(t)})

\* Depth as the client counts it; the head may be behind the receipt's block.
Depth(h, b) == (IF h >= b THEN h - b ELSE 0) + 1

----------------------------------------------------------------------------
\* The client.

\* Mutant: the loop goes on after its result.
ReturnMutant(a) ==
    /\ answer' = [answer EXCEPT ![tx] = a]
    /\ pc' = "receipt" /\ account' = 0 /\ seen' = 0 /\ late' = FALSE

\* The call returns.
Return(a) ==
    /\ answer' = [answer EXCEPT ![tx] = a]
    /\ pc' = "idle" /\ account' = 0 /\ seen' = 0 /\ late' = FALSE

\* The sync engine calls submit_header, submit_short_fork or submit_fork.
Call ==
    /\ pc = "idle" /\ tx < MaxTx
    /\ tx' = tx + 1
    /\ pc' = "nonce"
    /\ UNCHANGED <<chainVars, nonce, account, seen, late, answer, counted, faults>>

\* The provider fills in the nonce, gas and fees, and the wallet signs.
ReadNonce ==
    /\ pc = "nonce"
    /\ account' = AccountNonce
    /\ pc' = "broadcast"
    /\ UNCHANGED <<chainVars, nonce, tx, seen, late, answer, counted, faults>>

SameNonce(n) == {u \in TxId : nonce[u] = n}

\* Its nonce must be the account's next one: an earlier transaction may have
\* been mined since it was read.
Join ==
    /\ account >= AccountNonce
    /\ pool' = (pool \ SameNonce(account)) \cup {tx}
    /\ nonce' = [nonce EXCEPT ![tx] = account]

\* The node takes the transaction, in place of a pending one of its nonce.
Broadcast ==
    /\ pc = "broadcast"
    /\ Join
    /\ pc' = "receipt" /\ account' = 0
    /\ UNCHANGED <<head, peak, place, good, taken, tx, seen, late, answer, counted, faults>>

\* "nonce too low", or a pending transaction it may not replace.
Refused ==
    /\ pc = "broadcast"
    /\ account < AccountNonce \/ pool \cap SameNonce(account) # {}
    /\ Return("unknown")
    /\ UNCHANGED <<chainVars, nonce, tx, counted, faults>>

\* Mutant: only a transaction without a receipt is given up.
ExpiredMutant == late /\ ~Mined(tx)

\* Head of the loop: `Instant::now() >= deadline`.
Expired == late

TimedOut ==
    /\ pc = "receipt" /\ Expired
    /\ Return("unknown")
    /\ UNCHANGED <<chainVars, nonce, tx, counted, faults>>

\* Mutant: a mined transaction counts whatever its status.
SucceededMutant(t) == TRUE

\* "status": "0x1"
Succeeded(t) == t \in good

\* A null receipt: sleep and poll again.  "0x0": "transaction reverted".
PollReceipt ==
    /\ pc = "receipt" /\ ~Expired
    /\ \/ /\ ~Mined(tx)
          /\ UNCHANGED <<pc, account, seen, late, answer>>
       \/ /\ Mined(tx) /\ Succeeded(tx)
          /\ seen' = place[tx]
          /\ pc' = "head"
          /\ UNCHANGED <<account, late, answer>>
       \/ /\ Mined(tx) /\ ~Succeeded(tx)
          /\ Return("failed")
    /\ UNCHANGED <<chainVars, nonce, tx, counted, faults>>

\* Mutant: one confirmation too few.
DeepMutant(h, b) == Depth(h, b) + 1 >= Confirmations

Deep(h, b) == Depth(h, b) >= Confirmations

\* Deep enough: the fee is counted if the receipt has one, and the balance is
\* read for the estimate of the transactions left.  Otherwise sleep and poll.
PollHead ==
    /\ pc = "head"
    /\ \/ /\ Deep(head, seen)
          /\ \/ counted' = counted + 1 /\ pc' = "balance" 
                /\ UNCHANGED <<account, seen, late, answer>>
             \/ Return("landed") /\ UNCHANGED counted
       \/ /\ ~Deep(head, seen)
          /\ pc' = "receipt" /\ seen' = 0
          /\ UNCHANGED <<account, late, answer, counted>>
    /\ UNCHANGED <<chainVars, nonce, tx, faults>>

\* Mutant: without the balance the call fails.
AfterBalanceMutant(read) == IF read THEN "landed" ELSE "unknown"

\* A balance that cannot be read is only warned about.
AfterBalance(read) == "landed"

ReadBalance ==
    /\ pc = "balance"
    /\ \/ Return(AfterBalance(TRUE)) /\ UNCHANGED faults
       \/ /\ faults < MaxFaults /\ faults' = faults + 1
          /\ Return(AfterBalance(FALSE))
    /\ UNCHANGED <<chainVars, nonce, tx, counted>>

----------------------------------------------------------------------------
\* What goes wrong.

Fault == faults < MaxFaults /\ faults' = faults + 1

\* An RPC fails or its answer has the wrong shape: `?`.  Before the broadcast
\* the node may also refuse to estimate the gas of a call that would revert.
RpcFails ==
    /\ pc \in {"nonce", "broadcast", "receipt", "head"}
    /\ Fault
    /\ Return("unknown")
    /\ UNCHANGED <<chainVars, nonce, tx, counted>>

\* The node takes the transaction and the answer is lost.
BroadcastLost ==
    /\ pc = "broadcast"
    /\ Join
    /\ Fault
    /\ Return("unknown")
    /\ UNCHANGED <<head, peak, place, good, taken, tx, counted>>

DeadlinePasses ==
    /\ pc \in {"receipt", "head"} /\ ~late
    /\ late' = TRUE
    /\ UNCHANGED <<chainVars, nonce, pc, tx, account, seen, answer, counted, faults>>

----------------------------------------------------------------------------
\* The EVM chain.

Grow ==
    /\ head < MaxBlocks
    /\ head' = head + 1
    /\ peak' = IF peak > head THEN peak ELSE head + 1

EmptyBlock ==
    /\ Grow
    /\ UNCHANGED <<place, good, pool, taken, clientVars, faults>>

\* A block with the next transaction of the account, which succeeds or reverts.
MineTx ==
    /\ Grow
    /\ \E t \in pool :
           /\ nonce[t] = AccountNonce
           /\ place' = [place EXCEPT ![t] = head + 1]
           /\ pool' = pool \ SameNonce(nonce[t])
           /\ good' \in {good \cup {t}, good \ {t}}
    /\ UNCHANGED <<taken, clientVars, faults>>

\* The newest blocks down to h are replaced; their transactions return to the
\* mempool, or are lost with them.
Reorg ==
    /\ \E h \in 0..(head - 1) :
           /\ h + MaxReorg >= peak
           /\ head' = h
           /\ place' = [t \in TxId |-> IF place[t] > h THEN 0 ELSE place[t]]
           /\ taken' = taken \cup {t \in TxId : place[t] > h}
           /\ \E back \in SUBSET {t \in TxId : place[t] > h} : pool' = pool \cup back
    /\ UNCHANGED <<peak, good, clientVars, faults>>

DropTx ==
    /\ Fault
    /\ \E t \in pool : pool' = pool \ {t}
    /\ UNCHANGED <<head, peak, place, good, taken, clientVars>>

----------------------------------------------------------------------------
Init ==
    /\ head = 0 /\ peak = 0
    /\ place = [t \in TxId |-> 0]
    /\ good = {} /\ pool = {} /\ taken = {}
    /\ nonce = [t \in TxId |-> -1]
    /\ pc = "idle" /\ tx = 0 /\ account = 0 /\ seen = 0 /\ late = FALSE
    /\ answer = [t \in TxId |-> "none"]
    /\ counted = 0
    /\ faults = 0

Waiting == TimedOut \/ PollReceipt \/ PollHead

Client == Call \/ ReadNonce \/ Broadcast \/ Refused \/ Waiting \/ ReadBalance

Misfortune == RpcFails \/ BroadcastLost \/ DeadlinePasses

EvmChain == EmptyBlock \/ MineTx \/ Reorg \/ DropTx

Next == Client \/ Misfortune \/ EvmChain

Spec == Init /\ [][Next]_vars

\* A poll is answered or fails within the HTTP client's own limit, and time
\* passes.  Nothing is assumed of send_transaction, which has no limit.
Fairness == WF_vars(Waiting \/ ReadBalance) /\ WF_vars(DeadlinePasses)

FairSpec == Spec /\ Fairness

----------------------------------------------------------------------------
\* What the sync engine is promised.

Effect ==
    [t \in TxId |->
        CASE Mined(t) /\ t \in good  -> "landed"
          [] Mined(t) /\ t \notin good -> "failed"
          [] ~Mined(t) /\ t \in pool -> "pending"
          [] ~Mined(t) /\ t \notin pool /\ nonce[t] = -1 -> "none"
          [] ~Mined(t) /\ t \notin pool /\ nonce[t] # -1 -> "gone"]

Promise == INSTANCE Submission WITH effect <- Effect

\* The client implements Submission: an answer "landed" or "failed" was true of
\* the chain, nothing is sent twice or after the call returned, and only a
\* reorganisation makes an answer untrue.
KeepsPromise == Promise!Spec

\* A call that reported success left its transaction in the chain, executed and
\* as deep as EVM_TX_CONFIRMATIONS asks, unless a reorganisation took it back.
\* The two reads may see two chains, the second one shorter than before.
SuccessIsDeep ==
    \A t \in TxId : answer[t] = "landed" /\ t \notin taken =>
        Mined(t) /\ t \in good /\ Depth(peak, place[t]) >= Confirmations

\* No transaction is counted in the metrics whose call does not report success:
\* a failed read of the balance, in particular, takes nothing back.
CountedIsReported ==
    counted <= Cardinality({t \in TxId : answer[t] = "landed"})
                   + (IF pc = "balance" THEN 1 ELSE 0)

\* "Hard stop for receipt polling": every wait for a receipt ends, whatever
\* became of the transaction.
WaitEnds == pc = "receipt" ~> pc = "idle"
=============================================================================
