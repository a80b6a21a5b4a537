----------------------------- MODULE Submission -----------------------------
(***************************************************************************)
(* What submit_header, submit_short_fork and submit_fork promise the sync  *)
(* engine ("Only return once mined deep enough: sync loop assumes relay    *)
(* state reflects this tx").  Calls come one after the other.  Each puts   *)
(* at most one transaction on its way and returns with an answer:          *)
(*    landed   the transaction executed                                    *)
(*    failed   it was mined and reverted                                   *)
(*    unknown  nothing is promised: it may be nowhere, pending or mined    *)
(* What is mined stays as it is unless the chain takes it back, and then   *)
(* only the chain is to blame for an answer that is no longer true.        *)
(***************************************************************************)
EXTENDS Integers

CONSTANT TxId  \* the calls: numbers, in their order

VARIABLES
    effect,  \* per transaction: none, pending, gone, landed, failed
    answer,  \* per call: none, landed, failed, unknown
    taken    \* the transactions a reorganisation has taken out of the chain

vars == <<effect, answer, taken>>

Effects == {"none", "pending", "gone", "landed", "failed"}
Answers == {"none", "landed", "failed", "unknown"}

TypeOK ==
    /\ effect \in [TxId -> Effects] /\ answer \in [TxId -> Answers]
    /\ taken \subseteq TxId

Init ==
    /\ effect = [t \in TxId |-> "none"]
    /\ answer = [t \in TxId |-> "none"]
    /\ taken = {}

OthersStay(t) ==
    \A u \in TxId \ {t} :
        \/ effect'[u] = effect[u]
        \/ effect[u] = "pending" /\ effect'[u] = "gone"

InProgress(t) ==
    /\ answer[t] = "none"
    /\ \A u \in TxId : u < t => answer[u] # "none"

\* Only the call in progress sends, and only once; the news of it may be lost.
Send(t) ==
    /\ InProgress(t)
    /\ effect[t] = "none"
    /\ effect' \in [TxId -> Effects]
    /\ effect'[t] = "pending"
    /\ OthersStay(t)
    /\ answer' \in {answer, [answer EXCEPT ![t] = "unknown"]}
    /\ UNCHANGED taken

Resolve(t) ==
    /\ effect[t] = "pending"
    /\ effect' \in [TxId -> Effects]
    /\ effect'[t] \in {"landed", "failed", "gone"}
    /\ OthersStay(t)
    /\ UNCHANGED <<answer, taken>>

Answer(t) ==
    /\ InProgress(t)
    /\ \E a \in {"landed", "failed", "unknown"} :
           /\ a \in {"landed", "failed"} => effect[t] = a \/ t \in taken
           /\ answer' = [answer EXCEPT ![t] = a]
    /\ UNCHANGED <<effect, taken>>

\* A reorganisation puts transactions back into the mempool or drops them.
TakeBack ==
    /\ \E T \in SUBSET {t \in TxId : effect[t] \in {"landed", "failed"}} :
           /\ effect' \in [TxId -> Effects]
           /\ \A t \in TxId :
                  IF t \in T THEN effect'[t] \in {"pending", "gone"} ELSE effect'[t] = effect[t]
           /\ taken' = taken \cup T
    /\ UNCHANGED answer

Next == TakeBack \/ \E t \in TxId : Send(t) \/ Resolve(t) \/ Answer(t)

Spec == Init /\ [][Next]_vars
=============================================================================
