----------------------------- MODULE CatchupLoop -----------------------------
(***************************************************************************)
(* One call of process_catchup_range (src/sync_engine.rs) on every range   *)
(* the resume policy can hand it, with every batch size and live-lag       *)
(* setting, up to the largest value of the height type.  A submission      *)
(* either lands or fails with a retryable error; then the loop sleeps and  *)
(* tries the same batch again.  What the batches hold is SyncEngine's.     *)
(***************************************************************************)
EXTENDS SyncPolicy, Sequences

CONSTANT MaxRetries  \* bound on the retryable failures of one call

ASSUME RetryAssumption == MaxRetries \in Nat

VARIABLES
    relayTip, startHeight, hasState,  \* what the range is computed from
    limit, liveLag,                   \* catchup_batch_size, live_lag_threshold
    to,                               \* to_height: the Bitcoin tip
    current,                          \* current_height
    attempt,                          \* of the batch in hand
    delay,                            \* seconds the loop sleeps before this attempt
    submitted, retries,               \* SyncProgress
    sent                              \* history: the batches that landed

settings == <<relayTip, startHeight, hasState, limit, liveLag, to>>
vars == <<settings, current, attempt, delay, submitted, retries, sent>>

From == FromHeight(relayTip, ResumeHeight(relayTip, startHeight, hasState))

\* Heights below the very largest one: `current_height` must be able to pass
\* the end of the range.
Tips == 0..(MaxU64 - 1)

Init ==
    /\ relayTip \in Tips /\ to \in Tips
    /\ startHeight \in Tips /\ hasState \in BOOLEAN
    /\ limit \in 1..MaxU64 /\ liveLag \in 0..MaxU64
    /\ RangeExists(relayTip, to, ResumeHeight(relayTip, startHeight, hasState))
    /\ current = From
    /\ attempt = 1 /\ delay = 0
    /\ submitted = 0 /\ retries = 0
    /\ sent = <<>>

\* Mutant: the range is half-open.
RunningMutant == current < to

Running == current <= to

End == BatchEnd(current, to, limit, liveLag)

\* Mutant: the batch is over when its last header is the next one to send.
NextCurrentMutant == End

NextCurrent == SatAdd(End, 1)

BatchLands ==
    /\ Running
    /\ sent' = Append(sent, <<current, End>>)
    /\ submitted' = SatAdd(submitted, SatAdd(SatSub(End, current), 1))
    /\ current' = NextCurrent
    /\ attempt' = 1 /\ delay' = 0
    /\ UNCHANGED <<settings, retries>>

RetryableFailure ==
    /\ Running
    /\ retries < MaxRetries
    /\ retries' = retries + 1
    /\ delay' = BackoffDelay(attempt)
    /\ attempt' = attempt + 1
    /\ UNCHANGED <<settings, current, submitted, sent>>

Next == BatchLands \/ RetryableFailure

Spec == Init /\ [][Next]_vars

FairSpec == Spec /\ WF_vars(BatchLands)

----------------------------------------------------------------------------
\* The batches that landed are the heights From .. current-1, each once and in
\* order; all of From .. to when the loop is over, and the count logged and
\* exported as a metric is theirs.
ExactCover ==
    /\ \A i \in 1..Len(sent) :
           /\ sent[i][1] = IF i = 1 THEN From ELSE sent[i - 1][2] + 1
           /\ sent[i][1] <= sent[i][2] /\ sent[i][2] <= to
    /\ current = IF sent = <<>> THEN From ELSE sent[Len(sent)][2] + 1
    /\ ~Running => sent[Len(sent)][2] = to
    /\ submitted = current - From

\* What a batch holds is decided where it starts: with at most liveLag headers left it
\* is one header; further from the tip it is as full as `limit` and the range allow, the
\* headers next to the tip included.  No transaction carries more than `limit`.
SizeFollowsLag ==
    \A i \in 1..Len(sent) :
        LET left == to - sent[i][1] + 1
            size == sent[i][2] - sent[i][1] + 1
        IN  /\ size <= limit
            /\ left <= liveLag => size = 1
            /\ left > liveLag => size = limit \/ sent[i][2] = to

\* The waits of one batch never shrink, double at most, and stay at 32 seconds
\* or below however often the batch is retried.
BackoffBounded ==
    [][delay' # 0 => /\ delay' \in 1..32
                     /\ delay <= delay' /\ delay' <= Greatest(1, 2 * delay)]_vars

\* The loop ends, on every range and with every setting.
Terminates == <>(current = to + 1)
=============================================================================
