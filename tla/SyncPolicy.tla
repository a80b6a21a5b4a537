----------------------------- MODULE SyncPolicy -----------------------------
(***************************************************************************)
(* The pure arithmetic of src/sync_engine.rs: which heights a poll cycle   *)
(* submits and how it cuts them into transactions.  Heights are u64 in the *)
(* code and its additions and subtractions saturate; MaxU64 is the largest *)
(* value of the type, a parameter so that TLC can stand on the boundary.   *)
(***************************************************************************)
EXTENDS Integers

CONSTANT MaxU64

ASSUME WidthAssumption == MaxU64 \in Nat

Least(m, n) == IF m <= n THEN m ELSE n
Greatest(m, n) == IF m <= n THEN n ELSE m

SatAdd(m, n) == Least(m + n, MaxU64)
SatSub(m, n) == Greatest(m - n, 0)

\* A saved state makes the relay tip the only anchor; without one START_HEIGHT
\* (0 when unset) may move the start up.
ResumeHeight(relayTip, startHeight, hasState) ==
    LET next == SatAdd(relayTip, 1)
    IN  IF hasState THEN next ELSE Greatest(startHeight, next)

FromHeight(relayTip, resume) == Greatest(resume, SatAdd(relayTip, 1))

\* compute_catchup_range fails when nothing is left to submit.
RangeExists(relayTip, bitcoinTip, resume) ==
    /\ relayTip < bitcoinTip
    /\ FromHeight(relayTip, resume) <= bitcoinTip

\* Mutant: the threshold itself counts as far behind.
BatchSizeMutant(remaining, limit, liveLag) ==
    IF remaining >= liveLag THEN Least(remaining, Greatest(limit, 1)) ELSE 1

\* Far behind: up to `limit` headers at once.  Near the tip: one at a time.
BatchSize(remaining, limit, liveLag) ==
    IF remaining > liveLag THEN Least(remaining, Greatest(limit, 1)) ELSE 1

Remaining(from, to) == SatAdd(SatSub(to, from), 1)

\* The last height of the transaction that starts at `from`.
BatchEnd(from, to, limit, liveLag) ==
    Least(SatAdd(from, SatSub(BatchSize(Remaining(from, to), limit, liveLag), 1)), to)

UsesShortFork(forkPoint, end, shortForkLimit) == end - forkPoint <= shortForkLimit

\* Mutant: the last batch of the fork is not cut at the end.
ForkBatchEndMutant(parent, end, limit) == SatAdd(parent, limit)

\* The last height of the fork transaction whose parent is at `parent`.
ForkBatchEnd(parent, end, limit) == Least(SatAdd(parent, limit), end)

\* Mutant: the shift is not capped.
BackoffDelayMutant(attempt) == 2 ^ SatSub(attempt, 1)

\* Seconds slept after the given attempt: 1, 2, 4, ... 32, 32, ...
BackoffDelay(attempt) == 2 ^ Least(SatSub(attempt, 1), 5)
=============================================================================
