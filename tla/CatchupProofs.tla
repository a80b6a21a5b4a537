---------------------------- MODULE CatchupProofs ----------------------------
(***************************************************************************)
(* process_catchup_range submits every height of its range once and in     *)
(* order, in batches sized by their distance from the tip: for every width *)
(* of the height type, every range, batch size and threshold, and any      *)
(* number of retries.                                                      *)
(*                                                                         *)
(* The argument: every batch starts where the one before ended and ends in *)
(* the range (BatchInRange), below the largest height, so that none of the *)
(* saturating operations saturates.  The waits double until the shift has  *)
(* reached its cap (BackoffGrows).                                         *)
(***************************************************************************)
EXTENDS CatchupLoop, TLAPS

RangeOK ==
    /\ to \in Nat /\ to < MaxU64
    /\ limit \in Nat /\ limit >= 1 /\ liveLag \in Nat
    /\ From \in Nat /\ From <= to

\* The loop between two batches.
LoopOK ==
    /\ current \in Nat /\ From <= current /\ current <= to + 1
    /\ sent \in Seq(Nat \X Nat)
    /\ submitted = current - From
    /\ sent = <<>> => current = From
    /\ sent # <<>> => current = sent[Len(sent)][2] + 1

\* Every batch that landed, by its place.
BatchesOK ==
    \A i \in 1..Len(sent) :
        /\ sent[i][1] = IF i = 1 THEN From ELSE sent[i - 1][2] + 1
        /\ sent[i][1] <= sent[i][2] /\ sent[i][2] <= to

IInv == RangeOK /\ LoopOK /\ BatchesOK /\ SizeFollowsLag

----------------------------------------------------------------------------
\* The batch that starts at `from`: not empty, in the range, and of the size the
\* distance to the tip asks for.
LEMMA BatchInRange ==
    ASSUME NEW m \in Nat, NEW n \in Nat, NEW l \in Nat, NEW lag \in Nat,
           m <= n, n < MaxU64, l >= 1
    PROVE  LET end == BatchEnd(m, n, l, lag)
               left == n - m + 1
               size == end - m + 1
           IN  /\ end \in Nat /\ m <= end /\ end <= n
               /\ size <= l
               /\ left <= lag => size = 1
               /\ left > lag => size = l \/ end = n
  <1>1. MaxU64 \in Nat
    BY WidthAssumption
  <1>2. Remaining(m, n) = n - m + 1
    BY <1>1 DEF Remaining, SatAdd, SatSub, Least, Greatest
  <1>3. CASE n - m + 1 > lag
    <2>1. BatchSize(Remaining(m, n), l, lag) = IF n - m + 1 <= l THEN n - m + 1 ELSE l
      BY <1>2, <1>3 DEF BatchSize, Least, Greatest
    <2>. QED
      BY <1>1, <1>3, <2>1 DEF BatchEnd, SatAdd, SatSub, Least, Greatest
  <1>4. CASE n - m + 1 <= lag
    <2>1. BatchSize(Remaining(m, n), l, lag) = 1
      BY <1>2, <1>4 DEF BatchSize
    <2>. QED
      BY <1>1, <1>4, <2>1 DEF BatchEnd, SatAdd, SatSub, Least, Greatest
  <1>. QED
    BY <1>3, <1>4

LEMMA InitOK == ASSUME Init PROVE IInv
  <1>1. MaxU64 \in Nat
    BY WidthAssumption
  <1>2. RangeOK
    <2>1. From <= to /\ relayTip < to
      BY DEF Init, RangeExists, From
    <2>2. From \in Nat
      BY <1>1 DEF Init, Tips, From, FromHeight, ResumeHeight, SatAdd, Least, Greatest
    <2>. QED
      BY <1>1, <2>1, <2>2 DEF Init, RangeOK, Tips
  <1>3. LoopOK
    BY <1>2 DEF Init, LoopOK, RangeOK
  <1>4. BatchesOK /\ SizeFollowsLag
    BY DEF Init, BatchesOK, SizeFollowsLag
  <1>. QED
    BY <1>2, <1>3, <1>4 DEF IInv

\* A failed attempt leaves range, place and batches alone.
LEMMA FailureOK == ASSUME IInv, UNCHANGED <<settings, current, submitted, sent>> PROVE IInv'
  <1>1. UNCHANGED From
    BY DEF settings, From
  <1>. QED
    BY <1>1 DEF IInv, RangeOK, LoopOK, BatchesOK, SizeFollowsLag, settings

LEMMA LandsOK == ASSUME IInv, BatchLands PROVE IInv'
  <1>. DEFINE n == Len(sent)
  <1>0. /\ to \in Nat /\ to < MaxU64 /\ limit \in Nat /\ limit >= 1 /\ liveLag \in Nat
        /\ From \in Nat /\ current \in Nat /\ From <= current
        /\ submitted = current - From
    BY DEF IInv, RangeOK, LoopOK
  <1>1. UNCHANGED <<From, to, limit, liveLag>>
    BY DEF BatchLands, settings, From
  <1>2. RangeOK'
    BY <1>1 DEF IInv, RangeOK
  <1>3. /\ End \in Nat /\ current <= End /\ End <= to /\ current <= to
        /\ End - current + 1 <= limit
        /\ to - current + 1 <= liveLag => End - current + 1 = 1
        /\ to - current + 1 > liveLag => End - current + 1 = limit \/ End = to
    <2>1. current <= to
      BY DEF BatchLands, Running
    <2>. QED
      BY <1>0, <2>1, BatchInRange DEF End
  <1>4. /\ sent \in Seq(Nat \X Nat) /\ n \in Nat
        /\ sent' = Append(sent, <<current, End>>)
    BY DEF IInv, LoopOK, BatchLands
  <1>5. /\ sent' \in Seq(Nat \X Nat) /\ Len(sent') = n + 1
        /\ \A i \in 1..n : sent'[i] = sent[i]
        /\ sent'[n + 1] = <<current, End>>
    BY <1>3, <1>4 DEF IInv, LoopOK
  <1>6. current' = End + 1 /\ submitted' = submitted + (End - current + 1)
    <2>1. MaxU64 \in Nat
      BY WidthAssumption
    <2>2. SatAdd(End, 1) = End + 1 /\ SatSub(End, current) = End - current
      BY <1>0, <1>3, <2>1 DEF SatAdd, SatSub, Least, Greatest
    <2>3. SatAdd(End - current, 1) = End - current + 1
      BY <1>0, <1>3, <2>1 DEF SatAdd, Least
    <2>4. SatAdd(submitted, End - current + 1) = submitted + (End - current + 1)
      BY <1>0, <1>3, <2>1 DEF SatAdd, Least
    <2>. QED
      BY <2>2, <2>3, <2>4 DEF BatchLands, NextCurrent
  <1>7. LoopOK'
    <2>1. sent' # <<>> /\ sent'[Len(sent')][2] = End
      BY <1>4, <1>5
    <2>. QED
      <3>1. /\ current' \in Nat /\ From <= current' /\ current' <= to + 1
            /\ submitted' = current' - From
        BY <1>0, <1>3, <1>6
      <3>. QED
        BY <1>1, <1>5, <1>6, <2>1, <3>1 DEF LoopOK
  <1>8. BatchesOK'
    <2>1. ASSUME NEW i \in 1..n
          PROVE  /\ sent'[i][1] = IF i = 1 THEN From ELSE sent'[i - 1][2] + 1
                 /\ sent'[i][1] <= sent'[i][2] /\ sent'[i][2] <= to
      <3>1. /\ sent[i][1] = IF i = 1 THEN From ELSE sent[i - 1][2] + 1
            /\ sent[i][1] <= sent[i][2] /\ sent[i][2] <= to
        BY DEF IInv, BatchesOK
      <3>2. sent'[i] = sent[i] /\ (i # 1 => i - 1 \in 1..n)
        BY <1>4, <1>5
      <3>3. i # 1 => sent'[i - 1] = sent[i - 1]
        BY <1>5, <3>2
      <3>. QED
        BY <3>1, <3>2, <3>3
    <2>2. /\ sent'[n + 1][1] = IF n + 1 = 1 THEN From ELSE sent'[n + 1 - 1][2] + 1
          /\ sent'[n + 1][1] <= sent'[n + 1][2] /\ sent'[n + 1][2] <= to
      <3>1. CASE n = 0
        BY <1>3, <1>4, <1>5, <3>1 DEF IInv, LoopOK
      <3>2. CASE n # 0
        BY <1>3, <1>4, <1>5, <3>2 DEF IInv, LoopOK
      <3>. QED
        BY <3>1, <3>2
    <2>3. \A i \in 1..Len(sent') : i \in 1..n \/ i = n + 1
      BY <1>4, <1>5
    <2>. QED
      BY <1>1, <2>1, <2>2, <2>3 DEF BatchesOK
  <1>9. SizeFollowsLag'
    <2>1. \A i \in 1..Len(sent') : i \in 1..n \/ i = n + 1
      BY <1>4, <1>5
    <2>. QED
      BY <1>1, <1>3, <1>4, <1>5, <2>1 DEF IInv, SizeFollowsLag
  <1>. QED
    BY <1>2, <1>7, <1>8, <1>9 DEF IInv

\* In every behaviour the batches fit together and stay in the range.
THEOREM LoopInductive == Spec => []IInv
  <1>1. Init => IInv
    BY InitOK
  <1>2. IInv /\ [Next]_vars => IInv'
    BY LandsOK, FailureOK DEF Next, RetryableFailure, vars
  <1>. QED
    BY <1>1, <1>2, PTL DEF Spec

\* process_catchup_range: whatever the range, the batch size, the threshold and
\* the retries, every height of the range is submitted once and in order.
THEOREM CoverIsExact == Spec => []ExactCover
  <1>1. IInv => ExactCover
    <2>. SUFFICES ASSUME IInv PROVE ExactCover
      OBVIOUS
    <2>1. sent \in Seq(Nat \X Nat) /\ Len(sent) \in Nat /\ (sent = <<>> <=> Len(sent) = 0)
      BY DEF IInv, LoopOK
    <2>2. ~Running => sent # <<>> /\ sent[Len(sent)][2] = to
      <3>. SUFFICES ASSUME ~Running PROVE sent # <<>> /\ sent[Len(sent)][2] = to
        OBVIOUS
      <3>1. current = to + 1 /\ sent # <<>>
        BY DEF Running, IInv, LoopOK, RangeOK
      <3>2. Len(sent) \in 1..Len(sent) /\ sent[Len(sent)] \in Nat \X Nat
        BY <2>1, <3>1
      <3>. QED
        BY <3>1, <3>2 DEF IInv, LoopOK, RangeOK
    <2>. QED
      BY <2>1, <2>2 DEF IInv, LoopOK, BatchesOK, ExactCover
  <1>. QED
    BY <1>1, LoopInductive, PTL

\* choose_submission_batch_size: no transaction is larger than the setting; a batch that
\* starts with at most live_lag_threshold headers left is one header, and one that starts
\* further from the tip is as full as the setting and the range allow.
THEOREM SizesFollowLag == Spec => []SizeFollowsLag
  BY LoopInductive, PTL DEF IInv
----------------------------------------------------------------------------
\* The wait before this attempt is that of the one before it.
WaitOK ==
    /\ attempt \in Nat /\ attempt >= 1
    /\ delay = IF attempt = 1 THEN 0 ELSE BackoffDelay(attempt - 1)

Shifted(n) == 2^n

LEMMA Doubling ==
    /\ Shifted(0) = 1 /\ Shifted(1) = 2 /\ Shifted(2) = 4 /\ Shifted(3) = 8
    /\ Shifted(4) = 16 /\ Shifted(5) = 32
  BY DEF Shifted

\* The shift counts up to five and stays there.
LEMMA BackoffGrows ==
    ASSUME NEW a \in Nat, a >= 1
    PROVE  /\ BackoffDelay(a) \in 1..32
           /\ a = 1 => BackoffDelay(a) = 1
           /\ a > 1 => /\ BackoffDelay(a - 1) <= BackoffDelay(a)
                       /\ BackoffDelay(a) <= 2 * BackoffDelay(a - 1)
  <1>. DEFINE shift(n) == Least(SatSub(n, 1), 5)
  <1>1. /\ shift(a) \in 0..5 /\ (a = 1 => shift(a) = 0)
        /\ a > 1 => /\ shift(a - 1) \in 0..5
                    /\ shift(a) = shift(a - 1) + 1 \/ (shift(a) = 5 /\ shift(a - 1) = 5)
    BY DEF Least, SatSub, Greatest
  <1>2. BackoffDelay(a) = Shifted(shift(a)) /\ BackoffDelay(a - 1) = Shifted(shift(a - 1))
    BY DEF BackoffDelay, Shifted
  <1>. HIDE DEF shift
  <1>3. \A k \in 0..5 : Shifted(k) \in 1..32
    BY Doubling
  <1>4. \A k \in 0..4 : Shifted(k) <= Shifted(k + 1) /\ Shifted(k + 1) <= 2 * Shifted(k)
    <2>. SUFFICES ASSUME NEW k \in 0..4 PROVE Shifted(k) <= Shifted(k + 1) /\ Shifted(k + 1) <= 2 * Shifted(k)
      OBVIOUS
    <2>1. k = 0 \/ k = 1 \/ k = 2 \/ k = 3 \/ k = 4
      OBVIOUS
    <2>. QED
      BY <2>1, Doubling
  <1>5. CASE a = 1
    BY <1>1, <1>2, <1>3, <1>5, Doubling
  <1>6. CASE a > 1 /\ shift(a) = shift(a - 1) + 1
    <2>1. shift(a - 1) \in 0..4
      BY <1>1, <1>6
    <2>. QED
      BY <1>1, <1>2, <1>3, <1>4, <1>6, <2>1
  <1>7. CASE a > 1 /\ shift(a) = 5 /\ shift(a - 1) = 5
    BY <1>2, <1>7, Doubling
  <1>. QED
    BY <1>1, <1>5, <1>6, <1>7

LEMMA WaitInit == ASSUME Init PROVE WaitOK
  BY DEF Init, WaitOK

LEMMA WaitStep == ASSUME WaitOK, [Next]_vars PROVE WaitOK'
  <1>1. CASE BatchLands
    BY <1>1 DEF BatchLands, WaitOK
  <1>2. CASE RetryableFailure
    <2>1. attempt \in Nat /\ attempt >= 1
      BY DEF WaitOK
    <2>2. attempt' = attempt + 1 /\ delay' = BackoffDelay(attempt)
      BY <1>2 DEF RetryableFailure
    <2>3. attempt' \in Nat /\ attempt' >= 1 /\ attempt' # 1 /\ attempt' - 1 = attempt
      BY <2>1, <2>2
    <2>. QED
      BY <2>2, <2>3 DEF WaitOK
  <1>3. CASE UNCHANGED vars
    BY <1>3 DEF vars, WaitOK
  <1>. QED
    BY <1>1, <1>2, <1>3 DEF Next

\* backoff_delay_secs in process_catchup_range: the waits of one batch never
\* shrink, double at most and stay at 32 seconds or below, however often the
\* batch is retried.
THEOREM WaitsAreBounded == Spec => BackoffBounded
  <1>1. ASSUME WaitOK, [Next]_vars, delay' # 0
        PROVE  \/ /\ delay' \in 1..32
                  /\ delay <= delay' /\ delay' <= Greatest(1, 2 * delay)
               \/ UNCHANGED vars
    <2>1. CASE UNCHANGED vars
      BY <2>1
    <2>2. CASE BatchLands
      BY <1>1, <2>2 DEF BatchLands
    <2>3. CASE RetryableFailure
      <3>1. attempt \in Nat /\ attempt >= 1 /\ delay' = BackoffDelay(attempt)
        BY <1>1, <2>3 DEF WaitOK, RetryableFailure
      <3>2. CASE attempt = 1
        <4>1. delay = 0 /\ delay' = 1
          BY <1>1, <3>1, <3>2, BackoffGrows DEF WaitOK
        <4>. QED
          BY <4>1 DEF Greatest
      <3>3. CASE attempt > 1
        <4>1. delay = BackoffDelay(attempt - 1) /\ attempt - 1 \in Nat /\ attempt - 1 >= 1
          BY <1>1, <3>1, <3>3 DEF WaitOK
        <4>2. delay \in 1..32 /\ delay' \in 1..32 /\ delay <= delay' /\ delay' <= 2 * delay
          BY <3>1, <3>3, <4>1, BackoffGrows
        <4>. QED
          BY <4>2 DEF Greatest
      <3>. QED
        BY <3>1, <3>2, <3>3
    <2>. QED
      BY <1>1, <2>1, <2>2, <2>3 DEF Next
  <1>2. WaitOK /\ [Next]_vars =>
            [delay' # 0 => /\ delay' \in 1..32
                           /\ delay <= delay' /\ delay' <= Greatest(1, 2 * delay)]_vars
    BY <1>1
  <1>3. Init => WaitOK
    BY WaitInit
  <1>4. WaitOK /\ [Next]_vars => WaitOK'
    BY WaitStep
  <1>. QED
    BY <1>2, <1>3, <1>4, PTL DEF Spec, BackoffBounded
=============================================================================
