--------------------------- MODULE StatusExporter ----------------------------
(***************************************************************************)
(* src/metrics.rs between the sync loop, which writes the gauges and       *)
(* counters one by one, and the exporter thread, which reads them one by   *)
(* one to answer a scrape.  Of the loop (module SyncEngine has its reads   *)
(* and transactions) only the order of its writes and what ends a cycle    *)
(* are here.                                                               *)
(*                                                                         *)
(* The registry lives in the process and is gone with it.  An order of     *)
(* the reads is not promised: /status has one, Registry::gather another.   *)
(***************************************************************************)
EXTENDS Integers

CONSTANTS
    Views,      \* sets of metrics, of which a behaviour follows one
    MaxHeight,  \* bound on the heights of both chains
    Cap         \* bound: a counter that reaches it stays there

Gauge == {"bitcoin", "relay", "lag", "balance"}
Outcome == {"progressed", "up_to_date", "errors"}
Metric == Gauge \cup Outcome \cup {"cycles", "headers", "retries"}

ASSUME ExporterAssumption ==
    /\ Views \subseteq SUBSET Metric
    /\ {MaxHeight, Cap} \subseteq Nat
    /\ MaxHeight > 0

VARIABLES
    bitcoin, relay,  \* heights: the node's tip, and the relay's
    funds,           \* transactions the wallet can pay: Few or Many
    memory,          \* the registry, of the metrics in `shown`
    pc,              \* what the loop does next
    seen,            \* the tips of this cycle; in follow_reorg its own read of the relay's
    at,              \* the height up to which this cycle's batches are confirmed
    fork,            \* fork_point
    moved,           \* this cycle's writes are those of follow_reorg
    held,            \* reorg_hold
    submitted, retried,  \* SyncProgress
    landed,          \* history: headers of this process that were confirmed on the contract
    peak,            \* history: the highest the relay has been in this process's time
    shown,           \* the metrics this behaviour follows: the code only writes the
                     \* registry, so the others make no difference to them
    unread, copy,    \* the answer the exporter is at
    report           \* the last answer of this process

world == <<bitcoin, relay, funds, peak>>
locals == <<seen, at, fork, moved, submitted, retried>>
loopVars == <<pc, locals, held>>
exporterVars == <<shown, unread, copy, report>>
vars == <<world, loopVars, exporterVars, memory, landed>>

\* What the wallet can pay for: fewer transactions than the alert's 25, or more.
\* A gauge that was never set is 0, neither.
Few == 1
Many == 2

Zero == [m \in shown |-> 0]
NoTips == [bitcoin |-> 0, relay |-> 0]

Capped(n, k) == IF n + k < Cap THEN n + k ELSE Cap

\* What will be added to a metric, or 0 if it is not followed.
Count(m, n, k) == IF m \in shown THEN Capped(n, k) ELSE 0

Set(m, n) == memory' = [x \in shown |-> IF x = m THEN n ELSE memory[x]]

Inc(m, k) == memory' = [x \in shown |-> IF x = m THEN Capped(memory[x], k) ELSE memory[x]]

\* Mutant: the difference is not saturating.
LagMutant == seen.bitcoin - seen.relay

Lag == IF seen.relay >= seen.bitcoin THEN 0 ELSE seen.bitcoin - seen.relay

TypeOK ==
    /\ bitcoin \in 1..MaxHeight /\ {relay, peak, at, fork} \subseteq 0..MaxHeight
    /\ funds \in {Few, Many}
    /\ memory \in [shown -> Nat] /\ copy \in [shown -> Nat] /\ report \in [shown -> Nat]
    /\ \A m \in shown \ Gauge : memory[m] <= Cap
    /\ shown \in Views /\ unread \subseteq shown \cap Gauge
    /\ pc \in {"starting", "probing", "sleep", "bitcoin_tip", "relay_tip", "set_bitcoin",
               "set_relay", "set_lag", "wallet", "decide", "batch", "branch",
               "count_progress", "count_headers", "count_retries", "failed", "exiting", "down"}
    /\ moved \in BOOLEAN
    /\ {submitted, retried} \subseteq 0..Cap

----------------------------------------------------------------------------
\* run_sync_loop and run_poll_cycle.

Goto(next) == pc' = next /\ UNCHANGED <<locals, held>>

ForgetCycle ==
    /\ seen' = NoTips /\ at' = 0 /\ fork' = 0 /\ moved' = FALSE
    /\ submitted' = 0 /\ retried' = 0

\* The next cycle, or the end of one; `result` is only logged.
CycleEnds(hold) == pc' = "sleep" /\ held' = hold /\ ForgetCycle

\* A cycle is counted before anything else is done.
BeginCycle ==
    /\ pc = "sleep"
    /\ Inc("cycles", 1)
    /\ Goto("bitcoin_tip")
    /\ UNCHANGED <<world, exporterVars, landed>>

\* Two RPCs, to two nodes.
ReadTips ==
    /\ \/ /\ pc = "bitcoin_tip"
          /\ seen' = [seen EXCEPT !.bitcoin = bitcoin] /\ pc' = "relay_tip"
       \/ /\ pc = "relay_tip"
          /\ seen' = [seen EXCEPT !.relay = relay] /\ pc' = "set_bitcoin"
    /\ UNCHANGED <<world, exporterVars, at, fork, moved, held, submitted, retried, memory, landed>>

RelayGauge == seen.relay

\* Mutant: the lag is left out.
LagGaugeMutant == IF "lag" \in shown THEN memory["lag"] ELSE 0

LagGauge == Lag

\* set_tip_gauges: three gauges, one after the other.
SetTipGauges ==
    /\ \/ /\ pc = "set_bitcoin" /\ Goto("set_relay")
          /\ Set("bitcoin", seen.bitcoin)
       \/ /\ pc = "set_relay" /\ Goto("set_lag")
          /\ Set("relay", RelayGauge)
       \/ /\ pc = "set_lag"
          /\ Set("lag", LagGauge)
          /\ IF moved THEN CycleEnds(held) ELSE Goto("wallet")
    /\ UNCHANGED <<world, exporterVars, landed>>


Balance == funds

\* refresh_wallet_balance_metrics: a balance that cannot be read leaves the
\* gauge, and the cycle goes on.
BalanceRead ==
    /\ pc = "wallet"
    /\ Set("balance", Balance)
    /\ Goto("decide")
    /\ UNCHANGED <<world, exporterVars, landed>>

BalanceNotRead ==
    /\ pc = "wallet"
    /\ Goto("decide")
    /\ UNCHANGED <<world, exporterVars, memory, landed>>

UpToDate ==
    /\ pc = "decide" /\ seen.relay >= seen.bitcoin
    /\ Inc("up_to_date", 1)
    /\ CycleEnds(held)
    /\ UNCHANGED <<world, exporterVars, landed>>

OnHold ==
    /\ pc = "decide" /\ seen.relay < seen.bitcoin /\ held = seen
    /\ CycleEnds(held)
    /\ UNCHANGED <<world, exporterVars, memory, landed>>

Wanted == pc = "decide" /\ seen.relay < seen.bitcoin /\ held # seen

StartRange ==
    /\ Wanted
    /\ pc' = "batch" /\ at' = seen.relay
    /\ UNCHANGED <<world, seen, fork, moved, held, submitted, retried, exporterVars, memory,
                   landed>>

\* The relay is at another height than before.
Reaches(height) == relay' = height /\ peak' = IF height > peak THEN height ELSE peak

\* process_catchup_range keeps a height of its own: a batch is confirmed if the
\* relay is still there, and reverts if it is not.
BatchLands ==
    /\ pc = "batch" /\ relay = at
    /\ \E n \in 1..(seen.bitcoin - at) :
           /\ Reaches(at + n) /\ at' = at + n
           /\ landed' = Count("headers", landed, n)
           /\ submitted' = Count("headers", submitted, n)
    /\ UNCHANGED <<bitcoin, funds, pc, seen, fork, moved, held, retried, exporterVars, memory>>

\* "transport failed" of either node, a node's limits, a confirmation that times
\* out: wait and try again, without a limit.  The transaction of a batch that
\* timed out may still land (RelayMoves).
BatchRetried ==
    /\ pc = "batch" /\ at < seen.bitcoin
    /\ retried' = Count("retries", retried, 1)
    /\ UNCHANGED <<world, pc, seen, at, fork, moved, held, submitted, exporterVars, memory,
                   landed>>

RangeDone ==
    /\ pc = "batch" /\ at >= seen.bitcoin
    /\ Goto("count_progress")
    /\ UNCHANGED <<world, exporterVars, memory, landed>>

\* Mutant: the progress of a reorg is counted by both functions.
ProgressMutant == IF moved THEN 2 ELSE 1

Progress == 1

\* After a reorg the retries are not counted, and the gauges are set instead.
CountProgress ==
    /\ \/ pc = "count_progress" /\ Inc("progressed", Progress) /\ Goto("count_headers")
       \/ /\ pc = "count_headers" /\ Inc("headers", submitted)
          /\ Goto(IF moved THEN "set_bitcoin" ELSE "count_retries")
       \/ pc = "count_retries" /\ Inc("retries", retried) /\ CycleEnds(held)
    /\ UNCHANGED <<world, exporterVars, landed>>

\* Mutant: the branch is counted with its fork point.
BranchMutant(from) == seen.bitcoin - from + 1

Branch(from) == seen.bitcoin - from

\* A batch or its save fails hard.  follow_reorg reads the relay's tip again and
\* finds where the chains part, below both tips.
FollowReorg ==
    /\ pc = "batch"
    /\ pc' = "branch"
    /\ seen' = [seen EXCEPT !.relay = relay]
    /\ \E h \in 0..MaxHeight : h < relay /\ h < seen.bitcoin /\ fork' = h /\ at' = h
    /\ UNCHANGED <<world, moved, held, submitted, retried, exporterVars, memory, landed>>

\* submit_branch, in one transaction or in several: a part of a fork leaves the
\* relay where it is, or takes it over, be it lower than before.
BranchLands ==
    /\ pc = "branch"
    /\ \E n \in 1..(seen.bitcoin - at) :
           /\ at' = at + n
           /\ landed' = Count("headers", landed, n)
           /\ Reaches(at + n) \/ UNCHANGED <<relay, peak>>
    /\ UNCHANGED <<bitcoin, funds, pc, seen, fork, moved, held, submitted, retried,
                   exporterVars, memory>>

\* Mutant: that the last transaction was confirmed is taken for enough.
ThereMutant == TRUE

\* The end of submit_branch, as far as heights tell: the relay's tip is read once more.
There == relay >= seen.bitcoin

\* The relay holds the branch: its headers take the place of the batches' in what
\* is counted, and the gauges are set to its end.
ReorgFollowed ==
    /\ pc = "branch" /\ at = seen.bitcoin /\ There
    /\ pc' = "count_progress"
    /\ submitted' = Count("headers", 0, Branch(fork))
    /\ seen' = [bitcoin |-> seen.bitcoin, relay |-> seen.bitcoin]
    /\ moved' = TRUE
    /\ UNCHANGED <<world, at, fork, held, retried, exporterVars, memory, landed>>

\* It does not, at any point of submit_branch: TemporaryFailure, or a hold.  With
\* no block in common there is only the hold.
ReorgNotFollowed ==
    /\ \/ pc = "batch" /\ CycleEnds([bitcoin |-> seen.bitcoin, relay |-> relay])
       \/ pc = "branch" /\ (CycleEnds(held) \/ CycleEnds(seen))
    /\ UNCHANGED <<world, exporterVars, memory, landed>>

\* An error leaves run_poll_cycle: an RPC outside the batches, a load or a save,
\* or a hard failure without a reorg.
CycleFails ==
    /\ \/ pc \in {"bitcoin_tip", "relay_tip", "batch"}
       \/ Wanted
       \/ pc = "branch" /\ at = seen.bitcoin
    /\ Goto("failed")
    /\ UNCHANGED <<world, exporterVars, memory, landed>>

CountError ==
    /\ pc = "failed"
    /\ Inc("errors", 1)
    /\ Goto("exiting")
    /\ UNCHANGED <<world, exporterVars, landed>>

\* main returns, or the process is killed: the exporter thread and the registry
\* end with it.
Exit ==
    /\ pc # "down"
    /\ pc' = "down" /\ held' = NoTips /\ ForgetCycle
    /\ memory' = Zero /\ landed' = 0
    /\ unread' = {} /\ copy' = Zero /\ report' = Zero
    /\ UNCHANGED <<world, shown>>

\* The next process; its exporter answers before the startup checks pass (module
\* Startup).  They wait for bitcoind, for as long as it takes; any of the probes
\* behind the wait may end the process; the last one reads the balance.
Restart ==
    /\ \/ pc = "down" /\ Goto("starting") /\ peak' = relay /\ UNCHANGED memory
       \/ pc = "starting" /\ Goto("probing") /\ UNCHANGED <<memory, peak>>
       \/ pc = "probing" /\ Goto("sleep") /\ Set("balance", funds) /\ UNCHANGED peak
       \/ pc \in {"starting", "probing"} /\ Goto("exiting") /\ UNCHANGED <<memory, peak>>
    /\ UNCHANGED <<bitcoin, relay, funds, exporterVars, landed>>

----------------------------------------------------------------------------
\* start_exporter.  What is stated of the counters is stated of the registry, so
\* only scrapes of gauges are followed.

Scrape ==
    /\ pc # "down" /\ unread = {}
    /\ unread' = shown \cap Gauge /\ copy' = Zero
    /\ UNCHANGED <<world, loopVars, shown, report, memory, landed>>

ReadMetric ==
    /\ \E m \in unread :
           /\ copy' = [copy EXCEPT ![m] = memory[m]]
           /\ unread' = unread \ {m}
    /\ report' = IF unread' = {} THEN copy' ELSE report
    /\ UNCHANGED <<world, loopVars, shown, memory, landed>>

----------------------------------------------------------------------------
\* The world.

\* Blocks, reorganisations, also to a lower height; a node that was restored.
NodeMoves ==
    /\ bitcoin' \in 1..MaxHeight
    /\ UNCHANGED <<relay, peak, funds>>

\* Late transactions of the relayer, those of others, and an EVM chain that takes
\* transactions back.
RelayMoves ==
    /\ \E height \in 0..MaxHeight : Reaches(height)
    /\ UNCHANGED <<bitcoin, funds>>

FundsMove ==
    /\ "balance" \in shown
    /\ funds' \in {Few, Many}
    /\ UNCHANGED <<bitcoin, relay, peak>>

World ==
    /\ NodeMoves \/ RelayMoves \/ FundsMove
    /\ UNCHANGED <<loopVars, exporterVars, memory, landed>>

----------------------------------------------------------------------------
\* A node restored from a backup may be behind the relay.
Init ==
    /\ bitcoin \in 1..MaxHeight /\ relay \in 0..MaxHeight /\ peak = relay
    /\ funds = Many
    /\ shown \in Views /\ unread = {}
    /\ memory = Zero /\ copy = Zero /\ report = Zero
    /\ pc = "starting" /\ held = NoTips
    /\ seen = NoTips /\ at = 0 /\ fork = 0 /\ moved = FALSE /\ submitted = 0 /\ retried = 0
    /\ landed = 0

Loop ==
    \/ BeginCycle \/ ReadTips \/ SetTipGauges \/ BalanceRead \/ BalanceNotRead
    \/ UpToDate \/ OnHold \/ StartRange
    \/ BatchLands \/ BatchRetried \/ RangeDone \/ CountProgress
    \/ FollowReorg \/ BranchLands \/ ReorgFollowed \/ ReorgNotFollowed
    \/ CycleFails \/ CountError \/ Exit \/ Restart

Exporter == Scrape \/ ReadMetric

Next == Loop \/ Exporter \/ World

Spec == Init /\ [][Next]_vars

\* Where the loop neither retries a batch nor waits for a transaction or for
\* bitcoind it goes on, and the supervisor restarts it; Prometheus scrapes.
FairSpec ==
    /\ Spec
    /\ WF_vars(pc \notin {"starting", "batch", "branch"} /\ Loop)
    /\ WF_vars(Exporter)

----------------------------------------------------------------------------
\* Whatever mix of cycles a scrape reads, it never shows the relay higher than
\* it has been while the process ran: not with a branch that was submitted and
\* stayed off the main chain, and not with one that was taken over in part.
RelayNotOverstated == "relay" \in shown => report["relay"] <= peak

\* The headers counted have landed: nothing is counted for a failed attempt, and
\* a branch is counted without its fork point.
HeadersLanded == "headers" \in shown => memory["headers"] <= landed

\* A cycle has one outcome at most.
CyclesAddUp ==
    Outcome \cup {"cycles"} \subseteq shown /\ memory["cycles"] < Cap =>
        memory["progressed"] + memory["up_to_date"] + memory["errors"] <= memory["cycles"]

\* What the gauges need to be fresh: a process that lives, and cycles that end.  A
\* batch that is retried without end, a transaction that is never answered and a
\* start that waits for bitcoind hide whatever has changed since.
Cycling == <>[](pc # "down") /\ []<>(pc = "sleep")

\* A lag that lasts, of heights that move or rest, is what every scrape shows
\* from some time on, also after a reorg was followed and reported as no lag.
LagIsShown ==
    \A b \in 1..MaxHeight : \A r \in 0..(b - 1) :
        Cycling /\ <>[](bitcoin >= b /\ relay <= r)
            => <>[]("lag" \in shown => report["lag"] >= b - r)

=============================================================================
