------------------------- MODULE StatusExporterProofs -------------------------
(***************************************************************************)
(* What the metrics show has happened: the relay is never shown higher     *)
(* than it has been, no header is counted that has not landed, and no      *)
(* cycle has two outcomes.  For every set of metrics, every order of the   *)
(* reads, heights that rise and sink at any time, and any number of        *)
(* failing calls, retries, reorgs and restarts.                            *)
(*                                                                         *)
(* The argument: every height on its way to a scrape has been the relay's  *)
(* in the time of this process, or was compared with one that has (Shown); *)
(* what SyncProgress or a branch will add to the counter has landed        *)
(* already (Counted); a cycle adds to one outcome, and only while it is    *)
(* open (Outcomes).                                                        *)
(***************************************************************************)
EXTENDS StatusExporter, TLAPS

Registry == [shown -> Nat]

Tips == [bitcoin : 0..MaxHeight, relay : 0..MaxHeight]

Types == TypeOK /\ seen \in Tips /\ landed \in Nat /\ shown \subseteq Metric

Setting == {"set_bitcoin", "set_relay", "set_lag"}

\* The heights that may be shown; what a process has read ends with it.
Shown ==
    /\ relay <= peak /\ seen.relay <= peak
    /\ "relay" \in shown =>
           memory["relay"] <= peak /\ copy["relay"] <= peak /\ report["relay"] <= peak
    /\ pc = "down" => /\ seen = NoTips /\ unread = {}
                      /\ memory = Zero /\ copy = Zero /\ report = Zero

\* The headers of this cycle: not begun, landed and not yet counted, counted.
Counted ==
    "headers" \in shown =>
        /\ memory["headers"] <= landed
        /\ \/ pc \in {"down", "starting", "probing", "sleep", "bitcoin_tip", "relay_tip",
                      "wallet", "decide"}
           \/ pc \in Setting /\ ~moved
           => submitted = 0
        /\ pc \in {"batch", "count_progress", "count_headers"} =>
               Capped(memory["headers"], submitted) <= landed
        /\ pc = "branch" => fork <= at /\ Capped(memory["headers"], at - fork) <= landed

\* A cycle that has begun and has no outcome yet.
Open ==
    \/ pc \in {"bitcoin_tip", "relay_tip", "wallet", "decide", "batch", "branch",
               "count_progress", "failed"}
    \/ pc \in Setting /\ ~moved

Outcomes ==
    Outcome \cup {"cycles"} \subseteq shown /\ memory["cycles"] < Cap =>
        memory["progressed"] + memory["up_to_date"] + memory["errors"]
            + (IF Open THEN 1 ELSE 0) <= memory["cycles"]

IInv == Types /\ Shown /\ Counted /\ Outcomes

----------------------------------------------------------------------------
LEMMA Constant == Cap \in Nat /\ MaxHeight \in Nat /\ MaxHeight > 0
                  /\ Views \subseteq SUBSET Metric
  BY ExporterAssumption

LEMMA CappedIs ==
    ASSUME NEW n \in Nat, NEW k \in Nat
    PROVE  Capped(n, k) \in 0..Cap /\ (k = 0 /\ n <= Cap => Capped(n, k) = n)
  BY Constant DEF Capped

LEMMA CountIs ==
    ASSUME NEW m, NEW n \in Nat, NEW k \in Nat
    PROVE  Count(m, n, k) \in 0..Cap
  BY CappedIs, Constant DEF Count

\* What is added to the cycle and to what has landed keeps their order.
LEMMA CappedKeeps ==
    ASSUME NEW h \in Nat, NEW s \in Nat, NEW l \in Nat, NEW n \in Nat,
           Capped(h, s) <= l
    PROVE  /\ Capped(h, Capped(s, n)) <= Capped(l, n)
           /\ Capped(h, s + n) <= Capped(l, n)
  BY Constant DEF Capped

LEMMA CappedTwice ==
    ASSUME NEW h \in Nat, NEW k \in Nat
    PROVE  Capped(h, Capped(0, k)) <= Capped(h, k)
  BY Constant DEF Capped

\* A metric is set, or raised; the others keep their values.
LEMMA SetIs ==
    ASSUME NEW m, NEW v \in Nat, memory \in Registry, Set(m, v)
    PROVE  /\ memory' \in Registry
           /\ m \in shown => memory'[m] = v
           /\ \A x \in shown \ {m} : memory'[x] = memory[x]
  BY DEF Set, Registry

LEMMA IncIs ==
    ASSUME NEW m, NEW k \in Nat, memory \in Registry, Inc(m, k)
    PROVE  /\ memory' \in Registry
           /\ m \in shown => memory'[m] = Capped(memory[m], k) /\ memory'[m] \in 0..Cap
           /\ \A x \in shown \ {m} : memory'[x] = memory[x]
  <1>1. \A x \in shown : memory[x] \in Nat /\ Capped(memory[x], k) \in 0..Cap
    BY CappedIs DEF Registry
  <1>. QED
    BY <1>1, Constant DEF Inc, Registry

LEMMA ZeroIs == Zero \in Registry /\ \A m \in shown : Zero[m] = 0
  BY DEF Zero, Registry

LEMMA NoTipsIs == NoTips \in Tips /\ NoTips.relay = 0 /\ NoTips.bitcoin = 0
  BY Constant DEF NoTips, Tips

LEMMA TipsAre ==
    ASSUME Types
    PROVE  /\ seen.bitcoin \in 0..MaxHeight /\ seen.relay \in 0..MaxHeight
           /\ at \in 0..MaxHeight /\ fork \in 0..MaxHeight
           /\ relay \in 0..MaxHeight /\ peak \in 0..MaxHeight /\ bitcoin \in 0..MaxHeight
           /\ \A h \in 0..MaxHeight : [seen EXCEPT !.bitcoin = h] \in Tips
           /\ \A h \in 0..MaxHeight : /\ [seen EXCEPT !.relay = h] \in Tips
                                      /\ [seen EXCEPT !.relay = h].relay = h
           /\ \A h : [seen EXCEPT !.bitcoin = h].relay = seen.relay
  BY Constant DEF Types, TypeOK, Tips

LEMMA ReachesIs ==
    ASSUME Types, relay <= peak, NEW h \in 0..MaxHeight, Reaches(h)
    PROVE  /\ relay' = h /\ peak' \in 0..MaxHeight
           /\ relay' <= peak' /\ peak <= peak'
  BY TipsAre, Constant DEF Reaches

LEMMA InitOK == ASSUME Init PROVE IInv
  <1>. USE Constant DEF Init
  <1>0. shown \subseteq Metric
    BY DEF Metric
  <1>1. Types
    <2>1. /\ memory \in [shown -> Nat] /\ copy \in [shown -> Nat] /\ report \in [shown -> Nat]
          /\ \A m \in shown \ Gauge : memory[m] <= Cap
      BY ZeroIs DEF Registry
    <2>2. /\ bitcoin \in 1..MaxHeight /\ {relay, peak, at, fork} \subseteq 0..MaxHeight
          /\ {submitted, retried} \subseteq 0..Cap
      OBVIOUS
    <2>. QED
      BY <1>0, <2>1, <2>2, NoTipsIs DEF Types, TypeOK
  <1>2. Shown
    BY <1>0, ZeroIs, NoTipsIs DEF Shown
  <1>3. Counted
    BY <1>0, ZeroIs DEF Counted, Setting
  <1>4. Outcomes
    BY <1>0, ZeroIs DEF Outcomes, Outcome, Open, Setting
  <1>. QED
    BY <1>1, <1>2, <1>3, <1>4 DEF IInv

\* What the lemmas about the steps use of the invariant.
LEMMA Have ==
    ASSUME IInv
    PROVE  /\ Types /\ Shown /\ Counted /\ Outcomes
           /\ memory \in Registry /\ copy \in Registry /\ report \in Registry
           /\ \A m \in shown : memory[m] \in Nat
           /\ submitted \in Nat /\ retried \in Nat /\ landed \in Nat
           /\ relay \in Nat /\ peak \in Nat /\ at \in Nat /\ fork \in Nat
           /\ seen.bitcoin \in Nat /\ seen.relay \in Nat
  BY Constant, TipsAre DEF IInv, Types, TypeOK, Registry

----------------------------------------------------------------------------
\* Steps of the loop that leave the registry, the relay and what has landed alone.
Quietly ==
    \/ ReadTips \/ BalanceNotRead \/ OnHold \/ StartRange \/ BatchRetried \/ RangeDone
    \/ FollowReorg \/ ReorgFollowed \/ ReorgNotFollowed \/ CycleFails

LEMMA QuietLeaves ==
    ASSUME Quietly
    PROVE  UNCHANGED <<bitcoin, relay, funds, peak, shown, unread, copy, report, memory, landed>>
  BY DEF Quietly, world, exporterVars, ReadTips, BalanceNotRead, OnHold, StartRange, BatchRetried,
         RangeDone, FollowReorg, ReorgFollowed, ReorgNotFollowed, CycleFails

LEMMA QuietTypes == ASSUME IInv, Quietly PROVE Types'
  <1>. USE Constant DEF locals, Goto, CycleEnds, ForgetCycle
  <1>0. /\ Types /\ submitted \in 0..Cap /\ retried \in 0..Cap /\ moved \in BOOLEAN
        /\ seen \in Tips
    BY DEF IInv, Types, TypeOK
  <1>1. /\ seen' \in Tips /\ at' \in 0..MaxHeight /\ fork' \in 0..MaxHeight
        /\ submitted' \in 0..Cap /\ retried' \in 0..Cap /\ moved' \in BOOLEAN
    <2>1. CASE ReadTips
      BY <1>0, <2>1, TipsAre DEF ReadTips
    <2>2. CASE StartRange
      BY <1>0, <2>2, TipsAre DEF StartRange
    <2>7. CASE BalanceNotRead \/ RangeDone \/ CycleFails
      BY <1>0, <2>7, TipsAre DEF BalanceNotRead, RangeDone, CycleFails
    <2>8. CASE OnHold \/ ReorgNotFollowed
      <3>1. ForgetCycle
        BY <2>8 DEF OnHold, ReorgNotFollowed
      <3>2. 0 \in 0..Cap /\ 0 \in 0..MaxHeight
        OBVIOUS
      <3>. QED
        BY <3>1, <3>2, NoTipsIs
    <2>3. CASE BatchRetried
      <3>1. retried' \in 0..Cap
        BY <1>0, <2>3, CountIs DEF BatchRetried
      <3>. QED
        BY <1>0, <2>3, <3>1, TipsAre DEF BatchRetried
    <2>4. CASE FollowReorg
      BY <1>0, <2>4, TipsAre DEF FollowReorg
    <2>5. CASE ReorgFollowed
      <3>1. ASSUME "headers" \in shown PROVE submitted' \in 0..Cap
        <4>1. fork <= at /\ seen.bitcoin = at
          BY <2>5, <3>1, Have DEF ReorgFollowed, Counted
        <4>2. Branch(fork) \in Nat
          BY <4>1, Have DEF Branch
        <4>. QED
          BY <2>5, <4>2, CountIs DEF ReorgFollowed
      <3>2. "headers" \notin shown => submitted' \in 0..Cap
        BY <2>5 DEF ReorgFollowed, Count
      <3>3. submitted' \in 0..Cap
        BY <3>1, <3>2
      <3>4. seen' \in Tips
        BY <1>0, <2>5, TipsAre DEF ReorgFollowed, Tips
      <3>. QED
        BY <1>0, <2>5, <3>3, <3>4, TipsAre DEF ReorgFollowed
    <2>. QED
      BY <2>1, <2>2, <2>3, <2>4, <2>5, <2>7, <2>8 DEF Quietly
  <1>2. pc' \in {"sleep", "relay_tip", "set_bitcoin", "decide", "batch", "branch",
                 "count_progress", "failed"}
    BY DEF Quietly, ReadTips, BalanceNotRead, OnHold, StartRange, BatchRetried, RangeDone,
           FollowReorg, ReorgFollowed, ReorgNotFollowed, CycleFails
  <1>3. /\ bitcoin' \in 1..MaxHeight /\ relay' \in 0..MaxHeight /\ peak' \in 0..MaxHeight
        /\ funds' \in {Few, Many} /\ shown' \in Views /\ unread' \subseteq shown' \cap Gauge
        /\ landed' \in Nat /\ shown' \subseteq Metric
        /\ memory' \in [shown' -> Nat] /\ copy' \in [shown' -> Nat] /\ report' \in [shown' -> Nat]
        /\ \A m \in shown' \ Gauge : memory'[m] <= Cap
    BY <1>0, QuietLeaves DEF Types, TypeOK
  <1>. QED
    BY <1>1, <1>2, <1>3 DEF Types, TypeOK

LEMMA QuietShown == ASSUME IInv, Quietly PROVE Shown'
  <1>1. seen'.relay <= peak
    <2>1. CASE ReadTips \/ FollowReorg
      BY <2>1, Have, TipsAre DEF Shown, ReadTips, FollowReorg
    <2>2. CASE ReorgFollowed
      BY <2>2, Have, TipsAre DEF Shown, ReorgFollowed, There
    <2>3. CASE seen' = seen \/ seen' = NoTips
      BY <2>3, Have, NoTipsIs DEF Shown
    <2>. QED
      BY <2>1, <2>2, <2>3 DEF Quietly, BalanceNotRead, OnHold, StartRange, BatchRetried, RangeDone,
         ReorgNotFollowed, CycleFails, Goto, locals, CycleEnds, ForgetCycle
  <1>2. pc' # "down"
    BY DEF Quietly, ReadTips, BalanceNotRead, OnHold, StartRange, BatchRetried, RangeDone,
           FollowReorg, ReorgFollowed, ReorgNotFollowed, CycleFails, Goto, CycleEnds
  <1>. QED
    BY <1>1, <1>2, Have, QuietLeaves DEF Shown

LEMMA QuietCounted == ASSUME IInv, Quietly PROVE Counted'
  <1>. SUFFICES ASSUME "headers" \in shown PROVE Counted'
    BY QuietLeaves DEF Counted
  <1>. DEFINE h == memory["headers"]
  <1>0. /\ h \in Nat /\ landed \in Nat /\ submitted \in Nat /\ h <= landed /\ h <= Cap
    BY Have DEF Counted, Types, TypeOK, Gauge
  <1>1. Counted
    BY Have
  <1>2. CASE ReadTips \/ BalanceNotRead
    BY <1>1, <1>2, QuietLeaves DEF ReadTips, BalanceNotRead, Goto, locals, Counted, Setting
  <1>3. CASE OnHold \/ ReorgNotFollowed
    BY <1>1, <1>3, QuietLeaves
       DEF OnHold, ReorgNotFollowed, CycleEnds, ForgetCycle, Counted, Setting
  <1>4. CASE StartRange
    <2>1. submitted = 0 /\ submitted' = submitted /\ pc' = "batch"
      BY <1>1, <1>4 DEF StartRange, Wanted, Counted
    <2>2. Capped(h, submitted) = h
      BY <1>0, <2>1, CappedIs
    <2>. QED
      BY <1>0, <2>1, <2>2, QuietLeaves DEF Counted, Setting
  <1>5. CASE BatchRetried \/ RangeDone \/ CycleFails
    BY <1>1, <1>5, QuietLeaves
       DEF BatchRetried, RangeDone, CycleFails, Goto, locals, Counted, Setting
  <1>6. CASE FollowReorg
    <2>1. PICK g \in 0..MaxHeight : fork' = g /\ at' = g
      BY <1>6 DEF FollowReorg
    <2>2. fork' <= at' /\ at' - fork' = 0 /\ pc' = "branch"
      BY <1>6, <2>1, Constant DEF FollowReorg
    <2>3. Capped(h, at' - fork') = h
      BY <1>0, <2>2, Constant DEF Capped
    <2>. QED
      BY <1>0, <2>1, <2>2, <2>3, QuietLeaves DEF Counted, Setting
  <1>7. CASE ReorgFollowed
    <2>1. /\ pc = "branch" /\ pc' = "count_progress" /\ at = seen.bitcoin
          /\ submitted' = Capped(0, at - fork)
      BY <1>7 DEF ReorgFollowed, Count, Branch
    <2>2. fork <= at /\ Capped(h, at - fork) <= landed /\ at - fork \in Nat
      BY <1>1, <2>1, Have DEF Counted
    <2>3. Capped(h, submitted') \in Nat /\ Capped(h, at - fork) \in Nat
      <3>1. submitted' \in 0..Cap
        BY <2>1, <2>2, CappedIs
      <3>2. submitted' \in Nat
        BY <3>1, Constant
      <3>3. Capped(h, submitted') \in 0..Cap /\ Capped(h, at - fork) \in 0..Cap
        BY <1>0, <2>2, <3>2, CappedIs
      <3>. QED
        BY <3>3, Constant
    <2>4. Capped(h, submitted') <= landed
      BY <1>0, <2>1, <2>2, <2>3, CappedTwice
    <2>. QED
      BY <1>0, <2>1, <2>4, QuietLeaves DEF Counted, Setting
  <1>. QED
    BY <1>2, <1>3, <1>4, <1>5, <1>6, <1>7 DEF Quietly

\* No cycle is opened, and none closed that would count afterwards.
LEMMA QuietOutcomes == ASSUME IInv, Quietly PROVE Outcomes'
  <1>1. Open' => Open
    BY DEF Open, Setting, Quietly, ReadTips, BalanceNotRead, OnHold, StartRange, BatchRetried,
           RangeDone, FollowReorg, ReorgFollowed, ReorgNotFollowed, CycleFails, Goto, locals,
           CycleEnds, Wanted
  <1>2. SUFFICES ASSUME Outcome \cup {"cycles"} \subseteq shown, memory["cycles"] < Cap
                 PROVE  memory["progressed"] + memory["up_to_date"] + memory["errors"]
                           + (IF Open' THEN 1 ELSE 0) <= memory["cycles"]
    BY QuietLeaves DEF Outcomes
  <1>3. /\ memory["cycles"] \in Nat /\ memory["progressed"] \in Nat
        /\ memory["up_to_date"] \in Nat /\ memory["errors"] \in Nat
    BY <1>2, Have DEF Outcome
  <1>4. memory["progressed"] + memory["up_to_date"] + memory["errors"]
            + (IF Open THEN 1 ELSE 0) <= memory["cycles"]
    BY <1>2, Have DEF Outcomes
  <1>. QED
    BY <1>1, <1>3, <1>4

LEMMA QuietStep == ASSUME IInv, Quietly PROVE IInv'
  BY QuietTypes, QuietShown, QuietCounted, QuietOutcomes DEF IInv

----------------------------------------------------------------------------
\* A gauge is set: the relay's, of those the invariant speaks of, or another one.
LEMMA GaugeRegistry ==
    ASSUME IInv, SetTipGauges \/ BalanceRead \/ Restart
    PROVE  /\ memory' \in Registry
           /\ \A x \in shown \ Gauge : memory'[x] = memory[x]
           /\ "relay" \in shown => memory'["relay"] \in {memory["relay"], seen.relay}
  <1>0. /\ memory \in Registry /\ funds \in Nat /\ Lag \in Nat
        /\ seen.bitcoin \in Nat /\ seen.relay \in Nat
    BY Have DEF Types, TypeOK, Lag, Few, Many
  <1>1. CASE Set("bitcoin", seen.bitcoin)
    BY <1>0, <1>1, SetIs DEF Gauge
  <1>2. CASE Set("relay", seen.relay)
    BY <1>0, <1>2, SetIs DEF Gauge
  <1>3. CASE Set("lag", Lag)
    BY <1>0, <1>3, SetIs DEF Gauge
  <1>4. CASE Set("balance", funds)
    BY <1>0, <1>4, SetIs DEF Gauge
  <1>5. CASE UNCHANGED memory
    BY <1>0, <1>5
  <1>. QED
    BY <1>1, <1>2, <1>3, <1>4, <1>5
       DEF SetTipGauges, BalanceRead, Restart, RelayGauge, LagGauge, Balance

LEMMA GaugeStep == ASSUME IInv, SetTipGauges \/ BalanceRead \/ Restart PROVE IInv'
  <1>. USE DEF world, exporterVars, Goto, locals, CycleEnds, ForgetCycle
  <1>0. /\ UNCHANGED <<bitcoin, relay, funds, shown, unread, copy, report, landed>>
        /\ peak' = peak \/ (pc = "down" /\ peak' = relay)
    BY DEF SetTipGauges, BalanceRead, Restart
  <1>1. Types'
    <2>1. /\ pc' \in {"set_relay", "set_lag", "sleep", "wallet", "decide", "starting", "probing",
                      "exiting"}
          /\ UNCHANGED locals \/ ForgetCycle
      BY DEF SetTipGauges, BalanceRead, Restart
    <2>2. /\ seen' \in Tips /\ at' \in 0..MaxHeight /\ fork' \in 0..MaxHeight
          /\ submitted' \in 0..Cap /\ retried' \in 0..Cap /\ moved' \in BOOLEAN
      <3>1. 0 \in 0..Cap /\ 0 \in 0..MaxHeight
        BY Constant
      <3>. QED
        BY <2>1, <3>1, NoTipsIs, TipsAre, Have DEF Types, TypeOK
    <2>3. /\ memory' \in [shown' -> Nat] /\ \A m \in shown' \ Gauge : memory'[m] <= Cap
      BY <1>0, GaugeRegistry, Have DEF Registry, Types, TypeOK
    <2>4. /\ bitcoin' \in 1..MaxHeight /\ relay' \in 0..MaxHeight /\ peak' \in 0..MaxHeight
          /\ funds' \in {Few, Many} /\ shown' \in Views /\ unread' \subseteq shown' \cap Gauge
          /\ landed' \in Nat /\ shown' \subseteq Metric
          /\ copy' \in [shown' -> Nat] /\ report' \in [shown' -> Nat]
      BY <1>0, Have DEF Types, TypeOK
    <2>. QED
      BY <2>1, <2>2, <2>3, <2>4 DEF Types, TypeOK
  <1>2. Shown'
    <2>1. CASE pc = "down"
      <3>1. /\ seen' = NoTips /\ memory' = Zero /\ copy = Zero /\ report = Zero /\ pc' # "down"
            /\ peak' = relay
        BY <2>1, Have DEF Shown, Restart, SetTipGauges, BalanceRead
      <3>2. "relay" \in shown => memory'["relay"] = 0 /\ copy["relay"] = 0 /\ report["relay"] = 0
        BY <3>1, ZeroIs
      <3>. QED
        BY <1>0, <3>1, <3>2, NoTipsIs, Have DEF Shown
    <2>2. CASE pc # "down"
      <3>1. pc' # "down" /\ peak' = peak /\ (seen' = seen \/ seen' = NoTips)
        BY <1>0, <2>2 DEF Restart, SetTipGauges, BalanceRead
      <3>. QED
        BY <1>0, <3>1, GaugeRegistry, NoTipsIs, Have DEF Shown
    <2>. QED
      BY <2>1, <2>2
  <1>3. Counted'
    <2>1. "headers" \in shown => memory'["headers"] = memory["headers"]
      BY GaugeRegistry DEF Gauge
    <2>. QED
      BY <1>0, <2>1, Have DEF Counted, Setting, SetTipGauges, BalanceRead, Restart
  <1>4. Outcomes'
    <2>1. Open' => Open
      BY DEF Open, Setting, SetTipGauges, BalanceRead, Restart
    <2>2. SUFFICES ASSUME Outcome \cup {"cycles"} \subseteq shown, memory["cycles"] < Cap
                   PROVE  memory["progressed"] + memory["up_to_date"] + memory["errors"]
                             + (IF Open' THEN 1 ELSE 0) <= memory["cycles"]
      BY <1>0, GaugeRegistry DEF Outcomes, Outcome, Gauge
    <2>3. /\ memory["cycles"] \in Nat /\ memory["progressed"] \in Nat
          /\ memory["up_to_date"] \in Nat /\ memory["errors"] \in Nat
      BY <2>2, Have DEF Outcome
    <2>. QED
      BY <2>1, <2>2, <2>3, Have DEF Outcomes
  <1>. QED
    BY <1>1, <1>2, <1>3, <1>4 DEF IInv

----------------------------------------------------------------------------
\* A counter is raised: of the other variables only the loop's move.
Counting == BeginCycle \/ UpToDate \/ CountProgress \/ CountError

LEMMA CountingRegistry ==
    ASSUME IInv, NEW m \in Metric \ Gauge, NEW k \in Nat, Inc(m, k)
    PROVE  /\ memory' \in Registry
           /\ \A x \in shown \ {m} : memory'[x] = memory[x]
           /\ m \in shown => memory'[m] = Capped(memory[m], k) /\ memory'[m] \in 0..Cap
           /\ \A x \in shown \ Gauge : memory'[x] <= Cap
           /\ "relay" \in shown => memory'["relay"] = memory["relay"]
  <1>1. /\ memory' \in Registry
        /\ \A x \in shown \ {m} : memory'[x] = memory[x]
        /\ m \in shown => memory'[m] = Capped(memory[m], k) /\ memory'[m] \in 0..Cap
    BY IncIs, Have
  <1>2. m \in shown => memory'[m] <= Cap
    BY <1>1, Constant
  <1>. QED
    BY <1>1, <1>2, Have DEF Types, TypeOK, Gauge

LEMMA CountingIs ==
    ASSUME Counting, IInv
    PROVE  /\ \E m \in Metric \ Gauge, k \in Nat : Inc(m, k)
           /\ UNCHANGED <<bitcoin, relay, funds, peak, shown, unread, copy, report, landed>>
           /\ UNCHANGED locals \/ ForgetCycle
           /\ pc' \in {"bitcoin_tip", "sleep", "count_headers", "set_bitcoin", "count_retries",
                       "exiting"}
  <1>. USE Have DEF Counting, world, exporterVars, Goto, CycleEnds, BeginCycle, UpToDate,
                    CountProgress, CountError
  <1>1. {"cycles", "up_to_date", "errors", "progressed", "headers", "retries"}
            \subseteq Metric \ Gauge
    BY DEF Metric, Gauge, Outcome
  <1>2. \E m \in Metric \ Gauge, k \in Nat : Inc(m, k)
    BY <1>1 DEF Progress
  <1>. QED
    BY <1>2

LEMMA CountingTypes == ASSUME IInv, Counting PROVE Types' /\ Shown'
  <1>1. PICK m \in Metric \ Gauge, k \in Nat : Inc(m, k)
    BY CountingIs
  <1>2. /\ memory' \in Registry /\ \A x \in shown \ Gauge : memory'[x] <= Cap
        /\ "relay" \in shown => memory'["relay"] = memory["relay"]
    BY <1>1, CountingRegistry
  <1>3. /\ seen' \in Tips /\ at' \in 0..MaxHeight /\ fork' \in 0..MaxHeight
        /\ submitted' \in 0..Cap /\ retried' \in 0..Cap /\ moved' \in BOOLEAN
        /\ seen'.relay = seen.relay \/ seen'.relay = 0
    <2>1. 0 \in 0..Cap /\ 0 \in 0..MaxHeight
      BY Constant
    <2>. QED
      BY <2>1, CountingIs, NoTipsIs, TipsAre, Have DEF Types, TypeOK, locals, ForgetCycle
  <1>4. /\ bitcoin' \in 1..MaxHeight /\ relay' \in 0..MaxHeight /\ peak' \in 0..MaxHeight
        /\ funds' \in {Few, Many} /\ shown' \in Views /\ unread' \subseteq shown' \cap Gauge
        /\ landed' \in Nat /\ shown' \subseteq Metric
        /\ copy' \in [shown' -> Nat] /\ report' \in [shown' -> Nat]
    BY CountingIs, Have DEF Types, TypeOK
  <1>5. Types'
    <2>1. memory' \in [shown' -> Nat] /\ \A x \in shown' \ Gauge : memory'[x] <= Cap
      BY <1>2, CountingIs DEF Registry
    <2>. QED
      BY <1>3, <1>4, <2>1, CountingIs DEF Types, TypeOK
  <1>6. Shown'
    BY <1>2, <1>3, CountingIs, Have DEF Shown
  <1>. QED
    BY <1>5, <1>6

LEMMA CountingCounted == ASSUME IInv, Counting PROVE Counted'
  <1>. SUFFICES ASSUME "headers" \in shown PROVE Counted'
    BY CountingIs DEF Counted
  <1>0. /\ Counted /\ memory["headers"] \in Nat /\ landed \in Nat /\ submitted \in Nat
        /\ landed' = landed /\ memory["headers"] <= landed
    BY Have, CountingIs DEF Counted
  <1>1. CASE pc = "count_headers"
    <2>1. Inc("headers", submitted) /\ UNCHANGED locals
          /\ pc' \in {"set_bitcoin", "count_retries"} /\ (pc' = "set_bitcoin" => moved)
      BY <1>1 DEF Counting, BeginCycle, UpToDate, CountProgress, CountError, Goto
    <2>2. "headers" \in Metric \ Gauge
      BY DEF Metric, Gauge
    <2>3. memory'["headers"] = Capped(memory["headers"], submitted)
      BY <1>0, <2>1, <2>2, CountingRegistry
    <2>. QED
      BY <1>0, <1>1, <2>1, <2>3, CountingIs DEF Counted, Setting, locals
  <1>2. CASE pc # "count_headers"
    <2>1. memory'["headers"] = memory["headers"]
      <3>1. {"cycles", "up_to_date", "errors", "progressed", "retries"} \subseteq Metric \ Gauge
        BY DEF Metric, Gauge, Outcome
      <3>2. \E m \in (Metric \ Gauge) \ {"headers"}, k \in Nat : Inc(m, k)
        BY <1>2, <3>1, Have
           DEF Counting, BeginCycle, UpToDate, CountProgress, CountError, Progress
      <3>. QED
        BY <3>2, CountingRegistry
    <2>. QED
      BY <1>0, <1>2, <2>1, CountingIs
         DEF Counted, Setting, Counting, BeginCycle, UpToDate, CountProgress, CountError, Goto,
             locals, CycleEnds, ForgetCycle
  <1>. QED
    BY <1>1, <1>2

\* A cycle is opened and counted, or gets an outcome, which closes it.
LEMMA CountingOutcomes == ASSUME IInv, Counting PROVE Outcomes'
  <1>1. SUFFICES ASSUME Outcome \cup {"cycles"} \subseteq shown, memory'["cycles"] < Cap
                 PROVE  memory'["progressed"] + memory'["up_to_date"] + memory'["errors"]
                           + (IF Open' THEN 1 ELSE 0) <= memory'["cycles"]
    BY CountingIs DEF Outcomes
  <1>2. /\ memory["cycles"] \in Nat /\ memory["progressed"] \in Nat
        /\ memory["up_to_date"] \in Nat /\ memory["errors"] \in Nat
    BY <1>1, Have DEF Outcome
  <1>3. Outcomes
    BY Have
  <1>4. {"cycles", "up_to_date", "errors", "progressed", "headers", "retries"}
            \subseteq Metric \ Gauge
    BY DEF Metric, Gauge, Outcome
  <1>5. CASE BeginCycle
    <2>1. Inc("cycles", 1)
      BY <1>5 DEF BeginCycle
    <2>2. /\ memory'["cycles"] = Capped(memory["cycles"], 1)
          /\ \A x \in shown \ {"cycles"} : memory'[x] = memory[x]
      BY <1>1, <1>4, <2>1, CountingRegistry
    <2>3. memory'["cycles"] = memory["cycles"] + 1
      BY <1>1, <1>2, <2>2, Constant DEF Capped
    <2>4. ~Open
      BY <1>5 DEF BeginCycle, Open, Setting
    <2>5. /\ memory'["progressed"] = memory["progressed"]
          /\ memory'["up_to_date"] = memory["up_to_date"] /\ memory'["errors"] = memory["errors"]
      BY <1>1, <2>2 DEF Outcome
    <2>6. memory["progressed"] + memory["up_to_date"] + memory["errors"] <= memory["cycles"]
      BY <1>1, <1>2, <1>3, <2>3, <2>4, Constant DEF Outcomes
    <2>. QED
      BY <1>2, <2>3, <2>5, <2>6
  <1>6. ASSUME NEW m \in Outcome, Inc(m, 1), Open, ~Open'
        PROVE  memory'["progressed"] + memory'["up_to_date"] + memory'["errors"]
                  <= memory'["cycles"]
    <2>1. /\ memory'[m] = Capped(memory[m], 1)
          /\ \A x \in shown \ {m} : memory'[x] = memory[x]
      BY <1>1, <1>4, <1>6, CountingRegistry DEF Outcome
    <2>2. memory[m] \in Nat /\ memory'[m] \in Nat /\ memory'[m] <= memory[m] + 1
      <3>1. memory[m] \in Nat
        BY <1>2 DEF Outcome
      <3>. QED
        BY <2>1, <3>1, Constant DEF Capped
    <2>3. /\ memory'["cycles"] = memory["cycles"]
          /\ \A x \in Outcome \ {m} : memory'[x] = memory[x]
      BY <1>1, <2>1 DEF Outcome
    <2>4. memory["progressed"] + memory["up_to_date"] + memory["errors"] + 1 <= memory["cycles"]
      BY <1>1, <1>3, <1>6, <2>3 DEF Outcomes
    <2>5. CASE m = "progressed"
      BY <1>2, <2>2, <2>3, <2>4, <2>5 DEF Outcome
    <2>6. CASE m = "up_to_date"
      BY <1>2, <2>2, <2>3, <2>4, <2>6 DEF Outcome
    <2>7. CASE m = "errors"
      BY <1>2, <2>2, <2>3, <2>4, <2>7 DEF Outcome
    <2>. QED
      BY <2>5, <2>6, <2>7 DEF Outcome
  <1>7. CASE UpToDate \/ CountError \/ (CountProgress /\ pc = "count_progress")
    <2>1. \E m \in Outcome : Inc(m, 1)
      BY <1>7 DEF UpToDate, CountError, CountProgress, Progress, Outcome
    <2>2. Open /\ ~Open'
      BY <1>7 DEF UpToDate, CountError, CountProgress, Open, Setting, Goto, CycleEnds
    <2>3. memory'["progressed"] + memory'["up_to_date"] + memory'["errors"] <= memory'["cycles"]
      BY <1>6, <2>1, <2>2
    <2>4. memory' \in Registry
      BY <1>4, <2>1, CountingRegistry DEF Outcome
    <2>5. /\ memory'["progressed"] \in Nat /\ memory'["up_to_date"] \in Nat
          /\ memory'["errors"] \in Nat
      BY <1>1, <2>4 DEF Registry, Outcome
    <2>. QED
      BY <2>2, <2>3, <2>5
  <1>8. CASE CountProgress /\ pc # "count_progress"
    <2>1. Inc("headers", submitted) \/ Inc("retries", retried)
      BY <1>8 DEF CountProgress
    <2>2. \A x \in Outcome \cup {"cycles"} : memory'[x] = memory[x]
      <3>1. submitted \in Nat /\ retried \in Nat
        BY Have
      <3>2. \E m \in {"headers", "retries"}, k \in Nat : Inc(m, k)
        BY <2>1, <3>1
      <3>. QED
        BY <1>1, <1>4, <3>2, CountingRegistry DEF Outcome
    <2>3. Open' => Open
      BY <1>8 DEF CountProgress, Open, Setting, Goto, locals, CycleEnds
    <2>4. memory["cycles"] < Cap
      BY <1>1, <2>2
    <2>. QED
      BY <1>1, <1>2, <1>3, <2>2, <2>3, <2>4 DEF Outcomes, Outcome
  <1>. QED
    BY <1>5, <1>7, <1>8 DEF Counting

LEMMA CountingStep == ASSUME IInv, Counting PROVE IInv'
  BY CountingTypes, CountingCounted, CountingOutcomes DEF IInv

----------------------------------------------------------------------------
\* Headers land, with a batch or with a part of a branch.
LEMMA LandStep == ASSUME IInv, BatchLands \/ BranchLands PROVE IInv'
  <1>1. /\ UNCHANGED <<bitcoin, funds, pc, seen, fork, moved, held, retried, shown, unread, copy,
                       report, memory>>
        /\ pc \in {"batch", "branch"}
    BY DEF BatchLands, BranchLands, exporterVars
  <1>2. PICK n \in Nat \ {0} :
            /\ at' = at + n /\ at + n <= seen.bitcoin
            /\ landed' = Count("headers", landed, n)
            /\ pc = "batch" => submitted' = Count("headers", submitted, n)
            /\ pc = "branch" => submitted' = submitted
            /\ Reaches(at + n) \/ UNCHANGED <<relay, peak>>
    <2>1. CASE BatchLands
      <3>1. PICK n \in 1..(seen.bitcoin - at) :
                /\ Reaches(at + n) /\ at' = at + n
                /\ landed' = Count("headers", landed, n)
                /\ submitted' = Count("headers", submitted, n)
        BY <2>1 DEF BatchLands
      <3>. QED
        BY <2>1, <3>1, Have DEF BatchLands
    <2>2. CASE BranchLands
      <3>1. PICK n \in 1..(seen.bitcoin - at) :
                /\ at' = at + n
                /\ landed' = Count("headers", landed, n)
                /\ Reaches(at + n) \/ UNCHANGED <<relay, peak>>
        BY <2>2 DEF BranchLands
      <3>. QED
        BY <2>2, <3>1, Have DEF BranchLands
    <2>. QED
      BY <2>1, <2>2
  <1>3. /\ at' \in 0..MaxHeight /\ relay' \in 0..MaxHeight /\ peak' \in 0..MaxHeight
        /\ relay' <= peak' /\ peak <= peak'
    <2>1. at + n \in 0..MaxHeight
      BY <1>2, Have, TipsAre, Constant
    <2>2. relay <= peak
      BY Have DEF Shown
    <2>3. CASE Reaches(at + n)
      BY <1>2, <2>1, <2>2, <2>3, ReachesIs, Have
    <2>4. CASE UNCHANGED <<relay, peak>>
      BY <1>2, <2>1, <2>2, <2>4, TipsAre, Have
    <2>. QED
      BY <1>2, <2>3, <2>4
  <1>4. landed' \in 0..Cap /\ submitted' \in 0..Cap
    <2>1. Count("headers", landed, n) \in 0..Cap /\ Count("headers", submitted, n) \in 0..Cap
      BY Have, CountIs
    <2>. QED
      BY <1>1, <1>2, <2>1, Have DEF Types, TypeOK
  <1>5. Types'
    <2>1. landed' \in Nat
      BY <1>4, Constant
    <2>. QED
      BY <1>1, <1>3, <1>4, <2>1, Have DEF Types, TypeOK
  <1>6. Shown'
    <2>1. seen'.relay <= peak'
      BY <1>1, <1>3, Have, Constant DEF Shown
    <2>2. "relay" \in shown =>
              memory["relay"] <= peak' /\ copy["relay"] <= peak' /\ report["relay"] <= peak'
      <3>1. "relay" \in shown =>
                memory["relay"] \in Nat /\ copy["relay"] \in Nat /\ report["relay"] \in Nat
        BY Have DEF Registry
      <3>2. peak' \in Nat
        BY <1>3, Constant
      <3>. QED
        BY <1>3, <3>1, <3>2, Have DEF Shown
    <2>. QED
      BY <1>1, <1>3, <2>1, <2>2 DEF Shown
  <1>7. Counted'
    <2>. SUFFICES ASSUME "headers" \in shown PROVE Counted'
      BY <1>1 DEF Counted
    <2>. DEFINE h == memory["headers"]
    <2>1. h \in Nat /\ h <= landed /\ h <= Cap /\ landed' = Capped(landed, n)
      BY <1>2, Have DEF Counted, Types, TypeOK, Gauge, Count
    <2>2. h <= landed'
      BY <2>1, Have, Constant DEF Capped
    <2>3. CASE pc = "batch"
      <3>1. Capped(h, submitted) <= landed /\ submitted' = Capped(submitted, n)
        BY <1>2, <2>3, Have DEF Counted, Count
      <3>2. Capped(h, submitted') <= landed'
        BY <2>1, <3>1, CappedKeeps, Have
      <3>. QED
        BY <1>1, <2>2, <2>3, <3>2 DEF Counted, Setting
    <2>4. CASE pc = "branch"
      <3>1. fork <= at /\ Capped(h, at - fork) <= landed
        BY <2>4, Have DEF Counted
      <3>2. at - fork \in Nat /\ at' - fork' = (at - fork) + n /\ fork' <= at'
        BY <1>1, <1>2, <3>1, Have
      <3>3. Capped(h, (at - fork) + n) <= landed'
        BY <2>1, <3>1, <3>2, CappedKeeps, Have
      <3>. QED
        BY <1>1, <2>2, <2>4, <3>2, <3>3 DEF Counted, Setting
    <2>. QED
      BY <1>1, <2>3, <2>4
  <1>8. Outcomes'
    BY <1>1, Have DEF Outcomes, Open, Setting
  <1>. QED
    BY <1>5, <1>6, <1>7, <1>8 DEF IInv

\* The process ends, and all it knew with it.
LEMMA ExitStep == ASSUME IInv, Exit PROVE IInv'
  <1>. USE DEF Exit, world, ForgetCycle
  <1>1. Types'
    <2>1. /\ memory' \in [shown' -> Nat] /\ copy' \in [shown' -> Nat] /\ report' \in [shown' -> Nat]
          /\ \A m \in shown' \ Gauge : memory'[m] <= Cap
      BY ZeroIs, Constant DEF Registry
    <2>2. /\ 0 \in 0..Cap /\ 0 \in 0..MaxHeight
      BY Constant
    <2>3. /\ bitcoin' \in 1..MaxHeight /\ relay' \in 0..MaxHeight /\ peak' \in 0..MaxHeight
          /\ funds' \in {Few, Many} /\ shown' \in Views /\ shown' \subseteq Metric
      BY Have DEF Types, TypeOK
    <2>4. /\ seen' \in Tips /\ landed' = 0 /\ unread' = {} /\ pc' = "down" /\ moved' = FALSE
          /\ at' = 0 /\ fork' = 0 /\ submitted' = 0 /\ retried' = 0
      BY NoTipsIs DEF Tips
    <2>5. /\ {relay', peak', at', fork'} \subseteq 0..MaxHeight
          /\ {submitted', retried'} \subseteq 0..Cap
      BY <2>2, <2>3, <2>4, Zenon
    <2>6. landed' \in Nat /\ unread' \subseteq shown' \cap Gauge
      BY <2>4
    <2>7. moved' \in BOOLEAN
      BY <2>4, Zenon
    <2>. QED
      BY <2>1, <2>3, <2>4, <2>5, <2>6, <2>7 DEF Types, TypeOK
  <1>2. Shown'
    <2>1. Zero' = Zero
      BY DEF Zero
    <2>. QED
      BY <2>1, ZeroIs, NoTipsIs, Have DEF Shown, NoTips
  <1>3. Counted'
    BY ZeroIs DEF Counted, Setting
  <1>4. Outcomes'
    BY ZeroIs DEF Outcomes, Outcome, Open, Setting
  <1>. QED
    BY <1>1, <1>2, <1>3, <1>4 DEF IInv

\* A scrape, one of its reads, the world, or nothing.
LEMMA OtherStep == ASSUME IInv, Exporter \/ World \/ UNCHANGED vars PROVE IInv'
  <1>1. /\ UNCHANGED <<loopVars, memory, landed, shown>>
        /\ bitcoin' \in 1..MaxHeight /\ funds' \in {Few, Many}
    BY Have DEF Types, TypeOK, Exporter, Scrape, ReadMetric, World, NodeMoves, RelayMoves,
           FundsMove, vars, world, exporterVars
  <1>2. /\ relay' \in 0..MaxHeight /\ peak' \in 0..MaxHeight /\ relay' <= peak' /\ peak <= peak'
    <2>0. relay <= peak /\ Types /\ peak \in Nat
      BY Have DEF Shown
    <2>1. CASE \E h \in 0..MaxHeight : Reaches(h)
      BY <2>0, <2>1, ReachesIs
    <2>2. CASE UNCHANGED <<relay, peak>>
      BY <2>0, <2>2, TipsAre
    <2>. QED
      BY <2>1, <2>2 DEF Exporter, Scrape, ReadMetric, World, NodeMoves, RelayMoves,
             FundsMove, vars, world
  <1>3. /\ copy' \in [shown -> Nat] /\ report' \in [shown -> Nat]
        /\ unread' \subseteq shown \cap Gauge
        /\ "relay" \in shown => /\ copy'["relay"] \in {0, memory["relay"], copy["relay"]}
                                /\ report'["relay"] \in {copy'["relay"], report["relay"]}
        /\ pc = "down" => UNCHANGED <<copy, report, unread>>
    <2>0. /\ memory \in [shown -> Nat] /\ copy \in [shown -> Nat] /\ report \in [shown -> Nat]
          /\ unread \subseteq shown \cap Gauge
          /\ pc = "down" => unread = {}
      BY Have DEF Types, TypeOK, Shown
    <2>1. CASE Scrape
      BY <2>0, <2>1, ZeroIs DEF Scrape, Registry
    <2>2. CASE ReadMetric
      BY <2>0, <2>2 DEF ReadMetric
    <2>3. CASE UNCHANGED exporterVars
      BY <2>0, <2>3 DEF exporterVars
    <2>. QED
      BY <2>1, <2>2, <2>3 DEF Exporter, World, vars
  <1>4. Types'
    BY <1>1, <1>2, <1>3, Have DEF Types, TypeOK, loopVars, locals
  <1>5. Shown'
    <2>1. "relay" \in shown =>
              memory["relay"] \in Nat /\ copy["relay"] \in Nat /\ report["relay"] \in Nat
      BY Have DEF Registry
    <2>2. "relay" \in shown =>
              memory["relay"] <= peak' /\ copy'["relay"] <= peak' /\ report'["relay"] <= peak'
      <3>1. peak \in Nat /\ peak' \in Nat
        BY <1>2, Have, Constant
      <3>. QED
        BY <1>2, <1>3, <2>1, <3>1, Have DEF Shown
    <2>3. seen'.relay <= peak'
      <3>1. seen.relay \in Nat /\ peak \in Nat /\ peak' \in Nat
        BY <1>2, Have, Constant
      <3>. QED
        BY <1>1, <1>2, <3>1, Have DEF Shown, loopVars, locals
    <2>4. Zero' = Zero
      BY <1>1 DEF Zero
    <2>. QED
      BY <1>1, <1>2, <1>3, <2>2, <2>3, <2>4, Have DEF Shown, loopVars, locals, NoTips
  <1>6. Counted'
    BY <1>1, Have DEF Counted, Setting, loopVars, locals
  <1>7. Outcomes'
    BY <1>1, Have DEF Outcomes, Open, Setting, loopVars, locals
  <1>. QED
    BY <1>4, <1>5, <1>6, <1>7 DEF IInv

----------------------------------------------------------------------------
\* In every behaviour what the loop has read, what it will count and what the
\* exporter has copied are behind what has happened.
THEOREM ExporterInductive == Spec => []IInv
  <1>1. Init => IInv
    BY InitOK
  <1>2. IInv /\ [Next]_vars => IInv'
    BY QuietStep, GaugeStep, CountingStep, LandStep, ExitStep, OtherStep
       DEF Next, Loop, Quietly, Counting
  <1>. QED
    BY <1>1, <1>2, PTL DEF Spec

\* The gauges, the counters, the loop and the exporter's answer keep to their
\* ranges: no difference of tips wraps around.
THEOREM ExporterTypes == Spec => []TypeOK
  <1>1. IInv => TypeOK
    BY DEF IInv, Types
  <1>. QED
    BY <1>1, ExporterInductive, PTL

\* /status and /metrics: no mix of cycles, reorgs and restarts, with a relay that
\* rises and sinks, shows it higher than it has been while the process ran.  The
\* gauge that follow_reorg sets from the node's tip rests on the read before it.
THEOREM RelayIsShownRight == Spec => []RelayNotOverstated
  <1>1. IInv => RelayNotOverstated
    BY DEF IInv, Shown, RelayNotOverstated
  <1>. QED
    BY <1>1, ExporterInductive, PTL

\* add_sync_headers_submitted: no header is counted that has not landed.
THEOREM CountedHaveLanded == Spec => []HeadersLanded
  <1>1. IInv => HeadersLanded
    BY DEF IInv, Counted, HeadersLanded
  <1>. QED
    BY <1>1, ExporterInductive, PTL

\* inc_sync_poll_cycle_*: no cycle is counted under two outcomes.
THEOREM OneOutcome == Spec => []CyclesAddUp
  <1>1. IInv => CyclesAddUp
    <2>. SUFFICES ASSUME IInv, Outcome \cup {"cycles"} \subseteq shown, memory["cycles"] < Cap
                  PROVE  memory["progressed"] + memory["up_to_date"] + memory["errors"]
                            <= memory["cycles"]
      BY DEF CyclesAddUp
    <2>1. /\ memory["cycles"] \in Nat /\ memory["progressed"] \in Nat
          /\ memory["up_to_date"] \in Nat /\ memory["errors"] \in Nat
      BY Have DEF Outcome
    <2>. QED
      BY <2>1, Have DEF Outcomes
  <1>. QED
    BY <1>1, ExporterInductive, PTL
=============================================================================
