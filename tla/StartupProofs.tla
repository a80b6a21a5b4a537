---------------------------- MODULE StartupProofs ----------------------------
(***************************************************************************)
(* A process reaches the loop only with what it needs, and the counters    *)
(* name what ended it.  TLC follows environments that differ from a right  *)
(* one in MaxOdd settings; here any setting may be anything (AnySpec).     *)
(*                                                                         *)
(* The argument: every phase rests on what the ones before it have found   *)
(* out (Found); the environment does not change while the process runs, so *)
(* an answer that was given once stays possible although the node may be   *)
(* down by now.  The counters say how many checks are done (Counted).      *)
(***************************************************************************)
EXTENDS Startup, TLAPS

\* Any combination of settings.
Chosen(e) == DOMAIN e = Fields /\ \A f \in Fields : e[f] \in Options(f)

AnyInit ==
    /\ Chosen(env)
    /\ bitcoin \in {"down", "ibd", "ready"} /\ evm \in {"down", "up"}
    /\ outages = 0
    /\ phase = "load"
    /\ ran = [c \in Checks |-> 0] /\ bad = ran

AnySpec == AnyInit /\ [][Next]_vars

\* The phases of each check, in their order.
BitcoinPhases == {"ibd", "count", "best_hash", "header"}
EvmPhases == {"relay_tip", "commit", "wallet", "balance"}
Phases == {"load", "bind", "validate"} \cup BitcoinPhases \cup EvmPhases

Order == <<"config_validate", "bitcoin_rpc_smoke_check", "evm_relay_read_check">>

\* The first n checks have passed and no other one has run.
Done(n) ==
    /\ \A i \in 1..3 : i <= n => ran[Order[i]] = 1 /\ bad[Order[i]] = 0
    /\ \A i \in 1..3 : i > n => ran[Order[i]] = 0 /\ bad[Order[i]] = 0

\* The n-th check has failed, and ended the startup.
Broken(n) ==
    /\ \A i \in 1..3 : i < n => ran[Order[i]] = 1 /\ bad[Order[i]] = 0
    /\ ran[Order[n]] = 1 /\ bad[Order[n]] = 1
    /\ \A i \in 1..3 : i > n => ran[Order[i]] = 0 /\ bad[Order[i]] = 0

Counted ==
    /\ phase \in {"down", "load", "bind", "validate"} => Done(0)
    /\ phase \in BitcoinPhases => Done(1)
    /\ phase \in EvmPhases => Done(2)
    /\ phase = "loop" => Done(3)
    /\ phase = "exiting" => Done(0) \/ Done(3) \/ \E n \in 1..3 : Broken(n)

\* What is known of the environment in each phase.
Found ==
    /\ phase \in BitcoinPhases \cup EvmPhases \cup {"loop"} => Valid(env)
    /\ phase \in EvmPhases \cup {"count", "best_hash", "header", "loop"} => BitcoinAnswers(env)
    /\ phase \in {"commit", "wallet", "balance", "loop"} => ContractAnswers(env)
    /\ phase \in {"balance", "loop"} => KeyParses(env)

IInv == TypeOK /\ Counted /\ Found

----------------------------------------------------------------------------
LEMMA PhasesOf ==
    /\ DOMAIN After = Phases
    /\ After.load = "bind" /\ After.bind = "validate" /\ After.validate = "ibd"
    /\ After.ibd = "count" /\ After.count = "best_hash" /\ After.best_hash = "header"
    /\ After.header = "relay_tip" /\ After.relay_tip = "commit" /\ After.commit = "wallet"
    /\ After.wallet = "balance" /\ After.balance = "loop"
  BY DEF After, Phases, BitcoinPhases, EvmPhases

LEMMA Environment ==
    ASSUME NEW e, Chosen(e)
    PROVE  \A x \in Odd(e) : Chosen(x)
  BY DEF Chosen, Odd

LEMMA EnvironmentsChosen == \A e \in Environments : Chosen(e)
  <1>1. Chosen(OwnNode) /\ Chosen(Hosted)
    BY DEF Chosen, OwnNode, Hosted, Options, Fields, Urls, Logins, Keys, Texts, Numbers,
           Positive, Retired
  <1>2. \A e \in Odd(OwnNode) \cup Odd(Hosted) : Chosen(e)
    BY <1>1, Environment
  <1>. QED
    BY <1>2, Environment DEF Environments

\* The module's environments are some of all.
LEMMA SpecIsAny == Spec => AnySpec
  <1>1. Init => AnyInit
    BY EnvironmentsChosen DEF Init, AnyInit
  <1>. QED
    BY <1>1, PTL DEF Spec, AnySpec

----------------------------------------------------------------------------
LEMMA InitOK == ASSUME AnyInit PROVE IInv
  <1>1. TypeOK
    BY StartupAssumption, PhasesOf DEF AnyInit, TypeOK, Chosen, Phases, Checks
  <1>2. Counted /\ Found
    BY DEF AnyInit, Counted, Found, Done, Order, Checks, BitcoinPhases, EvmPhases
  <1>. QED
    BY <1>1, <1>2 DEF IInv

\* A probe counts as one check at most, and only after those before it.
LEMMA ObserveCounts ==
    ASSUME ran \in [Checks -> 0..1], bad \in [Checks -> 0..1],
           NEW n \in 0..2, Done(n), NEW ok \in BOOLEAN, Observe(Order[n + 1], ok)
    PROVE  /\ ran' \in [Checks -> 0..1] /\ bad' \in [Checks -> 0..1]
           /\ ok => Done(n + 1)'
           /\ ~ok => Broken(n + 1)'
  <1>1. /\ Order[1] = "config_validate" /\ Order[2] = "bitcoin_rpc_smoke_check"
        /\ Order[3] = "evm_relay_read_check"
        /\ n + 1 \in 1..3
    BY DEF Order
  <1>2. ran[Order[n + 1]] = 0 /\ bad[Order[n + 1]] = 0
    BY <1>1 DEF Done
  <1>3. /\ ran' = [ran EXCEPT ![Order[n + 1]] = 1]
        /\ ok => bad' = bad
        /\ ~ok => bad' = [bad EXCEPT ![Order[n + 1]] = 1]
    BY <1>2, <1>1 DEF Observe, Checks
  <1>4. ran' \in [Checks -> 0..1] /\ bad' \in [Checks -> 0..1]
    BY <1>1, <1>3 DEF Checks
  <1>5. CASE n = 0
    BY <1>1, <1>3, <1>4, <1>5 DEF Done, Broken, Checks
  <1>6. CASE n = 1
    BY <1>1, <1>3, <1>4, <1>6 DEF Done, Broken, Checks
  <1>7. CASE n = 2
    BY <1>1, <1>3, <1>4, <1>7 DEF Done, Broken, Checks
  <1>. QED
    BY <1>5, <1>6, <1>7

\* How far the checks are in each phase of the startup, and whose it is.
Passing(p) ==
    CASE p \in {"load", "bind", "validate"} -> 0
      [] p \in BitcoinPhases -> 1
      [] p \in EvmPhases -> 2

LEMMA PhaseCheck ==
    ASSUME IInv, phase \in Phases
    PROVE  /\ Passing(phase) \in 0..2
           /\ Done(Passing(phase))
           /\ phase \notin Uncounted => CheckOf(phase) = Order[Passing(phase) + 1]
  BY DEF IInv, Counted, Passing, Phases, BitcoinPhases, EvmPhases, CheckOf, Uncounted, Order

LEMMA PassedStep == ASSUME IInv, Passed PROVE IInv'
  <1>. USE PhasesOf
  <1>1. /\ phase \in Phases \ {"ibd"} /\ Passes(phase) /\ phase' = After[phase]
        /\ UNCHANGED <<env, bitcoin, evm, outages>>
    BY DEF Passed, nodes
  <1>2. PICK n \in 0..2 : n = Passing(phase)
    BY <1>1, PhaseCheck
  <1>3. ran \in [Checks -> 0..1] /\ bad \in [Checks -> 0..1] /\ Done(n)
    BY <1>1, <1>2, PhaseCheck DEF IInv, TypeOK
  <1>4. /\ ran' \in [Checks -> 0..1] /\ bad' \in [Checks -> 0..1]
        /\ phase \in Last => Done(n + 1)'
        /\ phase \notin Last => Done(n)'
    <2>1. CASE phase \in Last
      <3>1. Observe(Order[n + 1], TRUE)
        BY <1>1, <1>2, <2>1, PhaseCheck DEF Passed, Last, Uncounted
      <3>. QED
        BY <1>3, <2>1, <3>1, ObserveCounts
    <2>2. CASE phase \notin Last
      <3>1. UNCHANGED <<ran, bad>>
        BY <2>2 DEF Passed, counts
      <3>. QED
        BY <1>3, <2>2, <3>1 DEF Done
    <2>. QED
      BY <2>1, <2>2
  <1>5. Counted'
    <2>1. CASE n = 0
      <3>1. phase \in {"load", "bind", "validate"}
        BY <1>1, <1>2, <2>1 DEF Passing, Phases, BitcoinPhases, EvmPhases
      <3>. QED
        BY <1>1, <1>4, <2>1, <3>1 DEF Counted, Last, BitcoinPhases, EvmPhases
    <2>2. CASE n = 1
      <3>1. phase \in {"count", "best_hash", "header"}
        BY <1>1, <1>2, <2>2 DEF Passing, Phases, BitcoinPhases, EvmPhases
      <3>. QED
        BY <1>1, <1>4, <2>2, <3>1 DEF Counted, Last, BitcoinPhases, EvmPhases
    <2>3. CASE n = 2
      <3>1. phase \in EvmPhases
        BY <1>1, <1>2, <2>3 DEF Passing, Phases, BitcoinPhases, EvmPhases
      <3>. QED
        BY <1>1, <1>4, <2>3, <3>1 DEF Counted, Last, BitcoinPhases, EvmPhases
    <2>. QED
      BY <2>1, <2>2, <2>3
  <1>6. Found'
    BY <1>1 DEF IInv, Found, Passes, BitcoinUp, Phases, BitcoinPhases, EvmPhases
  <1>7. TypeOK'
    BY <1>1, <1>4 DEF IInv, TypeOK, Phases, BitcoinPhases, EvmPhases
  <1>. QED
    BY <1>5, <1>6, <1>7 DEF IInv

LEMMA FailedStep == ASSUME IInv, Failed PROVE IInv'
  <1>. USE PhasesOf
  <1>1. /\ phase \in Phases \ {"ibd"} /\ phase' = "exiting"
        /\ UNCHANGED <<env, bitcoin, evm, outages>>
    BY DEF Failed, nodes
  <1>2. PICK n \in 0..2 : n = Passing(phase)
    BY <1>1, PhaseCheck
  <1>3. ran \in [Checks -> 0..1] /\ bad \in [Checks -> 0..1] /\ Done(n)
    BY <1>1, <1>2, PhaseCheck DEF IInv, TypeOK
  <1>4. /\ ran' \in [Checks -> 0..1] /\ bad' \in [Checks -> 0..1]
        /\ Broken(n + 1)' \/ Done(0)'
    <2>1. CASE phase \notin Uncounted
      <3>1. Observe(Order[n + 1], FALSE)
        BY <1>1, <1>2, <2>1, PhaseCheck DEF Failed
      <3>. QED
        BY <1>3, <3>1, ObserveCounts
    <2>2. CASE phase \in Uncounted
      <3>1. Done(0) /\ UNCHANGED <<ran, bad>>
        BY <2>2 DEF IInv, Counted, Uncounted, Failed, counts
      <3>. QED
        BY <1>3, <3>1 DEF Done
    <2>. QED
      BY <2>1, <2>2
  <1>5. Counted'
    <2>1. n + 1 \in 1..3
      OBVIOUS
    <2>2. Done(0)' \/ \E i \in 1..3 : Broken(i)'
      BY <1>4, <2>1
    <2>. QED
      BY <1>1, <2>2 DEF Counted, BitcoinPhases, EvmPhases
  <1>6. Found'
    BY <1>1 DEF Found, BitcoinPhases, EvmPhases
  <1>7. TypeOK'
    BY <1>1, <1>4 DEF IInv, TypeOK
  <1>. QED
    BY <1>5, <1>6, <1>7 DEF IInv

\* The steps that leave environment and counters alone.
LEMMA QuietStep ==
    ASSUME IInv, IbdDone \/ LoopFails \/ Restart
    PROVE  IInv'
  <1>. USE PhasesOf
  <1>1. /\ UNCHANGED <<env, bitcoin, evm, outages, ran, bad>>
        /\ \/ phase = "ibd" /\ phase' = "count" /\ BitcoinAnswers(env)
           \/ phase = "loop" /\ phase' = "exiting"
           \/ phase = "down" /\ phase' = "load"
    BY DEF IbdDone, IbdOver, BitcoinUp, LoopFails, Restart, nodes, counts
  <1>2. \A n \in 0..3 : Done(n) => Done(n)'
    BY <1>1 DEF Done
  <1>3. Counted'
    BY <1>1, <1>2 DEF IInv, Counted, BitcoinPhases, EvmPhases
  <1>4. Found'
    BY <1>1 DEF IInv, Found, BitcoinPhases, EvmPhases
  <1>5. TypeOK'
    BY <1>1 DEF IInv, TypeOK, Phases, BitcoinPhases
  <1>. QED
    BY <1>3, <1>4, <1>5 DEF IInv

LEMMA GoneStep == ASSUME IInv, Gone PROVE IInv'
  <1>1. /\ phase' = "down" /\ UNCHANGED <<env, bitcoin, evm, outages>>
        /\ ran' = [c \in Checks |-> 0] /\ bad' = [c \in Checks |-> 0]
    BY DEF Gone, Forget, nodes
  <1>2. Counted'
    BY <1>1 DEF Counted, Done, Order, Checks, BitcoinPhases, EvmPhases
  <1>3. Found'
    BY <1>1 DEF Found, BitcoinPhases, EvmPhases
  <1>4. TypeOK'
    BY <1>1 DEF IInv, TypeOK
  <1>. QED
    BY <1>2, <1>3, <1>4 DEF IInv

\* The nodes' moves: what was found out does not depend on them.
LEMMA NodeStep ==
    ASSUME IInv, Outage \/ Return \/ UNCHANGED vars
    PROVE  IInv'
  <1>1. /\ UNCHANGED <<env, phase, ran, bad>>
        /\ bitcoin' \in {"down", "ibd", "ready"} /\ evm' \in {"down", "up"}
        /\ outages' \in 0..MaxOutages
    BY StartupAssumption DEF IInv, TypeOK, Outage, Return, vars, nodes, counts
  <1>2. Counted'
    BY <1>1 DEF IInv, Counted, Done, Broken
  <1>3. Found'
    BY <1>1 DEF IInv, Found
  <1>4. TypeOK'
    BY <1>1 DEF IInv, TypeOK
  <1>. QED
    BY <1>2, <1>3, <1>4 DEF IInv

LEMMA NextStep == ASSUME IInv, [Next]_vars PROVE IInv'
  BY PassedStep, FailedStep, QuietStep, GoneStep, NodeStep DEF Next, Process, PollAgain

----------------------------------------------------------------------------
\* Whatever the settings are, and whenever the nodes go down and come back:
\* each phase rests on what those before it have found out, and the counters
\* say how many checks are done.
THEOREM StartupInductive == AnySpec => []IInv
  <1>1. AnyInit => IInv
    BY InitOK
  <1>2. IInv /\ [Next]_vars => IInv'
    BY NextStep
  <1>. QED
    BY <1>1, <1>2, PTL DEF AnySpec

LEMMA Equipped == ASSUME IInv PROVE LoopIsEquipped
  <1>. SUFFICES ASSUME phase = "loop"
                PROVE  /\ CanSubmit(env) /\ CanLoop(env)
                       /\ BitcoinAnswers(env) /\ ContractAnswers(env)
    BY DEF LoopIsEquipped
  <1>1. Valid(env) /\ BitcoinAnswers(env) /\ ContractAnswers(env) /\ KeyParses(env)
    BY DEF IInv, Found, EvmPhases, BitcoinPhases
  <1>2. CanSubmit(env) /\ CanLoop(env)
    BY <1>1 DEF CanSubmit, CanLoop, Valid, AboveZero, Positive, Keys, ContractAnswers, KeyParses
  <1>. QED
    BY <1>1, <1>2

LEMMA Named == ASSUME IInv PROVE FailureIsNamed
  <1>. USE DEF Done, Broken, Order
  <1>1. Checks = {Order[1], Order[2], Order[3]}
    BY DEF Checks
  <1>2. phase = "loop" => \A c \in Checks : ran[c] = 1 /\ bad[c] = 0
    BY <1>1 DEF IInv, Counted
  <1>3. CASE phase # "exiting"
    BY <1>2, <1>3 DEF FailureIsNamed
  <1>4. CASE phase = "exiting" /\ Done(0)
    BY <1>1, <1>4 DEF FailureIsNamed
  <1>5. CASE phase = "exiting" /\ Done(3)
    BY <1>1, <1>5 DEF FailureIsNamed
  <1>6. CASE phase = "exiting" /\ \E n \in 1..3 : Broken(n)
    <2>1. PICK n \in 1..3 : Broken(n)
      BY <1>6
    <2>2. /\ ran[Order[n]] = 1 /\ bad[Order[n]] = 1
          /\ \A j \in 1..(n - 1) : ran[Order[j]] = 1 /\ bad[Order[j]] = 0
          /\ \A j \in (n + 1)..3 : ran[Order[j]] = 0 /\ bad[Order[j]] = 0
      BY <2>1
    <2>. QED
      BY <1>6, <2>2 DEF FailureIsNamed
  <1>. QED
    BY <1>3, <1>4, <1>5, <1>6 DEF IInv, Counted

\* Whatever the settings are, the loop only starts with what it needs, and the
\* counters name the check that ended the process.
THEOREM AnyEnvironment == AnySpec => [](LoopIsEquipped /\ FailureIsNamed)
  <1>1. IInv => LoopIsEquipped /\ FailureIsNamed
    BY Equipped, Named
  <1>. QED
    BY <1>1, StartupInductive, PTL

\* The process, its counters and the nodes keep to their ranges.
THEOREM StartupTypes == Spec => []TypeOK
  <1>1. IInv => TypeOK
    BY DEF IInv
  <1>. QED
    BY <1>1, StartupInductive, SpecIsAny, PTL

\* main, run_startup_checks: no loop without settings its clients can work with
\* and a node, a login, a contract and a key that have answered once.
THEOREM LoopStartsEquipped == Spec => []LoopIsEquipped
  <1>1. IInv => LoopIsEquipped
    BY Equipped
  <1>. QED
    BY <1>1, StartupInductive, SpecIsAny, PTL

\* observe_startup_check: the counters of a process that ends say which check
\* failed, if one did, and that those before it had passed.
THEOREM FailuresAreNamed == Spec => []FailureIsNamed
  <1>1. IInv => FailureIsNamed
    BY Named
  <1>. QED
    BY <1>1, StartupInductive, SpecIsAny, PTL
=============================================================================
