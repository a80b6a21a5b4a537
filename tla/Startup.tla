------------------------------- MODULE Startup -------------------------------
(***************************************************************************)
(* A process of the relayer from its start to the sync loop and its end:   *)
(* main and run_app_with of src/main.rs, the checks of src/startup.rs with *)
(* the counters of observe_startup_check, and the supervisor that starts   *)
(* the next process.  One action is one RPC, or one check without RPC.     *)
(*                                                                         *)
(* Meanwhile the Bitcoin node goes down, comes back, possibly in its       *)
(* initial block download, and completes it; the EVM node goes down and    *)
(* comes back.                                                             *)
(***************************************************************************)
EXTENDS Configuration, Integers

CONSTANTS
    MaxOdd,      \* bound: settings that differ from a right configuration, 1 or 2
    MaxOutages   \* bound: times a node goes down

ASSUME StartupAssumption == MaxOdd \in 1..2 /\ MaxOutages \in Nat

VARIABLES
    env,      \* the environment every process is started with
    bitcoin,  \* down, ibd, ready
    evm,      \* down, up
    outages,
    phase,    \* what the process does next
    ran, bad  \* startup_checks_total and startup_checks_failed_total, by check

nodes == <<bitcoin, evm, outages>>
counts == <<ran, bad>>
vars == <<env, nodes, phase, counts>>

Checks == {"config_validate", "bitcoin_rpc_smoke_check", "evm_relay_read_check"}

\* The phases in their order, and the one after each.
After == [load |-> "bind", bind |-> "validate", validate |-> "ibd",
          ibd |-> "count", count |-> "best_hash", best_hash |-> "header",
          header |-> "relay_tip", relay_tip |-> "commit", commit |-> "wallet",
          wallet |-> "balance", balance |-> "loop"]

CheckOf(p) ==
    CASE p = "validate" -> "config_validate"
      [] p \in {"ibd", "count", "best_hash", "header"} -> "bitcoin_rpc_smoke_check"
      [] p \in {"relay_tip", "commit", "wallet", "balance"} -> "evm_relay_read_check"

\* The phase whose success completes its check.
Last == {"validate", "header", "balance"}

TypeOK ==
    /\ \A f \in Fields : env[f] \in Options(f)
    /\ bitcoin \in {"down", "ibd", "ready"} /\ evm \in {"down", "up"}
    /\ outages \in 0..MaxOutages
    /\ phase \in DOMAIN After \cup {"loop", "exiting", "down"}
    /\ ran \in [Checks -> 0..1] /\ bad \in [Checks -> 0..1]

----------------------------------------------------------------------------
\* Does the step of phase p succeed?

BitcoinUp == bitcoin # "down" /\ BitcoinAnswers(env)

EvmUp == evm = "up" /\ EvmAnswers(env)

Passes(p) ==
    CASE p = "load" -> Loads(env)
      [] p = "bind" -> Binds(env)
      [] p = "validate" -> Valid(env)
      [] p \in {"count", "best_hash", "header"} -> BitcoinUp
      [] p \in {"relay_tip", "commit"} -> evm = "up" /\ ContractAnswers(env)
      [] p = "wallet" -> KeyParses(env)
      [] p = "balance" -> EvmUp

\* Mutant: only the outcome of the last probe is counted.
ObserveMutant(c, ok) ==
    /\ ran' = [ran EXCEPT ![c] = @ + 1]
    /\ UNCHANGED bad

\* observe_startup_check
Observe(c, ok) ==
    /\ ran' = [ran EXCEPT ![c] = @ + 1]
    /\ bad' = IF ok THEN bad ELSE [bad EXCEPT ![c] = @ + 1]

\* AppConfig::load and the exporter's bind are not startup checks.
Uncounted == {"load", "bind"}

Passed ==
    /\ phase \in DOMAIN After \ {"ibd"}
    /\ Passes(phase)
    /\ phase' = After[phase]
    /\ IF phase \in Last THEN Observe(CheckOf(phase), TRUE) ELSE UNCHANGED counts
    /\ UNCHANGED <<env, nodes>>

\* The first error ends main.
Failed ==
    /\ phase \in DOMAIN After \ {"ibd"}
    /\ ~Passes(phase)
    /\ phase' = "exiting"
    /\ IF phase \notin Uncounted THEN Observe(CheckOf(phase), FALSE) ELSE UNCHANGED counts
    /\ UNCHANGED <<env, nodes>>

\* Mutant: the wait ends when the node says it is still downloading.
IbdOverMutant == BitcoinUp /\ bitcoin = "ibd"

\* Ok(false).  Ok(true), and every error, sleep and poll again.
IbdOver == BitcoinUp /\ bitcoin = "ready"

IbdDone ==
    /\ phase = "ibd"
    /\ IbdOver
    /\ phase' = "count"
    /\ UNCHANGED <<env, nodes, counts>>

\* The node is asked again after bitcoin_ibd_poll_secs; the loop polls on.
PollAgain ==
    /\ (phase = "ibd" /\ ~IbdOver) \/ phase = "loop"
    /\ UNCHANGED vars

\* run_sync_loop returns an error (module SyncEngine): for a node that is down or a
\* setting that no check tests, but between healthy nodes too, after a reorganisation
\* or a confirmation that timed out at the wrong moment.
LoopFails ==
    /\ phase = "loop"
    /\ phase' = "exiting"
    /\ UNCHANGED <<env, nodes, counts>>

\* Mutant: the counters outlive the process.
ForgetMutant == UNCHANGED counts

Forget == ran' = [c \in Checks |-> 0] /\ bad' = ran'

\* main returns: the process goes, and its registry with it.
Gone ==
    /\ phase = "exiting"
    /\ phase' = "down"
    /\ Forget
    /\ UNCHANGED <<env, nodes>>

\* "restart: unless-stopped"
Restart ==
    /\ phase = "down"
    /\ phase' = "load"
    /\ UNCHANGED <<env, nodes, counts>>

----------------------------------------------------------------------------
\* The nodes.

Outage ==
    /\ outages < MaxOutages /\ outages' = outages + 1
    /\ \/ bitcoin # "down" /\ bitcoin' = "down" /\ UNCHANGED evm
       \/ evm # "down" /\ evm' = "down" /\ UNCHANGED bitcoin
    /\ UNCHANGED <<env, phase, counts>>

Return ==
    /\ \/ bitcoin = "down" /\ bitcoin' \in {"ibd", "ready"} /\ UNCHANGED evm
       \/ bitcoin = "ibd" /\ bitcoin' = "ready" /\ UNCHANGED evm
       \/ evm = "down" /\ evm' = "up" /\ UNCHANGED bitcoin
    /\ UNCHANGED <<env, outages, phase, counts>>

----------------------------------------------------------------------------
\* Every environment with up to MaxOdd settings that are not as they should be.
Odd(e) == UNION {{[e EXCEPT ![f] = o] : o \in Options(f)} : f \in Fields}

Environments ==
    LET once == Odd(OwnNode) \cup Odd(Hosted)
    IN  IF MaxOdd = 1 THEN once ELSE UNION {Odd(e) : e \in once}

Init ==
    /\ env \in Environments
    /\ bitcoin \in {"down", "ibd", "ready"} /\ evm \in {"down", "up"}
    /\ outages = 0
    /\ phase = "load"
    /\ ran = [c \in Checks |-> 0] /\ bad = ran

Process == Passed \/ Failed \/ IbdDone \/ Gone

Next == Process \/ PollAgain \/ LoopFails \/ Restart \/ Outage \/ Return

Spec == Init /\ [][Next]_vars

\* The process runs, and is started again.  Nothing is assumed of the nodes.
FairSpec == Spec /\ WF_vars(Process) /\ WF_vars(Restart)

----------------------------------------------------------------------------
\* The loop only starts with what it needs: settings its clients can work
\* with, and a node, a login, a contract and a key that have answered once.
LoopIsEquipped ==
    phase = "loop" =>
        /\ CanSubmit(env) /\ CanLoop(env)
        /\ BitcoinAnswers(env) /\ ContractAnswers(env)

\* The counters tell how far a process that ends has come: no check ran (load
\* or the exporter failed), all passed (the loop failed), or one failed, those
\* before it had passed and those after it never ran.
FailureIsNamed ==
    LET Fine(c) == ran[c] = 1 /\ bad[c] = 0
        Order == <<"config_validate", "bitcoin_rpc_smoke_check", "evm_relay_read_check">>
    IN  /\ phase = "loop" => \A c \in Checks : Fine(c)
        /\ phase = "exiting" =>
               \/ \A c \in Checks : ran[c] = 0 /\ bad[c] = 0
               \/ \A c \in Checks : Fine(c)
               \/ \E i \in 1..3 :
                      /\ ran[Order[i]] = 1 /\ bad[Order[i]] = 1
                      /\ \A j \in 1..(i - 1) : Fine(Order[j])
                      /\ \A j \in (i + 1)..3 : ran[Order[j]] = 0 /\ bad[Order[j]] = 0

\* Once both nodes stay up and the initial block download is over, a relayer whose
\* settings pass the checks always gets back into its loop, however its start and
\* the outages fell together and however often the loop ends.
Recovers ==
    Startable(env) /\ <>[](bitcoin = "ready" /\ evm = "up") => []<>(phase = "loop")

\* "Catches auth and URL typos early": with the node up and a wrong URL or
\* login, the smoke check does not let the process go on, it ends it.
TypoIsCaught ==
    [](phase = "ibd" /\ ~BitcoinAnswers(env) => <>(phase = "exiting"))
=============================================================================
