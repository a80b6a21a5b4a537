---------------------------- MODULE Configuration ----------------------------
(***************************************************************************)
(* src/configs.rs: which environments AppConfig::load accepts and which    *)
(* configurations AppConfig::validate lets pass, against what the clients  *)
(* and the sync engine need of them.  Of a setting only its class matters: *)
(*    unset, empty, zero, junk (not a number), good                        *)
(*    malformed   not a URL, an address or a key of the right shape        *)
(*    wrong       well-formed, but not the one of this deployment          *)
(*    keyed       a URL with its API key in it (hosted node)               *)
(***************************************************************************)

Urls == {"bitcoin_rpc_url", "evm_rpc_url"}
Logins == {"bitcoin_rpc_user", "bitcoin_rpc_password"}
Keys == {"relay_contract_address", "relayer_private_key"}
Texts == {"state_file_path", "metrics_bind_addr"}

\* The numbers that validate wants above zero.
Positive == {"bitcoin_rpc_timeout_secs", "bitcoin_ibd_poll_secs", "evm_chain_id",
             "evm_tx_confirmations", "evm_tx_timeout_secs", "poll_interval_secs",
             "catchup_batch_size", "short_fork_limit"}

Numbers == Positive \cup {"evm_max_fee_gwei", "evm_priority_fee_wei", "start_height",
                          "live_lag_threshold", "evm_low_balance_txs_left_warn"}

Retired == {"evm_priority_fee_gwei"}

Fields == Urls \cup Logins \cup Keys \cup Texts \cup Numbers \cup Retired

\* The fields without a serde default that are not an Option.
Required == Urls \cup Logins \cup Keys \cup {"poll_interval_secs", "start_height"}

Options(f) ==
    CASE f \in Urls    -> {"unset", "malformed", "wrong", "keyed", "good"}
      [] f \in Logins  -> {"unset", "empty", "wrong", "good"}
      [] f \in Keys    -> {"unset", "empty", "malformed", "wrong", "good"}
      [] f \in Texts   -> {"unset", "empty", "wrong", "good"}
      [] f \in Numbers -> {"unset", "junk", "zero", "good"}
      [] f \in Retired -> {"unset", "good"}

\* A node of one's own with a login; a hosted one with its key in the URL.
OwnNode == [f \in Fields |-> IF f \in Retired THEN "unset" ELSE "good"]

Hosted == [f \in Fields |->
              CASE f = "bitcoin_rpc_url" -> "keyed"
                [] f \in Logins -> "empty"
                [] OTHER -> OwnNode[f]]

\* AppConfig::load.  A value of a retired variable is refused, not ignored.
Loads(env) ==
    /\ \A f \in Retired : env[f] = "unset"
    /\ \A f \in Required : env[f] # "unset"
    /\ \A f \in Numbers : env[f] # "junk"

\* Mutant: the timeout of a transaction may be zero.
AboveZeroMutant(env, f) == f # "evm_tx_timeout_secs" => env[f] # "zero"

AboveZero(env, f) == env[f] # "zero"

\* AppConfig::validate.  The private key only has to be there.
Valid(env) ==
    /\ \A f \in Urls : env[f] # "malformed"
    /\ \A f, g \in Logins : env[f] = "empty" => env[g] = "empty"
    /\ \A f \in Positive : AboveZero(env, f)
    /\ env["relay_contract_address"] \notin {"empty", "malformed"}
    /\ env["relayer_private_key"] # "empty"
    /\ \A f \in Texts : env[f] # "empty"

----------------------------------------------------------------------------
\* What the rest of the program needs of a configuration it runs with.

\* send_tx and wait_for_confirmation refuse to work otherwise.
CanSubmit(env) ==
    /\ \A f \in {"evm_chain_id", "evm_tx_timeout_secs", "evm_tx_confirmations"} :
           env[f] # "zero"
    /\ \A f \in Keys : env[f] \in {"wrong", "good"}

\* run_sync_loop sleeps between cycles, and none of its batches is empty.
CanLoop(env) ==
    \A f \in {"poll_interval_secs", "catchup_batch_size", "short_fork_limit",
              "bitcoin_rpc_timeout_secs"} : env[f] # "zero"

\* The node knows the login; basic auth is left out when both parts are empty.
BitcoinAnswers(env) ==
    \/ env["bitcoin_rpc_url"] = "good" /\ \A f \in Logins : env[f] = "good"
    \/ env["bitcoin_rpc_url"] = "keyed" /\ \A f \in Logins : env[f] = "empty"

EvmAnswers(env) == env["evm_rpc_url"] \in {"good", "keyed"}

\* A contract of another kind does not answer getBlockheight.
ContractAnswers(env) == EvmAnswers(env) /\ env["relay_contract_address"] = "good"

\* "wrong" is the key of another account: its balance can be read too.
KeyParses(env) == env["relayer_private_key"] \in {"good", "wrong"}

\* tiny_http::Server::http takes the address.
Binds(env) == env["metrics_bind_addr"] \notin {"empty", "wrong"}

\* Every check of a start passes once both nodes answer.  More is not promised: nothing
\* asks for a fee above zero, an account that may submit or a file that can be written.
Startable(env) ==
    /\ Loads(env) /\ Valid(env) /\ Binds(env)
    /\ BitcoinAnswers(env) /\ ContractAnswers(env) /\ KeyParses(env)
=============================================================================
