----------------------------- MODULE RpcFailure ------------------------------
(***************************************************************************)
(* What becomes of one RPC inside a batch, from the wire to the decision   *)
(* between backing off and giving up: rpc_call of src/bitcoin_rpc.rs,      *)
(* rpc_request, parse_json_rpc_response, send_transaction and the receipt  *)
(* poll of src/evm_relay_contract_client.rs, and classify_retry_decision   *)
(* of src/sync_engine.rs, which is given nothing but the error's text.     *)
(*                                                                         *)
(* A text is the set of the Fragments that occur in it, each wherever it   *)
(* stands: a marker in a server's own message, digits in a height. So to   *)
(* search a text for a marker is to ask whether it is in the set; what is  *)
(* written with a number in it also holds the number. `format!("{:#}")`    *)
(* prints the whole chain of contexts: nothing an inner layer said is lost.*)
(***************************************************************************)
EXTENDS Integers

CONSTANTS
    Statuses,  \* the HTTP statuses that nodes and proxies answer with
    Messages   \* what servers and contracts write in their own words, as texts

ASSUME StatusAssumption == Statuses \subseteq Nat /\ 200 \in Statuses

RevertMarkers == {"execution reverted", "transaction reverted"}

\* Mutant: a bare "429" for the two ways of printing the code.
RetryMarkersMutant ==
    {"timeout", "timed out", "temporarily unavailable", "connection reset",
     "connection refused", "transport failed", "too many requests", "service unavailable",
     "429", "network", "broken pipe"}

RetryMarkers ==
    {"timeout", "timed out", "temporarily unavailable", "connection reset",
     "connection refused", "transport failed", "too many requests", "service unavailable",
     "code: 429", "\"code\":429", "network", "broken pipe"}

\* The digits of statuses, as they also occur in heights and hashes.
Numbers == {"429", "503"}

Fragments == RevertMarkers \cup RetryMarkers \cup Numbers

\* A message in which a node says that the call was reverted is a revert.
ASSUME MessageAssumption ==
    {} \in Messages /\ Messages \subseteq SUBSET (Fragments \ RevertMarkers)

BitcoinCalls == {"getblockhash", "getblockheader", "chainwork"}

\* Calls of rpc_request; a receipt and the head are polled until the deadline.
EvmCalls == {"eth_call", "receipt", "head"}

\* What the network and the server do with a request.
Links == {"ok", "refused", "reset", "slow", "unresolved"}

Errors == {"none", "code 429", "code -32005", "warming up", "out of range", "revert"}

VARIABLES
    call,     \* one of the calls, or "send": send_transaction
    reply,    \* what comes back
    at,       \* the next layer
    by,       \* the layer that failed
    text,     \* the text of the error so far
    height,   \* the heights and hashes in the batch's contexts, as a text
    decision  \* none, retry, hard

vars == <<call, reply, at, by, text, height, decision>>

Calls == BitcoinCalls \cup EvmCalls \cup {"send"}

\* body: whether it is JSON; shape: whether the result is what the call expects.
\* message: what the server, or the contract that reverts, says beside it.
Replies == [link: Links, status: Statuses, json: BOOLEAN,
            error: Errors, shape: {"right", "odd"}, message: Messages]

\* StatusCode::is_success
Success == 200..299

\* bitcoind reports errors of its own with status 500, an EVM node with 200; a
\* proxy in front of either has no such error, and its body is text or JSON.
Answers(c, r) ==
    /\ r.link # "ok" => r.status = 200 /\ r.json /\ r.error = "none" /\ r.shape = "right"
    /\ ~r.json => r.error = "none" /\ r.shape = "right"
    /\ r.status \notin Success \cup {500} /\ r.json =>
           r.error \in {"none", "code 429", "code -32005"} /\ r.shape = "odd"
    /\ r.error \in {"warming up", "out of range"} <=>
           r.link = "ok" /\ r.json /\ r.status = 500 /\ c \in BitcoinCalls
    /\ r.error = "revert" => r.status = 200 /\ c \in {"eth_call", "send"}
    /\ r.message # {} =>
           r.link = "ok" /\ (~r.json \/ r.error # "none" \/ r.status \notin Success)

\* 156429 holds "429"; most heights hold nothing.
Heights == SUBSET Numbers

----------------------------------------------------------------------------
\* What is printed.

\* A name that does not resolve gives no text that is looked for.
LinkText(l) ==
    CASE l = "refused"    -> {"connection refused"}
      [] l = "reset"      -> {"connection reset"}
      [] l = "slow"       -> {"timed out"}
      [] l = "unresolved" -> {}

\* "504 Gateway Timeout", "511 Network Authentication Required"
StatusText(s) ==
    {f \in {"429", "503", "too many requests", "service unavailable", "timeout", "network"} :
        \/ f \in {"429", "too many requests"} /\ s = 429
        \/ f \in {"503", "service unavailable"} /\ s = 503
        \/ f = "timeout" /\ s \in {408, 504}
        \/ f = "network" /\ s = 511}

\* The error object as JSON, with the server's message or the contract's reason.
ErrorText(e, m) ==
    m \cup CASE e = "code 429" -> {"\"code\":429", "429"}
             [] e = "revert"   -> {"execution reverted"}
             [] e \in {"none", "code -32005", "warming up", "out of range"} -> {}

\* ethers prints it as "(code: 429, message: ..., data: ...)".
EthersText(e, m) ==
    IF e = "code 429" THEN m \cup {"code: 429", "429"} ELSE ErrorText(e, m)

----------------------------------------------------------------------------
\* The layers.

Fails(layer, words) ==
    /\ by' = layer
    /\ text' = words
    /\ at' = "context"

Passes(next) == at' = next /\ UNCHANGED <<by, text>>

Same == UNCHANGED <<call, reply, height, decision>>

\* Mutant: the link's own error is all there is.
TransportMutant(l) == LinkText(l)

\* "bitcoin rpc transport failed", "eth_call transport failed"
Transport(l) == {"transport failed"} \cup LinkText(l)

Link ==
    /\ at = "link" /\ call # "send"
    /\ IF reply.link # "ok" THEN Fails("link", Transport(reply.link)) ELSE Passes("json")
    /\ Same

\* The body is decoded before the status is looked at: a body that is not JSON
\* hides the status.
Json ==
    /\ at = "json"
    /\ IF ~reply.json THEN Fails("json", {})
       ELSE Passes(IF call \in BitcoinCalls THEN "status" ELSE "error")
    /\ Same

\* rpc_call prints status and body; rpc_request has no such check.
Status ==
    /\ at = "status"
    /\ IF reply.status \notin Success
       THEN Fails("status", StatusText(reply.status) \cup ErrorText(reply.error, reply.message))
       ELSE Passes("error")
    /\ Same

\* Mutant: a result is looked for whatever the error says.
ErrorMutant == at = "error" /\ Passes("shape") /\ Same

Error ==
    /\ at = "error"
    /\ IF reply.error # "none" THEN Fails("error", ErrorText(reply.error, reply.message))
       ELSE Passes("shape")
    /\ Same

\* A field is missing, or is not what the call expects.
Shape ==
    /\ at = "shape"
    /\ IF reply.shape = "odd" THEN Fails("shape", {})
       ELSE Passes(IF call \in {"receipt", "head"} THEN "wait" ELSE "ok")
    /\ Same

\* The wait for a confirmation: enough of them, a revert, or the deadline.
Wait ==
    /\ at = "wait"
    /\ \/ Passes("ok")
       \/ call = "receipt" /\ Fails("revert", {"transaction reverted"})
       \/ Fails("deadline", {"timed out"})
    /\ Same

\* send_transaction goes through ethers, which prints a body it cannot parse,
\* and sets no limit: a request that is never answered never fails.
Broadcast ==
    /\ at = "link" /\ call = "send" /\ reply.link # "slow"
    /\ \/ reply.link # "ok" /\ Fails("link", LinkText(reply.link))
       \/ reply.link = "ok" /\ ~reply.json /\ Fails("json", reply.message)
       \/ reply.link = "ok" /\ reply.json /\ reply.error # "none"
              /\ Fails("error", EthersText(reply.error, reply.message))
       \/ reply.link = "ok" /\ reply.json /\ reply.error = "none" /\ reply.shape = "odd"
              /\ Fails("shape", {})
       \/ reply.link = "ok" /\ reply.json /\ reply.error = "none" /\ reply.shape = "right"
              /\ Passes("ok")
    /\ Same

\* Methods, hashes and heights are added on the way up to the batch.
Context ==
    /\ at = "context"
    /\ text' = text \cup height
    /\ at' = "decide"
    /\ UNCHANGED <<call, reply, by, height, decision>>

----------------------------------------------------------------------------
\* classify_retry_decision

\* str::contains, for each of the markers.
Matches(t, markers) == t \cap markers # {}

\* Mutant: without the test for a revert.
DecisionMutant(t) == IF Matches(t, RetryMarkers) THEN "retry" ELSE "hard"

Decision(t) ==
    IF ~Matches(t, RevertMarkers) /\ Matches(t, RetryMarkers) THEN "retry" ELSE "hard"

Decide ==
    /\ at = "decide"
    /\ decision' = Decision(text)
    /\ at' = "decided"
    /\ UNCHANGED <<call, reply, by, text, height>>

----------------------------------------------------------------------------
Init ==
    /\ call \in Calls
    /\ reply \in {r \in Replies : Answers(call, r)}
    /\ height \in Heights
    /\ at = "link" /\ by = "none" /\ text = {} /\ decision = "none"

Next ==
    \/ Link \/ Json \/ Status \/ Error \/ Shape \/ Wait \/ Broadcast
    \/ Context \/ Decide

Spec == Init /\ [][Next]_vars

----------------------------------------------------------------------------
Decided(d) == at = "decided" => decision = d

\* Only a complete answer without an error is taken for a result, by each of the
\* three ways a reply is read.
ResultIsAnswer ==
    at = "ok" =>
        /\ reply.link = "ok" /\ reply.json /\ reply.error = "none" /\ reply.shape = "right"
        /\ call \in BitcoinCalls => reply.status \in Success

\* "A revert is deterministic ... It must reach the reorg path": a revert is given up
\* on, in an estimate or on the chain, also when the contract's reason holds a marker
\* ("Pausable: network paused").
RevertIsHard ==
    by = "revert" \/ (by = "error" /\ reply.error = "revert") => Decided("hard")

\* The statuses whose names hold a marker.
TellingStatuses == {408, 429, 503, 504, 511}

\* A failure of which neither the relayer nor the server says anything that it should
\* be waited out for: a body that is not JSON, a result of another shape, an error or a
\* status whose message holds digits at most.
Quiet ==
    /\ by \in {"json", "status", "error", "shape"}
    /\ reply.error # "code 429" /\ reply.message \subseteq Numbers
    /\ by = "status" => reply.status \notin TellingStatuses

\* "markers must not be bare numbers": such a failure is given up on, whatever digits
\* the heights and hashes in its contexts hold.
HeightIsInnocent == Quiet => Decided("hard")

\* What is waited out whatever a server writes beside it: a link that fails before the
\* reply, except under a broadcast; of bitcoind and its proxies a limit, a timeout or an
\* unavailable service that comes with a JSON body; an error object with code 429, on
\* either side; a confirmation that is late. Nothing is said of other faults that pass:
\* a node that warms up, a limit reported as -32005, a 429 or 503 of the EVM side with no
\* error object, of which Decision sees only what the server happens to write.
TransientIsRetried ==
    \/ by = "link" /\ call # "send"
    \/ by = "status" /\ reply.status \in {408, 429, 503, 504}
    \/ by = "error" /\ reply.error = "code 429"
    \/ by = "deadline"
  => Decided("retry")
=============================================================================
