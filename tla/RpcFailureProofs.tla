-------------------------- MODULE RpcFailureProofs ---------------------------
(***************************************************************************)
(* What is proved of RpcFailure, for every set of HTTP statuses that nodes *)
(* and the proxies in front of them answer with, and whatever they write   *)
(* in their messages.                                                      *)
(*                                                                         *)
(* Passed says what a reply has shown by the time a layer is reached, Said *)
(* what the text of an error says for each layer that may have failed.     *)
(* What is added on the way up is digits, and no marker is a bare number,  *)
(* so the decision is the one that the failing layer's words call for.     *)
(***************************************************************************)
EXTENDS RpcFailure, TLAPS

Failing == {"context", "decide", "decided"}

\* The request and what comes back.
Sent ==
    /\ call \in Calls /\ height \in Heights
    /\ reply \in Replies /\ Answers(call, reply)

\* What is known of the reply where it is still looked at.
Passed ==
    /\ at \in {"link", "json", "status", "error", "shape", "wait", "ok"} \cup Failing
    /\ at \notin Failing => by = "none"
    /\ at \in {"json", "status", "error", "shape", "wait"} => call # "send"
    /\ at \in {"json", "status", "error", "shape", "wait", "ok"} => reply.link = "ok"
    /\ at \in {"status", "error", "shape", "wait", "ok"} => reply.json
    /\ at = "status" => call \in BitcoinCalls
    /\ at \in {"error", "shape", "wait", "ok"} /\ call \in BitcoinCalls =>
           reply.status \in Success
    /\ at \in {"shape", "wait", "ok"} => reply.error = "none"
    /\ at \in {"wait", "ok"} => reply.shape = "right"

\* The words of the layer that failed.
Words(layer) ==
    CASE layer = "link"     -> {Transport(reply.link), LinkText(reply.link)}
      [] layer = "json"     -> {{}, reply.message}
      [] layer = "status"   ->
              {StatusText(reply.status) \cup ErrorText(reply.error, reply.message)}
      [] layer = "error"    ->
              {ErrorText(reply.error, reply.message), EthersText(reply.error, reply.message)}
      [] layer = "shape"    -> {{}}
      [] layer = "revert"   -> {{"transaction reverted"}}
      [] layer = "deadline" -> {{"timed out"}}

Layers == {"link", "json", "status", "error", "shape", "revert", "deadline"}

Said ==
    /\ at \in Failing =>
           /\ by \in Layers
           /\ \E words \in Words(by) : text \in {words, words \cup height}
    /\ by = "link" => reply.link # "ok" /\ (call # "send" => "transport failed" \in text)
    /\ by = "status" => reply.status \notin Success
    /\ at = "decided" => decision = Decision(text)

IInv == Sent /\ Passed /\ Said

----------------------------------------------------------------------------
\* Markers and other words.

\* No marker is a bare number, so that the digits in a text decide nothing.
LEMMA NumbersDoNotDecide ==
    ASSUME NEW s, NEW t, s \ Numbers = t \ Numbers
    PROVE  Decision(s) = Decision(t)
<1>1. ASSUME NEW M, M \cap Numbers = {}
      PROVE  Matches(s, M) <=> Matches(t, M)
  BY <1>1 DEF Matches
<1>2. RevertMarkers \cap Numbers = {} /\ RetryMarkers \cap Numbers = {}
  BY DEF Numbers, RevertMarkers, RetryMarkers
<1>3. Matches(s, RevertMarkers) <=> Matches(t, RevertMarkers)
  BY <1>1, <1>2
<1>4. Matches(s, RetryMarkers) <=> Matches(t, RetryMarkers)
  BY <1>1, <1>2
<1> QED
  BY <1>3, <1>4 DEF Decision

\* ... and a text of nothing but digits is a failure's.
LEMMA NumbersAreHard ==
    ASSUME NEW t \in SUBSET Numbers
    PROVE  Decision(t) = "hard"
<1>1. Numbers \cap RetryMarkers = {}
  BY DEF Numbers, RetryMarkers
<1> QED
  BY <1>1 DEF Decision, Matches

\* Of an error that is neither a limit with code 429 nor a revert, only the server's
\* message is left.
LEMMA OtherErrors ==
    ASSUME NEW e \in Errors, e # "code 429", e # "revert", NEW m
    PROVE  ErrorText(e, m) = m /\ EthersText(e, m) = m
<1>1. ErrorText(e, m) = m \cup {}
  BY DEF Errors, ErrorText
<1>2. EthersText(e, m) = ErrorText(e, m)
  BY DEF EthersText
<1> QED
  BY <1>1, <1>2

\* No status and no broken link sounds like a revert, and of the errors only a
\* revert does.
LEMMA NoFalseRevert ==
    /\ \A l \in Links \ {"ok"} : ~Matches(Transport(l), RevertMarkers)
    /\ \A s : ~Matches(StatusText(s), RevertMarkers)
    /\ \A e \in Errors \ {"revert"}, m \in Messages :
           ~Matches(ErrorText(e, m), RevertMarkers) /\ ~Matches(EthersText(e, m), RevertMarkers)
<1>1. \A l \in Links \ {"ok"} : ~Matches(Transport(l), RevertMarkers)
  BY DEF Links, Transport, LinkText, Matches, RevertMarkers
<1>2. \A s : ~Matches(StatusText(s), RevertMarkers)
  <2> DEFINE words == {"429", "503", "too many requests", "service unavailable",
                       "timeout", "network"}
  <2>1. \A s : StatusText(s) \subseteq words
    BY DEF StatusText
  <2>2. words \cap RevertMarkers = {}
    BY DEF RevertMarkers
  <2> HIDE DEF words
  <2> QED
    BY <2>1, <2>2 DEF Matches
<1>3. ASSUME NEW e \in Errors \ {"revert"}, NEW m \in Messages
      PROVE  ~Matches(ErrorText(e, m), RevertMarkers) /\ ~Matches(EthersText(e, m), RevertMarkers)
  <2>1. m \cap RevertMarkers = {}
    BY MessageAssumption
  <2>2. {"\"code\":429", "429", "code: 429"} \cap RevertMarkers = {}
    BY DEF RevertMarkers
  <2>3. /\ ErrorText(e, m) \subseteq m \cup {"\"code\":429", "429", "code: 429"}
        /\ EthersText(e, m) \subseteq m \cup {"\"code\":429", "429", "code: 429"}
    BY DEF Errors, ErrorText, EthersText
  <2> QED
    BY <2>1, <2>2, <2>3 DEF Matches
<1> QED
  BY <1>1, <1>2, <1>3

----------------------------------------------------------------------------
\* A layer passes the reply on, or says what was wrong with it.

LEMMA SameSent ==
    ASSUME Sent, UNCHANGED <<call, reply, height>>
    PROVE  Sent'
<1>1. call' = call /\ reply' = reply /\ height' = height
  OBVIOUS
<1> QED
  BY <1>1 DEF Sent

LEMMA LayerPasses ==
    ASSUME IInv, Same, at \notin Failing, NEW next, next \notin Failing, Passes(next), Passed'
    PROVE  IInv'
<1>1. Sent'
  BY SameSent DEF IInv, Same
<1>2. by' = "none" /\ at' \notin Failing
  BY DEF IInv, Passed, Passes
<1>3. Said'
  BY <1>2 DEF Said, Failing
<1> QED
  BY <1>1, <1>3 DEF IInv

LEMMA LayerFails ==
    ASSUME IInv, Same, NEW layer \in Layers, NEW words \in Words(layer), Fails(layer, words),
           layer = "link" =>
               reply.link # "ok" /\ (call # "send" => "transport failed" \in words),
           layer = "status" => reply.status \notin Success
    PROVE  IInv'
<1>1. Sent'
  BY SameSent DEF IInv, Same
<1>2. at' = "context" /\ by' = layer /\ text' = words /\ UNCHANGED <<call, reply, height>>
  BY DEF Fails, Same
<1>3. Passed'
  BY <1>2 DEF Passed, Failing
<1>4. Said'
  BY <1>2 DEF Said, Words, Failing
<1> QED
  BY <1>1, <1>3, <1>4 DEF IInv

LEMMA LinkOK ==
    ASSUME IInv, Link
    PROVE  IInv'
<1>1. at = "link" /\ call # "send" /\ Same /\ at \notin Failing
  BY DEF Link, Failing
<1>2. CASE reply.link # "ok" /\ Fails("link", Transport(reply.link))
  <2>1. /\ "link" \in Layers /\ Transport(reply.link) \in Words("link")
        /\ "transport failed" \in Transport(reply.link)
    BY DEF Layers, Words, Transport
  <2> QED
    BY <1>1, <1>2, <2>1, LayerFails
<1>3. CASE reply.link = "ok" /\ Passes("json")
  <2>1. Passed' /\ "json" \notin Failing
    BY <1>1, <1>3 DEF Passed, Passes, Failing, Same, IInv
  <2> QED
    BY <1>1, <1>3, <2>1, LayerPasses
<1> QED
  BY <1>2, <1>3 DEF Link

LEMMA JsonOK ==
    ASSUME IInv, Json
    PROVE  IInv'
<1>1. at = "json" /\ Same /\ at \notin Failing
  BY DEF Json, Failing
<1>2. CASE Fails("json", {})
  <2>1. "json" \in Layers /\ {} \in Words("json")
    BY DEF Layers, Words
  <2> QED
    BY <1>1, <1>2, <2>1, LayerFails
<1>3. CASE /\ reply.json
           /\ Passes(IF call \in BitcoinCalls THEN "status" ELSE "error")
  <2> DEFINE next == IF call \in BitcoinCalls THEN "status" ELSE "error"
  <2>1. Passed' /\ next \notin Failing
    BY <1>1, <1>3 DEF Passed, Passes, Failing, Same, IInv
  <2> QED
    BY <1>1, <1>3, <2>1, LayerPasses
<1> QED
  BY <1>2, <1>3 DEF Json

LEMMA StatusOK ==
    ASSUME IInv, Status
    PROVE  IInv'
<1>1. at = "status" /\ Same /\ at \notin Failing
  BY DEF Status, Failing
<1> DEFINE words == StatusText(reply.status) \cup ErrorText(reply.error, reply.message)
<1>2. CASE reply.status \notin Success /\ Fails("status", words)
  <2>1. "status" \in Layers /\ words \in Words("status")
    BY DEF Layers, Words
  <2> QED
    BY <1>1, <1>2, <2>1, LayerFails
<1>3. CASE reply.status \in Success /\ Passes("error")
  <2>1. Passed' /\ "error" \notin Failing
    BY <1>1, <1>3 DEF Passed, Passes, Failing, Same, IInv
  <2> QED
    BY <1>1, <1>3, <2>1, LayerPasses
<1> QED
  BY <1>2, <1>3 DEF Status

LEMMA ErrorOK ==
    ASSUME IInv, Error
    PROVE  IInv'
<1>1. at = "error" /\ Same /\ at \notin Failing
  BY DEF Error, Failing
<1>2. CASE Fails("error", ErrorText(reply.error, reply.message))
  <2>1. "error" \in Layers /\ ErrorText(reply.error, reply.message) \in Words("error")
    BY DEF Layers, Words
  <2> QED
    BY <1>1, <1>2, <2>1, LayerFails
<1>3. CASE reply.error = "none" /\ Passes("shape")
  <2>1. Passed' /\ "shape" \notin Failing
    BY <1>1, <1>3 DEF Passed, Passes, Failing, Same, IInv
  <2> QED
    BY <1>1, <1>3, <2>1, LayerPasses
<1> QED
  BY <1>2, <1>3 DEF Error

LEMMA ShapeOK ==
    ASSUME IInv, Shape
    PROVE  IInv'
<1>1. at = "shape" /\ Same /\ at \notin Failing
  BY DEF Shape, Failing
<1>2. CASE Fails("shape", {})
  <2>1. "shape" \in Layers /\ {} \in Words("shape")
    BY DEF Layers, Words
  <2> QED
    BY <1>1, <1>2, <2>1, LayerFails
<1>3. CASE /\ reply.shape = "right"
           /\ Passes(IF call \in {"receipt", "head"} THEN "wait" ELSE "ok")
  <2> DEFINE next == IF call \in {"receipt", "head"} THEN "wait" ELSE "ok"
  <2>1. Passed' /\ next \notin Failing
    BY <1>1, <1>3 DEF Passed, Passes, Failing, Same, IInv
  <2> QED
    BY <1>1, <1>3, <2>1, LayerPasses
<1>4. reply.shape \in {"right", "odd"}
  BY DEF IInv, Sent, Replies
<1> QED
  BY <1>2, <1>3, <1>4 DEF Shape

LEMMA WaitOK ==
    ASSUME IInv, Wait
    PROVE  IInv'
<1>1. at = "wait" /\ Same /\ at \notin Failing
  BY DEF Wait, Failing
<1>2. CASE Fails("revert", {"transaction reverted"})
  <2>1. "revert" \in Layers /\ {"transaction reverted"} \in Words("revert")
    BY DEF Layers, Words
  <2> QED
    BY <1>1, <1>2, <2>1, LayerFails
<1>3. CASE Fails("deadline", {"timed out"})
  <2>1. "deadline" \in Layers /\ {"timed out"} \in Words("deadline")
    BY DEF Layers, Words
  <2> QED
    BY <1>1, <1>3, <2>1, LayerFails
<1>4. CASE Passes("ok")
  <2>1. Passed' /\ "ok" \notin Failing
    BY <1>1, <1>4 DEF Passed, Passes, Failing, Same, IInv
  <2> QED
    BY <1>1, <1>4, <2>1, LayerPasses
<1> QED
  BY <1>2, <1>3, <1>4 DEF Wait

LEMMA BroadcastOK ==
    ASSUME IInv, Broadcast
    PROVE  IInv'
<1>1. at = "link" /\ call = "send" /\ Same /\ at \notin Failing
  BY DEF Broadcast, Failing
<1>2. CASE reply.link # "ok" /\ Fails("link", LinkText(reply.link))
  <2>1. "link" \in Layers /\ LinkText(reply.link) \in Words("link")
    BY DEF Layers, Words
  <2> QED
    BY <1>1, <1>2, <2>1, LayerFails
<1>3. CASE Fails("json", reply.message)
  <2>1. "json" \in Layers /\ reply.message \in Words("json")
    BY DEF Layers, Words
  <2> QED
    BY <1>1, <1>3, <2>1, LayerFails
<1>4. CASE Fails("error", EthersText(reply.error, reply.message))
  <2>1. "error" \in Layers /\ EthersText(reply.error, reply.message) \in Words("error")
    BY DEF Layers, Words
  <2> QED
    BY <1>1, <1>4, <2>1, LayerFails
<1>5. CASE Fails("shape", {})
  <2>1. "shape" \in Layers /\ {} \in Words("shape")
    BY DEF Layers, Words
  <2> QED
    BY <1>1, <1>5, <2>1, LayerFails
<1>6. CASE /\ reply.link = "ok" /\ reply.json /\ reply.error = "none"
           /\ reply.shape = "right" /\ Passes("ok")
  <2>1. Passed' /\ "ok" \notin Failing
    BY <1>1, <1>6 DEF Passed, Passes, Failing, Same, IInv, BitcoinCalls
  <2> QED
    BY <1>1, <1>6, <2>1, LayerPasses
<1> QED
  BY <1>2, <1>3, <1>4, <1>5, <1>6 DEF Broadcast

LEMMA ContextOK ==
    ASSUME IInv, Context
    PROVE  IInv'
<1>1. /\ at = "context" /\ at' = "decide" /\ text' = text \cup height
      /\ UNCHANGED <<call, reply, by, height, decision>>
  BY DEF Context
<1>2. Sent' /\ Passed'
  <2>1. Sent'
    BY <1>1, SameSent DEF IInv
  <2>2. Passed'
    BY <1>1 DEF IInv, Passed, Failing
  <2> QED
    BY <2>1, <2>2
<1>3. PICK words \in Words(by) : text \in {words, words \cup height}
  BY <1>1 DEF IInv, Said, Failing
<1>4. text' = words \cup height
  BY <1>1, <1>3
<1>5. Words(by)' = Words(by)
  BY <1>1 DEF Words
<1>6. Said'
  BY <1>1, <1>3, <1>4, <1>5 DEF IInv, Said, Failing
<1> QED
  BY <1>2, <1>6 DEF IInv

LEMMA DecideOK ==
    ASSUME IInv, Decide
    PROVE  IInv'
<1>1. /\ at = "decide" /\ at' = "decided" /\ decision' = Decision(text)
      /\ UNCHANGED <<call, reply, by, text, height>>
  BY DEF Decide
<1>2. Sent' /\ Passed'
  <2>1. Sent'
    BY <1>1, SameSent DEF IInv
  <2>2. Passed'
    BY <1>1 DEF IInv, Passed, Failing
  <2> QED
    BY <2>1, <2>2
<1>3. Words(by)' = Words(by) /\ Decision(text)' = Decision(text)
  BY <1>1 DEF Words, Decision, Matches
<1>4. Said'
  BY <1>1, <1>3 DEF IInv, Said, Failing
<1> QED
  BY <1>2, <1>4 DEF IInv

LEMMA RpcInduction ==
    ASSUME IInv, [Next]_vars
    PROVE  IInv'
<1>1. CASE UNCHANGED vars
  <2>1. Words(by)' = Words(by) /\ Decision(text)' = Decision(text)
    BY <1>1 DEF vars, Words, Decision, Matches
  <2>2. Sent'
    BY <1>1, SameSent DEF IInv, vars
  <2>3. Passed'
    BY <1>1 DEF vars, IInv, Passed, Failing
  <2>4. Said'
    BY <1>1, <2>1 DEF vars, IInv, Said, Failing
  <2> QED
    BY <2>2, <2>3, <2>4 DEF IInv
<1> QED
  BY <1>1, LinkOK, JsonOK, StatusOK, ErrorOK, ShapeOK, WaitOK, BroadcastOK, ContextOK,
     DecideOK DEF Next

----------------------------------------------------------------------------
\* A failure without a marker of its own prints at most digits, or was a revert.
LEMMA QuietWords ==
    ASSUME Sent, Said, Quiet, NEW words \in Words(by)
    PROVE  words \subseteq Numbers \/ "execution reverted" \in words
<1>1. reply.error # "code 429" /\ reply.message \subseteq Numbers /\ reply.error \in Errors
  <2>1. reply \in Replies
    BY DEF Sent
  <2>2. reply.error \in Errors
    BY <2>1 DEF Replies
  <2> QED
    BY <2>2 DEF Quiet
<1>2. CASE by = "shape"
  BY <1>2 DEF Words
<1>3. CASE by = "json"
  <2>1. words \in {{}, reply.message}
    BY <1>3 DEF Words
  <2> QED
    BY <1>1, <2>1
<1>4. CASE by = "error"
  <2>1. words \in {ErrorText(reply.error, reply.message),
                  EthersText(reply.error, reply.message)}
    BY <1>4 DEF Words
  <2>2. CASE reply.error = "revert"
    <3>1. words = reply.message \cup {"execution reverted"}
      BY <2>1, <2>2 DEF ErrorText, EthersText
    <3> QED
      BY <3>1
  <2>3. CASE reply.error # "revert"
    <3>1. /\ ErrorText(reply.error, reply.message) = reply.message
          /\ EthersText(reply.error, reply.message) = reply.message
      BY <1>1, <2>3, OtherErrors
    <3> QED
      BY <1>1, <2>1, <3>1
  <2> QED
    BY <2>2, <2>3
<1>5. CASE by = "status"
  <2>1. words = StatusText(reply.status) \cup ErrorText(reply.error, reply.message)
    BY <1>5 DEF Words
  <2>2. StatusText(reply.status) = {}
    <3>1. reply.status \notin TellingStatuses
      BY <1>5 DEF Quiet
    <3>2. /\ reply.status # 408 /\ reply.status # 429 /\ reply.status # 503
          /\ reply.status # 504 /\ reply.status # 511
      BY <3>1 DEF TellingStatuses
    <3> QED
      BY <3>2, ZenonT(30) DEF StatusText
  <2>3. reply.error # "revert"
    <3>1. reply.error = "revert" => reply.status = 200
      BY DEF Sent, Answers
    <3>2. reply.status \notin Success
      BY <1>5 DEF Said
    <3> QED
      BY <3>1, <3>2 DEF Success
  <2>4. ErrorText(reply.error, reply.message) = reply.message
    BY <1>1, <2>3, OtherErrors
  <2> QED
    BY <1>1, <2>1, <2>2, <2>4
<1> QED
  BY <1>2, <1>3, <1>4, <1>5 DEF Quiet

----------------------------------------------------------------------------
\* The theorems.

\* A failure's text is what the failing layer prints, and a height, in every
\* reachable state.
THEOREM RpcInductive == Spec => []IInv
<1>1. Init => IInv
  BY DEF Init, IInv, Sent, Passed, Said, Failing
<1>2. IInv /\ [Next]_vars => IInv'
  BY RpcInduction
<1> QED
  BY <1>1, <1>2, PTL DEF Spec

\* What rpc_call, parse_json_rpc_response and the EVM library hand on as a result
\* is a complete answer without an error, whatever a server or proxy replies.
THEOREM ResultsAreAnswers == Spec => []ResultIsAnswer
<1>1. IInv => ResultIsAnswer
  BY DEF IInv, Passed, ResultIsAnswer
<1> QED
  BY <1>1, RpcInductive, PTL

\* classify_retry_decision gives up on every revert, of an estimate and of a mined
\* transaction, through all layers of context and whatever the contract's reason says.
THEOREM RevertsAreHard == Spec => []RevertIsHard
<1>1. IInv => RevertIsHard
  <2>1. SUFFICES ASSUME IInv, at = "decided",
                        by = "revert" \/ (by = "error" /\ reply.error = "revert")
                 PROVE  decision = "hard"
    BY DEF RevertIsHard, Decided
  <2>2. PICK words \in Words(by) : text \in {words, words \cup height}
    BY <2>1 DEF IInv, Said, Failing
  <2>3. "execution reverted" \in words \/ "transaction reverted" \in words
    BY <2>1, <2>2 DEF Words, ErrorText, EthersText
  <2>4. Matches(text, RevertMarkers)
    BY <2>2, <2>3 DEF Matches, RevertMarkers
  <2> QED
    BY <2>1, <2>4 DEF IInv, Said, Decision
<1> QED
  BY <1>1, RpcInductive, PTL

\* A failure without a marker of its own is given up on whatever heights its contexts
\* name: "429" in a height once turned a revert into a retry without end.
THEOREM HeightsAreInnocent == Spec => []HeightIsInnocent
<1>1. ASSUME IInv, at = "decided", Quiet
      PROVE  decision = "hard"
  <2>1. PICK words \in Words(by) : text \in {words, words \cup height}
    BY <1>1 DEF IInv, Said, Failing
  <2>2. height \subseteq Numbers
    BY <1>1 DEF IInv, Sent, Heights
  <2>3. decision = Decision(text)
    BY <1>1 DEF IInv, Said
  <2>4. CASE "execution reverted" \in words
    <3>1. Matches(text, RevertMarkers)
      BY <2>1, <2>4 DEF Matches, RevertMarkers
    <3> QED
      BY <2>3, <3>1 DEF Decision
  <2>5. CASE words \subseteq Numbers
    <3>1. text \in SUBSET Numbers
      BY <2>1, <2>2, <2>5
    <3> QED
      BY <2>3, <3>1, NumbersAreHard
  <2>6. words \subseteq Numbers \/ "execution reverted" \in words
    BY <1>1, <2>1, QuietWords DEF IInv
  <2> QED
    BY <2>4, <2>5, <2>6
<1>2. IInv => HeightIsInnocent
  BY <1>1 DEF HeightIsInnocent, Decided
<1> QED
  BY <1>2, RpcInductive, PTL

\* Waited out are a link that fails before the reply (a broadcast's apart), bitcoind's
\* limits, timeouts and unavailable services with a JSON body, an error object with
\* code 429 and a confirmation that is late, whatever a server writes beside it.
THEOREM TransientsAreRetried == Spec => []TransientIsRetried
<1>1. IInv => TransientIsRetried
  <2>1. SUFFICES ASSUME IInv, at = "decided",
                        \/ by = "link" /\ call # "send"
                        \/ by = "status" /\ reply.status \in {408, 429, 503, 504}
                        \/ by = "error" /\ reply.error = "code 429"
                        \/ by = "deadline"
                 PROVE  decision = "retry"
    BY DEF TransientIsRetried, Decided
  <2>2. PICK words \in Words(by) : text \in {words, words \cup height}
    BY <2>1 DEF IInv, Said, Failing
  <2>3. /\ height \subseteq Numbers /\ reply.link \in Links /\ reply.error \in Errors
        /\ reply.message \in Messages
    BY <2>1 DEF IInv, Sent, Replies, Heights
  <2>4. Matches(text, RetryMarkers) /\ ~Matches(words, RevertMarkers)
    <3>1. CASE by = "link" /\ call # "send"
      <4>1. reply.link \in Links \ {"ok"} /\ "transport failed" \in text
        BY <2>1, <2>3, <3>1 DEF IInv, Said
      <4>2. words \subseteq Transport(reply.link)
        BY <2>2, <3>1 DEF Words, Transport
      <4>3. ~Matches(Transport(reply.link), RevertMarkers)
        BY <4>1, NoFalseRevert
      <4> QED
        BY <4>1, <4>2, <4>3 DEF Matches, RetryMarkers
    <3>2. CASE by = "status" /\ reply.status \in {408, 429, 503, 504}
      <4>1. words = StatusText(reply.status) \cup ErrorText(reply.error, reply.message)
        BY <2>2, <3>2 DEF Words
      <4>2. reply.error # "revert"
        <5>1. reply.error = "revert" => reply.status = 200
          BY <2>1 DEF IInv, Sent, Answers
        <5> QED
          BY <3>2, <5>1
      <4>3. Matches(StatusText(reply.status), RetryMarkers)
        <5>1. PICK p \in {"too many requests", "service unavailable", "timeout"} :
                  p \in StatusText(reply.status)
          BY <3>2 DEF StatusText
        <5> QED
          BY <5>1 DEF Matches, RetryMarkers
      <4>4. /\ ~Matches(StatusText(reply.status), RevertMarkers)
            /\ ~Matches(ErrorText(reply.error, reply.message), RevertMarkers)
        BY <2>3, <4>2, NoFalseRevert
      <4> QED
        BY <2>2, <4>1, <4>3, <4>4 DEF Matches
    <3>3. CASE by = "error" /\ reply.error = "code 429"
      <4>1. words \in {ErrorText("code 429", reply.message),
                            EthersText("code 429", reply.message)}
        BY <2>2, <3>3 DEF Words
      <4>2. Matches(words, RetryMarkers)
        <5>1. "\"code\":429" \in words \/ "code: 429" \in words
          BY <4>1 DEF ErrorText, EthersText
        <5> QED
          BY <5>1 DEF Matches, RetryMarkers
      <4>3. ~Matches(words, RevertMarkers)
        BY <2>3, <4>1, NoFalseRevert DEF Errors
      <4> QED
        BY <2>2, <4>2, <4>3 DEF Matches
    <3>4. CASE by = "deadline"
      <4>1. words = {"timed out"}
        BY <2>2, <3>4 DEF Words
      <4> QED
        BY <2>2, <4>1 DEF Matches, RetryMarkers, RevertMarkers
    <3> QED
      BY <2>1, <3>1, <3>2, <3>3, <3>4
  <2>5. ~Matches(text, RevertMarkers)
    <3>1. Numbers \cap RevertMarkers = {}
      BY DEF Numbers, RevertMarkers
    <3> QED
      BY <2>2, <2>3, <2>4, <3>1 DEF Matches
  <2> QED
    BY <2>1, <2>4, <2>5 DEF IInv, Said, Decision
<1> QED
  BY <1>1, RpcInductive, PTL
=============================================================================
