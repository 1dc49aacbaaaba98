------------------------------- MODULE Handler -------------------------------
(***************************************************************************)
(* The buffered request path of one endpoint handler built by             *)
(* Proxy.buildEndpoint (src/proxy/proxy.go): body capture, the attempt     *)
(* loop with the per-endpoint retry breaker and the retry feature gate,    *)
(* the error mapper writeError (src/proxy/error_handler.go) and the relay  *)
(* of the upstream response.  Every request is its own goroutine; the      *)
(* requests of one endpoint share the retry breaker.                       *)
(*                                                                         *)
(* Data is abstracted: a request body is not modelled (each attempt reads  *)
(* a fresh reader over the same buffer), an upstream response is its kind  *)
(* (matching a retry condition or not) and whether its body is still open, *)
(* an error is its class as writeError tells them apart.                   *)
(***************************************************************************)
EXTENDS Naturals, Sequences

CONSTANTS
  Requests,    \* concurrent requests served by this endpoint
  Attempts,    \* retryStrategy.attempts
  MinRequest,  \* sre.WithRequest(10): window size below which Allow never refuses
  Success,     \* sre.WithSuccess(0.8), as a percentage
  Protocol     \* e.Protocol

ASSUME ConstantsAssumption ==
  /\ Requests # {}
  /\ Attempts \in Nat \ {0}
  /\ MinRequest \in Nat \ {0}
  /\ Success \in 1..100
  /\ Protocol \in {"HTTP", "GRPC"}

VARIABLES
  pc,           \* where each request's goroutine is
  i,            \* the loop index of the attempt loop
  lastAttempt,  \* reqOpts.LastAttempt
  ctxErr,       \* ctx.Err() of the request's overall context
  err,          \* the handler's err variable
  resp,         \* the handler's resp variable
  bodiesOpen,   \* upstream response bodies obtained and not yet closed
  calls,        \* history: one record per upstream RoundTrip
  retryEvents,  \* history: HandleRetry states emitted for the request
  status,       \* the status written to the client
  bAccepts,     \* retry breaker window: successes
  bTotal,       \* retry breaker window: outcomes
  windowRetries,\* history: upstream calls with index > 0 since the window rolled
  retryEnabled  \* retryFeature.Enabled()

reqVars == <<pc, i, lastAttempt, ctxErr, err, resp, bodiesOpen, calls,
             retryEvents, status>>
breakerVars == <<bAccepts, bTotal, windowRetries>>
vars == <<reqVars, breakerVars, retryEnabled>>

(* Errors as writeError tells them apart: context.Canceled, the opaque     *)
(* "client disconnected" error, context.DeadlineExceeded, anything else.   *)
Errors == {"canceled", "disconnected", "deadline", "other"}
NoResp == [kind |-> "none", open |-> FALSE]
Resps == [kind : {"none", "retriable", "final"}, open : BOOLEAN]
(* Status codes the client can see: the upstream's (200 for a response    *)
(* matching no retry condition, 500 for one matching a 5xx condition) or  *)
(* writeError's; grpc is the Grpc-Status header writeError sets (0: none); *)
(* body is the state of the upstream body handed to the copy.             *)
Codes == {0, 200, 500, 499, 502, 504}
GrpcCodes == {0, 1, 2, 4}
Statuses == [code : Codes, grpc : GrpcCodes, body : {"none", "open", "closed"}]
NoStatus == [code |-> 0, grpc |-> 0, body |-> "none"]
Outcomes == {"error", "retriable", "final"}

-----------------------------------------------------------------------------
(* The retry breaker sre.NewBreaker(sre.WithSuccess(0.8),                  *)
(* sre.WithRequest(10)).  Allow refuses only when the window holds at     *)
(* least MinRequest outcomes and total * success > accepts; it then drops *)
(* with a positive probability, so both answers are possible.             *)
BreakerMustAllow == bTotal < MinRequest \/ bTotal * Success <= bAccepts * 100

(* The markSuccess/markFailed wrappers of buildEndpoint: only an attempt  *)
(* with index > 0 feeds the breaker.                                       *)
BreakerMarkSuccess(idx) ==
  IF idx > 0 THEN /\ bAccepts' = bAccepts + 1
                  /\ bTotal' = bTotal + 1
             ELSE UNCHANGED <<bAccepts, bTotal>>

BreakerMarkFailed(idx) ==
  IF idx > 0 THEN /\ bTotal' = bTotal + 1
                  /\ UNCHANGED bAccepts
             ELSE UNCHANGED <<bAccepts, bTotal>>

(* splitRetryMetricsHandler: the HandleRetry events, none for index 0 and *)
(* none for a failure that is context.Canceled.                           *)
SuccessStat(ev, idx) == IF idx <= 0 THEN ev ELSE Append(ev, "true")
FailedStat(ev, idx, e) ==
  IF idx <= 0 \/ e = "canceled" THEN ev ELSE Append(ev, "false")
BreakerStat(ev, idx) == IF idx <= 0 THEN ev ELSE Append(ev, "breaker")

(* writeError: the mapped status, and for gRPC status 200 with the        *)
(* Grpc-Status of status.ToGRPCCode (499 Canceled, 504 DeadlineExceeded,  *)
(* 502 Unknown).                                                           *)
ErrorStatus(e) ==
  CASE e \in {"canceled", "disconnected"} -> 499
    [] e = "deadline"                     -> 504
    [] OTHER                              -> 502
GrpcCode(c) == CASE c = 499 -> 1 [] c = 504 -> 4 [] OTHER -> 2
WriteError(e) ==
  IF Protocol = "GRPC"
    THEN [code |-> 200, grpc |-> GrpcCode(ErrorStatus(e)), body |-> "none"]
    ELSE [code |-> ErrorStatus(e), grpc |-> 0, body |-> "none"]

(* The status line of an upstream response copied to the client.          *)
UpstreamStatus(rs) == [code |-> IF rs.kind = "final" THEN 200 ELSE 500,
                       grpc |-> 0,
                       body |-> IF rs.open THEN "open" ELSE "closed"]

-----------------------------------------------------------------------------
Init ==
  /\ pc = [r \in Requests |-> "init"]
  /\ i = [r \in Requests |-> 0]
  /\ lastAttempt = [r \in Requests |-> FALSE]
  /\ ctxErr = [r \in Requests |-> "none"]
  /\ err = [r \in Requests |-> "nil"]
  /\ resp = [r \in Requests |-> NoResp]
  /\ bodiesOpen = [r \in Requests |-> 0]
  /\ calls = [r \in Requests |-> << >>]
  /\ retryEvents = [r \in Requests |-> << >>]
  /\ status = [r \in Requests |-> NoStatus]
  /\ bAccepts = 0
  /\ bTotal = 0
  /\ windowRetries = 0
  /\ retryEnabled \in BOOLEAN

(* Handler entry up to the loop: request options, the overall timeout     *)
(* context, io.ReadAll of the body.  A failed read goes to writeError.    *)
ServeStart(r) ==
  /\ pc[r] = "init"
  /\ \/ /\ pc' = [pc EXCEPT ![r] = "loop"]
        /\ UNCHANGED status
     \/ \E e \in {"disconnected", "other"} :
          /\ pc' = [pc EXCEPT ![r] = "done"]
          /\ status' = [status EXCEPT ![r] = WriteError(e)]
  /\ UNCHANGED <<i, lastAttempt, ctxErr, err, resp, bodiesOpen, calls,
                 retryEvents, breakerVars, retryEnabled>>

(* Leave the loop: for a break, or when i reaches retryStrategy.attempts. *)
ExitLoop(r) == pc' = [pc EXCEPT ![r] = "relay"]

(* `for i := 0; i < retryStrategy.attempts; i++` ends.                     *)
LoopExhausted(r) ==
  /\ i[r] >= Attempts
  /\ ExitLoop(r)
  /\ UNCHANGED <<lastAttempt, err, calls, retryEvents, breakerVars>>

(* Mutant: the context check `err = ctx.Err()` moved ahead of the gate    *)
(* and the breaker, so a refused retry has cleared err.                    *)
RetryRefusedClearsErr(r) ==
  /\ \/ /\ ~retryEnabled
        /\ UNCHANGED retryEvents
     \/ /\ retryEnabled
        /\ ~BreakerMustAllow
        /\ retryEvents' = [retryEvents EXCEPT ![r] = BreakerStat(@, i[r])]
  /\ ExitLoop(r)
  /\ err' = [err EXCEPT ![r] = "nil"]
  /\ UNCHANGED <<lastAttempt, calls, breakerVars>>

(* A retry (i > 0) is abandoned: the retry feature is off, or             *)
(* retryBreaker.Allow() refuses with ErrNotAllowed (markBreaker).  The     *)
(* err of the previous attempt is left as it was.                          *)
RetryRefused(r) ==
  /\ \/ /\ ~retryEnabled
        /\ UNCHANGED retryEvents
     \/ /\ retryEnabled
        /\ ~BreakerMustAllow
        /\ retryEvents' = [retryEvents EXCEPT ![r] = BreakerStat(@, i[r])]
  /\ ExitLoop(r)
  /\ UNCHANGED <<lastAttempt, err, calls, breakerVars>>

(* Mutant: off by one, `(i + 2) >= retryStrategy.attempts`.               *)
IsLastIndexEarly(idx) == idx + 2 >= Attempts

(* `(i + 1) >= retryStrategy.attempts`: the index of the final attempt.    *)
IsLastIndex(idx) == idx + 1 >= Attempts

(* The attempt goes ahead: LastAttempt for the final index, then          *)
(* `err = ctx.Err()`; a done context is markFailed and a break, a live    *)
(* one issues tripper.RoundTrip on a fresh reader over the body.          *)
IssueAttempt(r) ==
  LET idx == i[r] IN
  /\ lastAttempt' = [lastAttempt EXCEPT ![r] = @ \/ IsLastIndex(idx)]
  /\ \/ /\ ctxErr[r] # "none"
        /\ err' = [err EXCEPT ![r] = ctxErr[r]]
        /\ retryEvents' = [retryEvents EXCEPT ![r] = FailedStat(@, idx, ctxErr[r])]
        /\ BreakerMarkFailed(idx)
        /\ ExitLoop(r)
        /\ UNCHANGED <<calls, windowRetries>>
     \/ /\ ctxErr[r] = "none"
        /\ err' = [err EXCEPT ![r] = "nil"]
        /\ pc' = [pc EXCEPT ![r] = "call"]
        /\ UNCHANGED <<retryEvents, breakerVars, calls>>

(* The head of one iteration of the attempt loop.  For a retry the        *)
(* breaker may answer either way once it is past BreakerMustAllow.        *)
AttemptBegin(r) ==
  /\ pc[r] = "loop"
  /\ \/ LoopExhausted(r)
     \/ /\ i[r] < Attempts
        /\ i[r] > 0
        /\ RetryRefused(r)
     \/ /\ i[r] < Attempts
        /\ i[r] = 0 \/ retryEnabled
        /\ IssueAttempt(r)
  /\ UNCHANGED <<i, ctxErr, resp, bodiesOpen, status, retryEnabled>>

(* The history of upstream calls; a call with index > 0 is a retry sent   *)
(* upstream.                                                               *)
RecordCall(r, o) ==
  /\ calls' = [calls EXCEPT ![r] =
                 Append(@, [last |-> lastAttempt[r], outcome |-> o])]
  /\ windowRetries' = IF i[r] > 0 THEN windowRetries + 1 ELSE windowRetries

(* RoundTrip returned an error: markFailed, log, continue.  A request     *)
(* whose overall context is done can get the context's error.             *)
AttemptFailed(r) ==
  \E e \in {"deadline", "other"} \cup
           (IF ctxErr[r] = "none" THEN {} ELSE {ctxErr[r]}) :
    /\ err' = [err EXCEPT ![r] = e]
    /\ resp' = [resp EXCEPT ![r] = NoResp]
    /\ retryEvents' = [retryEvents EXCEPT ![r] = FailedStat(@, i[r], e)]
    /\ BreakerMarkFailed(i[r])
    /\ i' = [i EXCEPT ![r] = @ + 1]
    /\ pc' = [pc EXCEPT ![r] = "loop"]
    /\ RecordCall(r, "error")
    /\ UNCHANGED <<lastAttempt, bodiesOpen>>

(* Mutant: the retriable response is dropped without resp.Body.Close().   *)
DiscardRetriableLeaky(r) ==
  /\ resp' = [resp EXCEPT ![r] = [kind |-> "retriable", open |-> TRUE]]
  /\ bodiesOpen' = [bodiesOpen EXCEPT ![r] = @ + 1]

(* The retriable branch: markFailed with "assertion failed", then          *)
(* resp.Body.Close() before the loop continues.                            *)
DiscardRetriable(r) ==
  /\ resp' = [resp EXCEPT ![r] = [kind |-> "retriable", open |-> FALSE]]
  /\ UNCHANGED bodiesOpen

(* A response that matches a retry condition.                             *)
AttemptRetriable(r) ==
  /\ err' = [err EXCEPT ![r] = "nil"]
  /\ retryEvents' = [retryEvents EXCEPT ![r] = FailedStat(@, i[r], "other")]
  /\ BreakerMarkFailed(i[r])
  /\ DiscardRetriable(r)
  /\ i' = [i EXCEPT ![r] = @ + 1]
  /\ pc' = [pc EXCEPT ![r] = "loop"]
  /\ RecordCall(r, "retriable")
  /\ UNCHANGED lastAttempt

(* Mutant: the success branch is missing its break.                       *)
AttemptSucceededNoBreak(r) ==
  /\ err' = [err EXCEPT ![r] = "nil"]
  /\ resp' = [resp EXCEPT ![r] = [kind |-> "final", open |-> TRUE]]
  /\ bodiesOpen' = [bodiesOpen EXCEPT ![r] = @ + 1]
  /\ lastAttempt' = [lastAttempt EXCEPT ![r] = TRUE]
  /\ retryEvents' = [retryEvents EXCEPT ![r] = SuccessStat(@, i[r])]
  /\ BreakerMarkSuccess(i[r])
  /\ i' = [i EXCEPT ![r] = @ + 1]
  /\ pc' = [pc EXCEPT ![r] = "loop"]
  /\ RecordCall(r, "final")

(* A response that matches no retry condition: LastAttempt, markSuccess,  *)
(* break.                                                                  *)
AttemptSucceeded(r) ==
  /\ err' = [err EXCEPT ![r] = "nil"]
  /\ resp' = [resp EXCEPT ![r] = [kind |-> "final", open |-> TRUE]]
  /\ bodiesOpen' = [bodiesOpen EXCEPT ![r] = @ + 1]
  /\ lastAttempt' = [lastAttempt EXCEPT ![r] = TRUE]
  /\ retryEvents' = [retryEvents EXCEPT ![r] = SuccessStat(@, i[r])]
  /\ BreakerMarkSuccess(i[r])
  /\ pc' = [pc EXCEPT ![r] = "relay"]
  /\ RecordCall(r, "final")
  /\ UNCHANGED i

(* tripper.RoundTrip returns.                                              *)
RoundTripReturn(r) ==
  /\ pc[r] = "call"
  /\ \/ AttemptFailed(r)
     \/ AttemptRetriable(r)
     \/ AttemptSucceeded(r)
  /\ UNCHANGED <<ctxErr, status, retryEnabled>>

(* Mutant: the relayed body is counted closed whether or not it was open. *)
CloseRelayedTwice(r) == bodiesOpen' = [bodiesOpen EXCEPT ![r] = @ - 1]

(* doCopyBody's `defer resp.Body.Close()` (a second Close is a no-op).    *)
CloseRelayed(r) ==
  bodiesOpen' = [bodiesOpen EXCEPT ![r] = IF resp[r].open THEN @ - 1 ELSE @]

(* After the loop: writeError for an error, otherwise copy the headers    *)
(* and status, copy the body (doCopyBody closes it on return).            *)
Respond(r) ==
  /\ pc[r] = "relay"
  /\ pc' = [pc EXCEPT ![r] = "done"]
  /\ \/ /\ err[r] # "nil"
        /\ status' = [status EXCEPT ![r] = WriteError(err[r])]
        /\ UNCHANGED <<resp, bodiesOpen>>
     \/ /\ err[r] = "nil"
        /\ status' = [status EXCEPT ![r] = UpstreamStatus(resp[r])]
        /\ resp' = [resp EXCEPT ![r].open = FALSE]
        /\ CloseRelayed(r)
  /\ UNCHANGED <<i, lastAttempt, ctxErr, err, calls, retryEvents,
                 breakerVars, retryEnabled>>

(* The client goes away, or the overall timeout fires, while the handler  *)
(* runs.                                                                   *)
ContextDone(r) ==
  /\ pc[r] # "done"
  /\ ctxErr[r] = "none"
  /\ \E e \in {"canceled", "deadline"} : ctxErr' = [ctxErr EXCEPT ![r] = e]
  /\ UNCHANGED <<pc, i, lastAttempt, err, resp, bodiesOpen, calls,
                 retryEvents, status, breakerVars, retryEnabled>>

(* The control service turns the retry feature on or off.                 *)
ToggleRetryFeature ==
  /\ retryEnabled' = ~retryEnabled
  /\ UNCHANGED <<reqVars, breakerVars>>

(* The breaker's rolling window drops its old buckets.                    *)
WindowRoll ==
  /\ bTotal > 0
  /\ bAccepts' = 0
  /\ bTotal' = 0
  /\ windowRetries' = 0
  /\ UNCHANGED <<reqVars, retryEnabled>>

Next ==
  \/ \E r \in Requests :
       \/ ServeStart(r)
       \/ AttemptBegin(r)
       \/ RoundTripReturn(r)
       \/ Respond(r)
       \/ ContextDone(r)
  \/ ToggleRetryFeature
  \/ WindowRoll

Spec == Init /\ [][Next]_vars

-----------------------------------------------------------------------------
TypeOK ==
  /\ pc \in [Requests -> {"init", "loop", "call", "relay", "done"}]
  /\ i \in [Requests -> 0..Attempts]
  /\ lastAttempt \in [Requests -> BOOLEAN]
  /\ ctxErr \in [Requests -> {"none", "canceled", "deadline"}]
  /\ err \in [Requests -> {"nil"} \cup Errors]
  /\ resp \in [Requests -> Resps]
  /\ bodiesOpen \in [Requests -> Nat]
  /\ calls \in [Requests -> Seq([last : BOOLEAN, outcome : Outcomes])]
  /\ retryEvents \in [Requests -> Seq({"true", "false", "breaker"})]
  /\ status \in [Requests -> Statuses]
  /\ bAccepts \in Nat
  /\ bTotal \in Nat
  /\ windowRetries \in Nat
  /\ retryEnabled \in BOOLEAN

(* Line 254 reads resp.Header: whenever the loop is left with err = nil,  *)
(* resp holds a response.  It depends on the order of the loop head: the  *)
(* feature gate and the breaker break before `err = ctx.Err()` clears the *)
(* error of the previous attempt.                                          *)
NilResponseNeverRelayed ==
  \A r \in Requests : pc[r] = "relay" /\ err[r] = "nil" => resp[r].kind # "none"

(* No upstream connection leaks: at most one upstream body is open per    *)
(* request, and none once the handler has returned (retriable responses  *)
(* are closed in the loop, the relayed one by doCopyBody).                 *)
UpstreamBodiesClosed ==
  \A r \in Requests :
     /\ bodiesOpen[r] <= 1
     /\ pc[r] = "done" => bodiesOpen[r] = 0

(* LastAttempt is set during an upstream call only if no call follows it, *)
(* and the call at the last index always runs with it set.                 *)
LastAttemptOnlyOnFinalCall ==
  \A r \in Requests :
     /\ \A k \in 1..Len(calls[r]) - 1 : ~calls[r][k].last
     /\ Len(calls[r]) = Attempts => calls[r][Attempts].last

(* The first upstream response that matches no retry condition ends the  *)
(* loop and is the one the client gets; a client that gets the success   *)
(* status got it from such a response.                                    *)
SuccessIsRelayed ==
  \A r \in Requests :
     /\ \A k \in 1..Len(calls[r]) :
          calls[r][k].outcome = "final" => k = Len(calls[r])
     /\ pc[r] = "done" =>
          ((\E k \in 1..Len(calls[r]) : calls[r][k].outcome = "final")
             <=> status[r].code = 200 /\ status[r].grpc = 0)

(* Spec B1/R1: a response that is surfaced to the client is relayed with  *)
(* its body.  The loop closes the body of a response that matches a retry *)
(* condition (line 246), and relays that same response when it was the   *)
(* last one: attempts exhausted, feature gate off, or breaker refusal.    *)
RelayedBodyIntact ==
  \A r \in Requests : status[r].body # "closed"

(* Spec 4.D and 7: the breaker is fed the outcome of each retry attempt,  *)
(* and a client cancellation is not a retry failure.  The breaker's       *)
(* window never holds more outcomes than retries sent upstream since it   *)
(* rolled.                                                                 *)
BreakerFedOnlyByRetries == bTotal <= windowRetries

=============================================================================
