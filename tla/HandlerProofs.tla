---------------------------- MODULE HandlerProofs ----------------------------
(***************************************************************************)
(* Proofs about the buffered request path of module Handler, for every    *)
(* set of requests, every number of attempts and every breaker setting.   *)
(***************************************************************************)
EXTENDS Handler, SequenceTheorems, TLAPS

(* The strengthening that makes TypeOK and NilResponseNeverRelayed        *)
(* inductive.  A request that has not started is at index 0; a request    *)
(* with a RoundTrip in flight is below the attempt bound; an open body    *)
(* is counted in bodiesOpen; and once an iteration has finished (index   *)
(* > 0) or the loop is left, err = nil means resp holds a response.       *)
Aux ==
  \A r \in Requests :
    /\ pc[r] = "init" => i[r] = 0
    /\ pc[r] = "call" => i[r] < Attempts
    /\ resp[r].open => bodiesOpen[r] >= 1
    /\ (pc[r] = "relay" \/ (pc[r] = "loop" /\ i[r] > 0)) /\ err[r] = "nil"
         => resp[r].kind # "none"

(* TypeOK split in the part about the two histories, whose sequences of   *)
(* records the SMT backend handles badly, and the rest.                   *)
RetryStates == {"true", "false", "breaker"}
CallRec == [last : BOOLEAN, outcome : Outcomes]

BaseOK ==
  /\ pc \in [Requests -> {"init", "loop", "call", "relay", "done"}]
  /\ i \in [Requests -> 0..Attempts]
  /\ lastAttempt \in [Requests -> BOOLEAN]
  /\ ctxErr \in [Requests -> {"none", "canceled", "deadline"}]
  /\ err \in [Requests -> {"nil"} \cup Errors]
  /\ resp \in [Requests -> Resps]
  /\ bodiesOpen \in [Requests -> Nat]
  /\ status \in [Requests -> Statuses]
  /\ bAccepts \in Nat
  /\ bTotal \in Nat
  /\ windowRetries \in Nat
  /\ retryEnabled \in BOOLEAN

HistOK ==
  /\ calls \in [Requests -> Seq(CallRec)]
  /\ retryEvents \in [Requests -> Seq(RetryStates)]

IInv == BaseOK /\ HistOK /\ Aux

(* Some upstream call of the request returned a final response.           *)
HasFinal(r) == \E k \in 1..Len(calls[r]) : calls[r][k].outcome = "final"

(* The history of calls follows the loop: one call per finished iteration *)
(* (and the one that broke out), LastAttempt is what IsLastIndex said at  *)
(* the head of the iteration, only the call at index Attempts carried it, *)
(* a final response ends the loop, and it is the one in resp.             *)
CS(r) ==
  /\ pc[r] \in {"init", "loop", "call"} => Len(calls[r]) = i[r]
  /\ Len(calls[r]) <= Attempts
  /\ pc[r] = "init" => ~lastAttempt[r]
  /\ pc[r] = "loop" => (lastAttempt[r] <=> i[r] >= Attempts)
  /\ pc[r] = "call" => (lastAttempt[r] <=> IsLastIndex(i[r]))
  /\ \A k \in 1..Len(calls[r]) : calls[r][k].last <=> k = Attempts
  /\ \A k \in 1..Len(calls[r]) :
       calls[r][k].outcome = "final" =>
         k = Len(calls[r]) /\ pc[r] \in {"relay", "done"}
  /\ HasFinal(r) <=> resp[r].kind = "final"
  /\ HasFinal(r) => err[r] = "nil"
  /\ pc[r] = "done" =>
       (status[r].code = 200 /\ status[r].grpc = 0 <=> HasFinal(r))

CallShape == \A r \in Requests : CS(r)

(* bodiesOpen counts the one body resp may hold open, which only a        *)
(* response waiting at the relay, with err = nil, does.                  *)
BodyCount ==
  \A r \in Requests :
    /\ resp[r].open => bodiesOpen[r] = 1 /\ pc[r] = "relay" /\ err[r] = "nil"
    /\ ~resp[r].open => bodiesOpen[r] = 0

LEMMA TypeSplit == TypeOK <=> BaseOK /\ HistOK
BY Zenon DEF TypeOK, BaseOK, HistOK, CallRec, RetryStates

LEMMA InitIInv == Init => IInv
<1> SUFFICES ASSUME Init PROVE IInv
  OBVIOUS
<1>1. BaseOK
  BY ConstantsAssumption DEF Init, BaseOK, NoResp, Resps, NoStatus, Statuses,
     Codes, GrpcCodes
<1>2. HistOK
  BY EmptySeq, Zenon DEF Init, HistOK
<1>3. Aux
  <2>1. \A r \in Requests : pc[r] = "init" /\ i[r] = 0 /\ ~resp[r].open
    BY Zenon DEF Init, NoResp
  <2>2. QED
    BY <2>1, Zenon DEF Aux
<1>4. QED
  BY <1>1, <1>2, <1>3 DEF IInv

(* Appending one call record keeps the history a sequence of records.     *)
LEMMA RecordCallType ==
  ASSUME HistOK, NEW r \in Requests, NEW o \in Outcomes,
         lastAttempt[r] \in BOOLEAN, RecordCall(r, o)
  PROVE  calls' \in [Requests -> Seq(CallRec)]
<1> DEFINE rec == [last |-> lastAttempt[r], outcome |-> o]
<1>1. rec \in CallRec
  BY DEF CallRec
<1>2. calls[r] \in Seq(CallRec)
  BY Zenon DEF HistOK
<1>3. Append(calls[r], rec) \in Seq(CallRec)
  BY <1>1, <1>2, AppendProperties
<1>4. calls' = [calls EXCEPT ![r] = Append(calls[r], rec)]
  BY DEF RecordCall
<1>5. QED
  BY <1>3, <1>4, Zenon DEF HistOK

(* Each HandleRetry helper returns a sequence of retry states.            *)
LEMMA StatType ==
  ASSUME NEW ev \in Seq(RetryStates), NEW idx \in Nat, NEW e
  PROVE  /\ SuccessStat(ev, idx) \in Seq(RetryStates)
         /\ FailedStat(ev, idx, e) \in Seq(RetryStates)
         /\ BreakerStat(ev, idx) \in Seq(RetryStates)
BY AppendProperties DEF SuccessStat, FailedStat, BreakerStat, RetryStates

(* Replacing one request's retry events by a sequence of retry states     *)
(* keeps the history typed.                                                *)
LEMMA EventsStep ==
  ASSUME HistOK, NEW r \in Requests, NEW ev \in Seq(RetryStates),
         retryEvents' = [retryEvents EXCEPT ![r] = ev]
  PROVE  retryEvents' \in [Requests -> Seq(RetryStates)]
BY Zenon DEF HistOK

(* writeError writes one of the modelled statuses.                        *)
LEMMA WriteErrorType ==
  ASSUME NEW e PROVE WriteError(e) \in Statuses
BY ConstantsAssumption DEF WriteError, ErrorStatus, GrpcCode, Statuses,
   Codes, GrpcCodes

(* The step lemma: every action of Next preserves the strengthening.      *)
(* One case per action; under each, the typed part without the histories, *)
(* the histories, and Aux.                                                 *)
LEMMA NextIInv == IInv /\ [Next]_vars => IInv'
<1> SUFFICES ASSUME IInv, [Next]_vars PROVE IInv'
  OBVIOUS
<1> USE ConstantsAssumption DEF IInv
<1>1. CASE UNCHANGED vars
  BY <1>1, Zenon DEF vars, reqVars, breakerVars, BaseOK, HistOK, Aux
<1>2. CASE ToggleRetryFeature
  <2>1. BaseOK'
    BY <1>2 DEF ToggleRetryFeature, reqVars, breakerVars, BaseOK
  <2>2. HistOK' /\ Aux'
    BY <1>2, Zenon DEF ToggleRetryFeature, reqVars, HistOK, Aux
  <2>3. QED
    BY <2>1, <2>2
<1>3. CASE WindowRoll
  <2>1. BaseOK'
    BY <1>3 DEF WindowRoll, reqVars, BaseOK
  <2>2. HistOK' /\ Aux'
    BY <1>3, Zenon DEF WindowRoll, reqVars, HistOK, Aux
  <2>3. QED
    BY <2>1, <2>2
<1>4. ASSUME NEW r \in Requests, ServeStart(r) PROVE IInv'
  <2>1. BaseOK'
    BY <1>4, WriteErrorType DEF ServeStart, breakerVars, BaseOK
  <2>2. HistOK'
    BY <1>4, Zenon DEF ServeStart, HistOK
  <2>3. Aux'
    BY <1>4 DEF ServeStart, BaseOK, Aux
  <2>4. QED
    BY <2>1, <2>2, <2>3
<1>5. ASSUME NEW r \in Requests, ContextDone(r) PROVE IInv'
  <2>1. BaseOK'
    BY <1>5 DEF ContextDone, breakerVars, BaseOK
  <2>2. HistOK' /\ Aux'
    BY <1>5, Zenon DEF ContextDone, HistOK, Aux
  <2>3. QED
    BY <2>1, <2>2
<1>6. ASSUME NEW r \in Requests, Respond(r) PROVE IInv'
  <2>1. HistOK'
    BY <1>6, Zenon DEF Respond, HistOK
  <2>2. CASE err[r] # "nil"
    <3>1. BaseOK'
      BY <1>6, <2>2, WriteErrorType DEF Respond, breakerVars, BaseOK
    <3>2. Aux'
      BY <1>6, <2>2 DEF Respond, BaseOK, Aux
    <3>3. QED
      BY <2>1, <3>1, <3>2
  <2>3. CASE err[r] = "nil"
    <3>1. UpstreamStatus(resp[r]) \in Statuses
      BY DEF UpstreamStatus, Statuses, Codes, GrpcCodes, BaseOK, Resps
    <3>2. bodiesOpen' \in [Requests -> Nat]
      BY <1>6, <2>3 DEF Respond, CloseRelayed, BaseOK, Aux
    <3>5. resp' \in [Requests -> Resps]
      <4>0. resp[r] \in Resps
        BY DEF BaseOK
      <4>1. [resp[r] EXCEPT !.open = FALSE] \in Resps
        BY <4>0, Zenon DEF Resps
      <4>2. resp' = [resp EXCEPT ![r] = [resp[r] EXCEPT !.open = FALSE]]
        BY <1>6, <2>3 DEF Respond
      <4>3. QED
        BY <4>1, <4>2, Zenon DEF BaseOK
    <3>6. BaseOK'
      BY <1>6, <2>3, <3>1, <3>2, <3>5 DEF Respond, breakerVars, BaseOK
    <3>3. Aux'
      BY <1>6, <2>3 DEF Respond, CloseRelayed, BaseOK, Aux, Resps
    <3>4. QED
      BY <2>1, <3>6, <3>3
  <2>4. QED
    BY <2>2, <2>3
<1>7. ASSUME NEW r \in Requests, AttemptBegin(r) PROVE IInv'
  <2>1. CASE LoopExhausted(r)
    <3>1. BaseOK'
      BY <1>7, <2>1 DEF AttemptBegin, LoopExhausted, ExitLoop, breakerVars,
         BaseOK
    <3>2. HistOK'
      BY <1>7, <2>1, Zenon DEF AttemptBegin, LoopExhausted, HistOK
    <3>3. Aux'
      BY <1>7, <2>1 DEF AttemptBegin, LoopExhausted, ExitLoop, BaseOK, Aux
    <3>4. QED
      BY <3>1, <3>2, <3>3
  <2>2. CASE i[r] < Attempts /\ i[r] > 0 /\ RetryRefused(r)
    <3>1. BaseOK'
      BY <1>7, <2>2 DEF AttemptBegin, RetryRefused, ExitLoop, breakerVars,
         BaseOK
    <3>2. HistOK'
      <4>1. calls' = calls
        BY <2>2 DEF RetryRefused
      <4>2. retryEvents[r] \in Seq(RetryStates) /\ i[r] \in Nat
        <5>1. retryEvents[r] \in Seq(RetryStates)
          BY Zenon DEF HistOK
        <5>2. i[r] \in Nat
          BY DEF BaseOK
        <5>3. QED
          BY <5>1, <5>2
      <4>3. CASE UNCHANGED retryEvents
        BY <4>1, <4>3, Zenon DEF HistOK
      <4>4. CASE retryEvents' = [retryEvents EXCEPT ![r] =
                                   BreakerStat(retryEvents[r], i[r])]
        BY <4>1, <4>2, <4>4, StatType, EventsStep, Zenon DEF HistOK
      <4>5. QED
        BY <2>2, <4>3, <4>4 DEF RetryRefused
    <3>3. Aux'
      BY <1>7, <2>2 DEF AttemptBegin, RetryRefused, ExitLoop, BaseOK, Aux
    <3>4. QED
      BY <3>1, <3>2, <3>3
  <2>3. CASE i[r] < Attempts /\ IssueAttempt(r) /\ ctxErr[r] # "none"
    <3>0. /\ lastAttempt' = [lastAttempt EXCEPT ![r] = @ \/ IsLastIndex(i[r])]
          /\ err' = [err EXCEPT ![r] = ctxErr[r]]
          /\ BreakerMarkFailed(i[r])
          /\ pc' = [pc EXCEPT ![r] = "relay"]
          /\ UNCHANGED windowRetries
      BY <2>3 DEF IssueAttempt, ExitLoop
    <3>a. UNCHANGED <<i, ctxErr, resp, bodiesOpen, status, retryEnabled>>
      BY <1>7 DEF AttemptBegin
    <3>b. lastAttempt' \in [Requests -> BOOLEAN]
      BY <3>0 DEF BaseOK, IsLastIndex
    <3>c0. ctxErr[r] \in Errors
      BY <2>3 DEF BaseOK, Errors
    <3>c. err' \in [Requests -> {"nil"} \cup Errors]
      BY <3>0, <3>c0, Zenon DEF BaseOK
    <3>d. bAccepts' \in Nat /\ bTotal' \in Nat /\ windowRetries' \in Nat
      BY <3>0 DEF BaseOK, BreakerMarkFailed
    <3>e. pc' \in [Requests -> {"init", "loop", "call", "relay", "done"}]
      BY <3>0 DEF BaseOK
    <3>1. BaseOK'
      BY <3>a, <3>b, <3>c, <3>d, <3>e DEF BaseOK
    <3>2. HistOK'
      <4>1. retryEvents[r] \in Seq(RetryStates) /\ i[r] \in Nat
        <5>1. retryEvents[r] \in Seq(RetryStates)
          BY Zenon DEF HistOK
        <5>2. i[r] \in Nat
          BY DEF BaseOK
        <5>3. QED
          BY <5>1, <5>2
      <4>2. retryEvents' = [retryEvents EXCEPT ![r] =
                              FailedStat(retryEvents[r], i[r], ctxErr[r])]
            /\ calls' = calls
        BY <2>3 DEF IssueAttempt
      <4>3. QED
        BY <4>1, <4>2, StatType, EventsStep, Zenon DEF HistOK
    <3>3. Aux'
      BY <1>7, <2>3 DEF AttemptBegin, IssueAttempt, ExitLoop, BaseOK, Aux
    <3>4. QED
      BY <3>1, <3>2, <3>3
  <2>4. CASE i[r] < Attempts /\ IssueAttempt(r) /\ ctxErr[r] = "none"
    <3>1. BaseOK'
      BY <1>7, <2>4 DEF AttemptBegin, IssueAttempt, IsLastIndex, breakerVars,
         BaseOK
    <3>2. HistOK'
      BY <1>7, <2>4, Zenon DEF IssueAttempt, HistOK
    <3>3. Aux'
      BY <1>7, <2>4 DEF AttemptBegin, IssueAttempt, BaseOK, Aux
    <3>4. QED
      BY <3>1, <3>2, <3>3
  <2>5. QED
    BY <1>7, <2>1, <2>2, <2>3, <2>4 DEF AttemptBegin
<1>8. ASSUME NEW r \in Requests, RoundTripReturn(r) PROVE IInv'
  <2>0. /\ retryEvents[r] \in Seq(RetryStates)
        /\ i[r] \in Nat
        /\ lastAttempt[r] \in BOOLEAN
    <3>1. retryEvents[r] \in Seq(RetryStates)
      BY Zenon DEF HistOK
    <3>2. i[r] \in Nat /\ lastAttempt[r] \in BOOLEAN
      BY DEF BaseOK
    <3>3. QED
      BY <3>1, <3>2
  <2>1. CASE AttemptFailed(r)
    <3>1. PICK e \in {"deadline", "other"} \cup
                     (IF ctxErr[r] = "none" THEN {} ELSE {ctxErr[r]}) :
            /\ err' = [err EXCEPT ![r] = e]
            /\ resp' = [resp EXCEPT ![r] = NoResp]
            /\ retryEvents' = [retryEvents EXCEPT ![r] = FailedStat(@, i[r], e)]
            /\ BreakerMarkFailed(i[r])
            /\ i' = [i EXCEPT ![r] = @ + 1]
            /\ pc' = [pc EXCEPT ![r] = "loop"]
            /\ RecordCall(r, "error")
            /\ UNCHANGED <<lastAttempt, bodiesOpen>>
      BY <2>1, Zenon DEF AttemptFailed
    <3>2. e \in Errors
      BY <3>1 DEF BaseOK, Errors
    <3>3. BaseOK'
      BY <1>8, <3>1, <3>2 DEF RoundTripReturn, BreakerMarkFailed, RecordCall,
         BaseOK, Aux, NoResp, Resps
    <3>4. HistOK'
      BY <2>0, <3>1, StatType, EventsStep, RecordCallType, Zenon
         DEF HistOK, Outcomes
    <3>5. Aux'
      BY <1>8, <3>1 DEF RoundTripReturn, BaseOK, Aux, NoResp
    <3>6. QED
      BY <3>3, <3>4, <3>5
  <2>2. CASE AttemptRetriable(r)
    <3>1. BaseOK'
      BY <1>8, <2>2 DEF RoundTripReturn, AttemptRetriable, DiscardRetriable,
         BreakerMarkFailed, RecordCall, BaseOK, Aux, Resps
    <3>2. HistOK'
      BY <2>0, <2>2, StatType, EventsStep, RecordCallType, Zenon
         DEF AttemptRetriable, HistOK, Outcomes
    <3>3. Aux'
      BY <1>8, <2>2 DEF RoundTripReturn, AttemptRetriable, DiscardRetriable,
         BaseOK, Aux
    <3>4. QED
      BY <3>1, <3>2, <3>3
  <2>3. CASE AttemptSucceeded(r)
    <3>1. BaseOK'
      BY <1>8, <2>3 DEF RoundTripReturn, AttemptSucceeded, BreakerMarkSuccess,
         RecordCall, BaseOK, Aux, Resps
    <3>2. HistOK'
      BY <2>0, <2>3, StatType, EventsStep, RecordCallType, Zenon
         DEF AttemptSucceeded, HistOK, Outcomes
    <3>3. Aux'
      BY <1>8, <2>3 DEF RoundTripReturn, AttemptSucceeded, BaseOK, Aux
    <3>4. QED
      BY <3>1, <3>2, <3>3
  <2>4. QED
    BY <1>8, <2>1, <2>2, <2>3 DEF RoundTripReturn
<1>9. QED
  BY <1>1, <1>2, <1>3, <1>4, <1>5, <1>6, <1>7, <1>8 DEF Next

(* In the initial state no request holds a body.                          *)
LEMMA InitBodyCount == Init => BodyCount
<1> SUFFICES ASSUME Init PROVE BodyCount
  OBVIOUS
<1>1. \A r \in Requests : ~resp[r].open /\ bodiesOpen[r] = 0
  BY Zenon DEF Init, NoResp
<1>2. QED
  BY <1>1 DEF BodyCount

(* Every step keeps the count of open bodies: the retriable branch closes *)
(* its body, a success opens one and goes to the relay, the relay closes *)
(* it, and no other step touches resp's body.                             *)
LEMMA NextBodyCount == IInv /\ BodyCount /\ [Next]_vars => BodyCount'
<1> SUFFICES ASSUME IInv, BodyCount, [Next]_vars PROVE BodyCount'
  OBVIOUS
<1> USE ConstantsAssumption DEF IInv, BaseOK, BodyCount
<1>1. CASE UNCHANGED vars \/ ToggleRetryFeature \/ WindowRoll
  BY <1>1 DEF vars, reqVars, ToggleRetryFeature, WindowRoll
<1>2. ASSUME NEW r \in Requests, ServeStart(r) \/ ContextDone(r)
      PROVE  BodyCount'
  BY <1>2 DEF ServeStart, ContextDone
<1>3. ASSUME NEW r \in Requests, Respond(r) PROVE BodyCount'
  BY <1>3 DEF Respond, CloseRelayed, Resps
<1>4. ASSUME NEW r \in Requests, AttemptBegin(r) PROVE BodyCount'
  <2>1. pc[r] = "loop"
    BY <1>4 DEF AttemptBegin
  <2>2. ~resp[r].open
    BY <2>1
  <2>3. QED
    BY <1>4, <2>2 DEF AttemptBegin, LoopExhausted, RetryRefused, IssueAttempt,
       ExitLoop
<1>5. ASSUME NEW r \in Requests, RoundTripReturn(r) PROVE BodyCount'
  <2>1. ~resp[r].open /\ bodiesOpen[r] = 0
    BY <1>5 DEF RoundTripReturn
  <2>2. CASE AttemptFailed(r)
    BY <1>5, <2>1, <2>2 DEF AttemptFailed, NoResp
  <2>3. CASE AttemptRetriable(r)
    BY <1>5, <2>1, <2>3 DEF AttemptRetriable, DiscardRetriable
  <2>4. CASE AttemptSucceeded(r)
    BY <1>5, <2>1, <2>4 DEF AttemptSucceeded
  <2>5. QED
    BY <1>5, <2>2, <2>3, <2>4 DEF RoundTripReturn
<1>6. QED
  BY <1>1, <1>2, <1>3, <1>4, <1>5 DEF Next

(* No upstream connection leaks: a request holds at most one upstream     *)
(* body, and none once its handler has returned, through every sequence   *)
(* of retriable responses, errors, exhausted attempts and cancellations.  *)
THEOREM UpstreamBodiesClosedHolds == Spec => []UpstreamBodiesClosed
<1> DEFINE J == IInv /\ BodyCount
<1>1. J => UpstreamBodiesClosed
  <2> SUFFICES ASSUME J, NEW r \in Requests
               PROVE  bodiesOpen[r] <= 1 /\ (pc[r] = "done" => bodiesOpen[r] = 0)
    BY DEF UpstreamBodiesClosed
  <2>1. resp[r].open \in BOOLEAN
    BY DEF IInv, BaseOK, Resps
  <2>2. CASE resp[r].open
    BY <2>2 DEF BodyCount
  <2>3. CASE ~resp[r].open
    BY <2>3 DEF BodyCount
  <2>4. QED
    BY <2>1, <2>2, <2>3
<1>2. Init => J
  BY InitIInv, InitBodyCount
<1>3. J /\ [Next]_vars => J'
  BY NextIInv, NextBodyCount
<1>4. QED
  BY <1>1, <1>2, <1>3, PTL DEF Spec

(* CS(r) only reads request r's own variables.                            *)
LEMMA CSFrame ==
  ASSUME NEW r, CS(r),
         pc'[r] = pc[r], i'[r] = i[r], lastAttempt'[r] = lastAttempt[r],
         err'[r] = err[r], resp'[r].kind = resp[r].kind, calls'[r] = calls[r],
         status'[r] = status[r]
  PROVE  CS(r)'
BY DEF CS, HasFinal, IsLastIndex

(* A step of another request, or of the breaker or the feature gate,      *)
(* leaves request r's variables alone.                                    *)
LEMMA OtherStepFrame ==
  ASSUME IInv, NEW r \in Requests, [Next]_vars,
         ~ServeStart(r), ~AttemptBegin(r), ~RoundTripReturn(r), ~Respond(r)
  PROVE  /\ pc'[r] = pc[r] /\ i'[r] = i[r] /\ lastAttempt'[r] = lastAttempt[r]
         /\ err'[r] = err[r] /\ resp'[r].kind = resp[r].kind
         /\ calls'[r] = calls[r] /\ status'[r] = status[r]
<1> USE DEF IInv, BaseOK, HistOK
<1>1. CASE UNCHANGED vars \/ ToggleRetryFeature \/ WindowRoll
  BY <1>1 DEF vars, reqVars, ToggleRetryFeature, WindowRoll
<1>3. ASSUME NEW s \in Requests, s # r,
             ServeStart(s) \/ AttemptBegin(s) \/ ContextDone(s)
      PROVE  /\ pc'[r] = pc[r] /\ i'[r] = i[r]
             /\ lastAttempt'[r] = lastAttempt[r]
             /\ err'[r] = err[r] /\ resp'[r].kind = resp[r].kind
             /\ calls'[r] = calls[r] /\ status'[r] = status[r]
  BY <1>3 DEF ServeStart, AttemptBegin, ContextDone, LoopExhausted,
     RetryRefused, IssueAttempt, ExitLoop
<1>4. ASSUME NEW s \in Requests, s # r, RoundTripReturn(s)
      PROVE  /\ pc'[r] = pc[r] /\ i'[r] = i[r]
             /\ lastAttempt'[r] = lastAttempt[r]
             /\ err'[r] = err[r] /\ resp'[r].kind = resp[r].kind
             /\ calls'[r] = calls[r] /\ status'[r] = status[r]
  BY <1>4 DEF RoundTripReturn, AttemptFailed, AttemptRetriable,
     AttemptSucceeded, DiscardRetriable, RecordCall
<1>5. ASSUME NEW s \in Requests, s # r, Respond(s)
      PROVE  /\ pc'[r] = pc[r] /\ i'[r] = i[r]
             /\ lastAttempt'[r] = lastAttempt[r]
             /\ err'[r] = err[r] /\ resp'[r].kind = resp[r].kind
             /\ calls'[r] = calls[r] /\ status'[r] = status[r]
  BY <1>5 DEF Respond, CloseRelayed
<1>6. CASE ContextDone(r)
  BY <1>6 DEF ContextDone
<1>7. QED
  BY <1>1, <1>3, <1>4, <1>5, <1>6 DEF Next

(* Every step keeps the shape of each request's call history.            *)
LEMMA NextCallShape == IInv /\ CallShape /\ [Next]_vars => CallShape'
<1> SUFFICES ASSUME IInv, CallShape, [Next]_vars, NEW r \in Requests
             PROVE  CS(r)'
  BY DEF CallShape
<1>0. CS(r)
  BY DEF CallShape
<1> USE ConstantsAssumption DEF IsLastIndex
<1>1. CASE ~ServeStart(r) /\ ~AttemptBegin(r) /\ ~RoundTripReturn(r)
           /\ ~Respond(r)
  BY <1>0, <1>1, OtherStepFrame, CSFrame
<1>2. CASE ServeStart(r)
  <2>1. pc[r] = "init" /\ i[r] = 0 /\ ~lastAttempt[r] /\ Len(calls[r]) = 0
    BY <1>0, <1>2 DEF ServeStart, CS, IInv, Aux
  <2>2. ~HasFinal(r)
    BY <2>1 DEF HasFinal
  <2>3. \A e \in {"disconnected", "other"} :
          ~(WriteError(e).code = 200 /\ WriteError(e).grpc = 0)
    BY DEF WriteError, ErrorStatus, GrpcCode
  <2>4. UNCHANGED <<i, lastAttempt, err, resp, calls>>
    BY <1>2 DEF ServeStart
  <2>5. CASE pc' = [pc EXCEPT ![r] = "loop"]
    BY <1>0, <2>1, <2>2, <2>4, <2>5 DEF CS, HasFinal, IInv, BaseOK
  <2>6. ASSUME NEW e \in {"disconnected", "other"},
               pc' = [pc EXCEPT ![r] = "done"],
               status' = [status EXCEPT ![r] = WriteError(e)]
        PROVE  CS(r)'
    BY <1>0, <2>1, <2>2, <2>3, <2>4, <2>6 DEF CS, HasFinal, IInv, BaseOK
  <2>7. QED
    BY <1>2, <2>5, <2>6 DEF ServeStart
<1>3. CASE AttemptBegin(r)
  <2>1. pc[r] = "loop" /\ ~HasFinal(r)
    BY <1>0, <1>3 DEF AttemptBegin, CS, HasFinal
  <2>2. UNCHANGED <<i, resp, status>> /\ calls' = calls
    BY <1>3 DEF AttemptBegin, LoopExhausted, RetryRefused, IssueAttempt
  <2>3. CASE LoopExhausted(r) \/ RetryRefused(r)
    BY <1>0, <2>1, <2>2, <2>3 DEF LoopExhausted, RetryRefused, ExitLoop, CS,
       HasFinal, IInv, BaseOK
  <2>4. CASE IssueAttempt(r) /\ i[r] < Attempts
    <3>1. ~lastAttempt[r] /\ lastAttempt[r] \in BOOLEAN
      BY <1>0, <2>1, <2>4 DEF CS, IInv, BaseOK
    <3>2. resp[r].kind # "final"
      BY <1>0, <2>1 DEF CS
    <3>3. CASE /\ ctxErr[r] # "none"
               /\ err' = [err EXCEPT ![r] = ctxErr[r]]
               /\ pc' = [pc EXCEPT ![r] = "relay"]
      BY <1>0, <2>1, <2>2, <3>3 DEF CS, HasFinal, IInv, BaseOK
    <3>4. CASE /\ err' = [err EXCEPT ![r] = "nil"]
               /\ pc' = [pc EXCEPT ![r] = "call"]
      <4>1. lastAttempt'[r] <=> IsLastIndex(i[r])
        BY <2>4, <3>1 DEF IssueAttempt, IInv, BaseOK
      <4>2. QED
        BY <1>0, <2>1, <2>2, <3>2, <3>4, <4>1 DEF CS, HasFinal, IInv, BaseOK
    <3>5. QED
      BY <2>4, <3>3, <3>4 DEF IssueAttempt, ExitLoop
  <2>5. QED
    BY <1>3, <2>3, <2>4 DEF AttemptBegin
<1>4. CASE RoundTripReturn(r)
  <2> DEFINE rec(o) == [last |-> lastAttempt[r], outcome |-> o]
  <2>1. /\ pc[r] = "call" /\ i[r] < Attempts /\ Len(calls[r]) = i[r]
        /\ ~HasFinal(r) /\ i[r] \in Nat
        /\ (lastAttempt[r] <=> i[r] + 1 >= Attempts)
    BY <1>0, <1>4 DEF RoundTripReturn, CS, HasFinal, IsLastIndex, IInv, Aux,
       BaseOK
  <2>2. calls[r] \in Seq(CallRec)
    BY Zenon DEF IInv, HistOK
  <2>3. ASSUME NEW o \in Outcomes, RecordCall(r, o)
        PROVE  /\ Len(calls'[r]) = i[r] + 1
               /\ \A k \in 1..Len(calls'[r]) : calls'[r][k].last <=> k = Attempts
               /\ \A k \in 1..Len(calls'[r]) :
                    calls'[r][k].outcome = "final" =>
                      k = Len(calls'[r]) /\ o = "final"
               /\ HasFinal(r)' <=> o = "final"
    <3>1. /\ Len(calls'[r]) = i[r] + 1
          /\ \A k \in 1..i[r] : calls'[r][k] = calls[r][k]
          /\ calls'[r][i[r] + 1] = rec(o)
      BY <2>1, <2>2, <2>3 DEF RecordCall, IInv, HistOK
    <3>2. ASSUME NEW k \in 1..Len(calls'[r])
          PROVE  /\ calls'[r][k].last <=> k = Attempts
                 /\ calls'[r][k].outcome = "final" =>
                      k = Len(calls'[r]) /\ o = "final"
      <4>1. CASE k \in 1..i[r]
        <5>1. calls'[r][k] = calls[r][k] /\ k \in 1..Len(calls[r])
          BY <2>1, <3>1, <4>1
        <5>2. calls[r][k].last <=> k = Attempts
          BY <1>0, <5>1 DEF CS
        <5>3. calls[r][k].outcome # "final"
          BY <1>0, <2>1, <5>1 DEF CS
        <5>4. QED
          BY <5>1, <5>2, <5>3
      <4>2. CASE k = i[r] + 1
        <5>1. calls'[r][k] = rec(o)
          BY <3>1, <4>2
        <5>2. lastAttempt[r] <=> k = Attempts
          BY <2>1, <4>2
        <5>3. QED
          BY <3>1, <4>2, <5>1, <5>2
      <4>3. QED
        BY <2>1, <3>1, <4>1, <4>2
    <3>3. HasFinal(r)' <=> o = "final"
      <4>1. i[r] + 1 \in 1..Len(calls'[r]) /\ calls'[r][i[r] + 1].outcome = o
        BY <2>1, <3>1
      <4>2. QED
        BY <3>2, <4>1 DEF HasFinal
    <3>4. QED
      BY <3>1, <3>2, <3>3
  <2>4. CASE AttemptFailed(r) \/ AttemptRetriable(r)
    <3>1. PICK o \in {"error", "retriable"} :
            /\ RecordCall(r, o)
            /\ resp'[r].kind # "final"
            /\ pc' = [pc EXCEPT ![r] = "loop"]
            /\ i' = [i EXCEPT ![r] = @ + 1]
            /\ UNCHANGED lastAttempt
      BY <2>4 DEF AttemptFailed, AttemptRetriable, DiscardRetriable, NoResp,
         IInv, BaseOK
    <3>2. o \in Outcomes
      BY DEF Outcomes
    <3>3. pc'[r] = "loop" /\ i'[r] = i[r] + 1 /\ lastAttempt'[r] = lastAttempt[r]
      BY <3>1 DEF IInv, BaseOK
    <3>4. /\ Len(calls'[r]) = i[r] + 1
          /\ \A k \in 1..Len(calls'[r]) : calls'[r][k].last <=> k = Attempts
          /\ \A k \in 1..Len(calls'[r]) : calls'[r][k].outcome # "final"
          /\ ~HasFinal(r)'
      BY <2>3, <3>1, <3>2
    <3>5. QED
      BY <2>1, <3>1, <3>3, <3>4 DEF CS
  <2>5. CASE AttemptSucceeded(r)
    <3>1. "final" \in Outcomes
      BY DEF Outcomes
    <3>2. RecordCall(r, "final")
      BY <2>5 DEF AttemptSucceeded
    <3>3. /\ pc'[r] = "relay" /\ i'[r] = i[r] /\ err'[r] = "nil"
          /\ resp'[r].kind = "final"
      BY <2>5 DEF AttemptSucceeded, IInv, BaseOK
    <3>4. /\ Len(calls'[r]) = i[r] + 1
          /\ \A k \in 1..Len(calls'[r]) : calls'[r][k].last <=> k = Attempts
          /\ \A k \in 1..Len(calls'[r]) :
               calls'[r][k].outcome = "final" => k = Len(calls'[r])
          /\ HasFinal(r)'
      BY <2>3, <3>1, <3>2
    <3>5. QED
      BY <2>1, <3>3, <3>4 DEF CS
  <2>6. QED
    BY <1>4, <2>4, <2>5 DEF RoundTripReturn
<1>5. CASE Respond(r)
  <2>1. pc[r] = "relay" /\ resp[r] \in Resps
    BY <1>5 DEF Respond, IInv, BaseOK
  <2>2. resp'[r].kind = resp[r].kind
    BY <1>5, <2>1 DEF Respond, IInv, BaseOK, Resps
  <2>3. CASE err[r] # "nil"
    <3>1. ~HasFinal(r)
      BY <1>0, <2>3 DEF CS
    <3>2. status'[r] = WriteError(err[r])
      BY <1>5, <2>3 DEF Respond, IInv, BaseOK
    <3>3. ~(status'[r].code = 200 /\ status'[r].grpc = 0)
      BY <3>2 DEF WriteError, ErrorStatus, GrpcCode
    <3>4. QED
      BY <1>0, <1>5, <2>1, <2>2, <3>1, <3>3 DEF Respond, CS, HasFinal, IInv,
         BaseOK
  <2>4. CASE err[r] = "nil"
    <3>1. status'[r] = UpstreamStatus(resp[r])
      BY <1>5, <2>4 DEF Respond, IInv, BaseOK
    <3>2. (status'[r].code = 200 /\ status'[r].grpc = 0)
            <=> resp[r].kind = "final"
      BY <3>1 DEF UpstreamStatus
    <3>3. QED
      BY <1>0, <1>5, <2>1, <2>2, <3>2 DEF Respond, CS, HasFinal, IInv, BaseOK
  <2>5. QED
    BY <2>3, <2>4
<1>6. QED
  BY <1>1, <1>2, <1>3, <1>4, <1>5

(* In the initial state no request has called upstream.                   *)
LEMMA InitCallShape == Init => CallShape
<1> SUFFICES ASSUME Init, NEW r \in Requests PROVE CS(r)
  BY DEF CallShape
<1>1. /\ pc[r] = "init" /\ i[r] = 0 /\ lastAttempt[r] = FALSE
      /\ calls[r] = << >> /\ resp[r] = NoResp
  BY DEF Init
<1>2. Len(calls[r]) = 0 /\ ~HasFinal(r)
  BY <1>1 DEF HasFinal
<1>3. QED
  BY <1>1, <1>2, ConstantsAssumption DEF CS, NoResp

(* LastAttempt is on for an upstream call only when no call follows it,  *)
(* and the call at the last index always has it, for every number of     *)
(* attempts and every interleaving of the gate, the breaker and the       *)
(* cancellations.                                                          *)
THEOREM LastAttemptOnlyOnFinalCallHolds == Spec => []LastAttemptOnlyOnFinalCall
<1> DEFINE J == IInv /\ CallShape
<1>1. J => LastAttemptOnlyOnFinalCall
  <2> SUFFICES ASSUME J, NEW r \in Requests
               PROVE  /\ \A k \in 1..Len(calls[r]) - 1 : ~calls[r][k].last
                      /\ Len(calls[r]) = Attempts => calls[r][Attempts].last
    BY DEF LastAttemptOnlyOnFinalCall
  <2>1. CS(r)
    BY DEF CallShape
  <2>2. Len(calls[r]) \in Nat
    BY LenProperties, Zenon DEF IInv, HistOK
  <2>3. QED
    BY <2>1, <2>2, ConstantsAssumption DEF CS
<1>2. QED
  BY <1>1, InitIInv, InitCallShape, NextIInv, NextCallShape, PTL DEF Spec

(* The first upstream response that matches no retry condition ends the   *)
(* loop, and a client gets the success status exactly when one came back. *)
THEOREM SuccessIsRelayedHolds == Spec => []SuccessIsRelayed
<1> DEFINE J == IInv /\ CallShape
<1>1. J => SuccessIsRelayed
  <2> SUFFICES ASSUME J, NEW r \in Requests
               PROVE  /\ \A k \in 1..Len(calls[r]) :
                           calls[r][k].outcome = "final" => k = Len(calls[r])
                      /\ pc[r] = "done" =>
                           (HasFinal(r) <=> status[r].code = 200
                                             /\ status[r].grpc = 0)
    BY DEF SuccessIsRelayed, HasFinal
  <2>1. CS(r)
    BY DEF CallShape
  <2>2. QED
    BY <2>1 DEF CS
<1>2. QED
  BY <1>1, InitIInv, InitCallShape, NextIInv, NextCallShape, PTL DEF Spec

(* Type correctness of the buffered request path.                         *)
THEOREM TypeCorrect == Spec => []TypeOK
<1>1. IInv => TypeOK
  BY TypeSplit DEF IInv
<1>2. QED
  BY <1>1, InitIInv, NextIInv, PTL DEF Spec

(* Line 254 never dereferences a nil resp: whenever the attempt loop is   *)
(* left with err = nil, resp holds an upstream response, whatever the     *)
(* number of attempts, the breaker's answers, the feature gate and the    *)
(* timing of cancellations.                                                *)
THEOREM NilResponseSafety == Spec => []NilResponseNeverRelayed
<1>1. IInv => NilResponseNeverRelayed
  BY DEF IInv, Aux, NilResponseNeverRelayed
<1>2. QED
  BY <1>1, InitIInv, NextIInv, PTL DEF Spec

=============================================================================
