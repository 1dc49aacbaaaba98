---------------------------- MODULE StreamTracker ----------------------------
(***************************************************************************)
(* The stream path of an endpoint handler (proxyStream in                  *)
(* src/proxy/proxy.go) and the body tracking of MetaStreamContext          *)
(* (src/unnamed/part_001, package middleware) for one streaming request.   *)
(*                                                                         *)
(* Three goroutines act on the context: the handler goroutine (through     *)
(* httputil.ReverseProxy), the transport, which closes the request body    *)
(* once it has written it or given up, and the body wrappers' Close, run   *)
(* by whichever goroutine closes a body.  notifyBodyClosed is two atomic   *)
(* operations, an AddInt32 on closedCount and a LoadInt32 of bodiesCount,  *)
(* and a RegisterBody of the response can fall between them.               *)
(***************************************************************************)
EXTENDS Naturals

Bodies == {"request", "response"}

VARIABLES
  spc,          \* where the handler goroutine is
  proto,        \* req.ProtoMajor (the response has the same)
  websocket,    \* isWebSocketRequest(req)
  noBody,       \* req.ContentLength == 0: ReverseProxy sends no body
  body,         \* each body: "none" (no wrapper), "plain" (not wrapped),
                \* "open", "checking" (AddInt32 done), "closed"
  seen,         \* the value notifyBodyClosed's AddInt32 returned
  bodiesCount,  \* MetaStreamContext.bodiesCount
  closedCount,  \* MetaStreamContext.closedCount
  finishDone,   \* finishOnce has run
  fires,        \* times the OnFinish hooks have run
  responseSet,  \* streamCtx.Response has been assigned
  outcome       \* what the client got: "none", "upstream", "error"

vars == <<spc, proto, websocket, noBody, body, seen, bodiesCount, closedCount,
          finishDone, fires, responseSet, outcome>>

(* A wrapper that has not yet closed, or is inside its Close.             *)
Unclosed(b) == body[b] \in {"open", "checking"}

Init ==
  /\ spc = "start"
  /\ proto \in {1, 2}
  /\ websocket \in IF proto = 1 THEN BOOLEAN ELSE {FALSE}
  /\ noBody \in BOOLEAN
  /\ body = [b \in Bodies |-> "none"]
  /\ seen = [b \in Bodies |-> 0]
  /\ bodiesCount = 0
  /\ closedCount = 0
  /\ finishDone = FALSE
  /\ fires = 0
  /\ responseSet = FALSE
  /\ outcome = "none"

(* WrapReadCloserBody / WrapReadWriteCloserBody: the wrapper is created   *)
(* and RegisterBody adds it to bodiesCount.                                *)
RegisterBody(b) ==
  /\ body' = [body EXCEPT ![b] = "open"]
  /\ bodiesCount' = bodiesCount + 1

(* wrapStreamRequestBody: the request body is wrapped, and registered,    *)
(* except for an HTTP/1.x WebSocket upgrade.                              *)
RequestWrapped == ~(proto = 1 /\ websocket)

(* proxyStream up to reverseProxy.ServeHTTP: LastAttempt, the context,    *)
(* the request body wrapper.                                              *)
StreamStart ==
  /\ spc = "start"
  /\ spc' = "trip"
  /\ IF RequestWrapped
       THEN RegisterBody("request")
       ELSE /\ body' = [body EXCEPT !["request"] = "plain"]
            /\ UNCHANGED bodiesCount
  /\ UNCHANGED <<proto, websocket, noBody, seen, closedCount, finishDone, fires,
                 responseSet, outcome>>

(* builtinStreamTripper: RoundTrip returned a response; Response is set   *)
(* and wrapStreamResponseBody wraps and registers its body (a             *)
(* ReadWriteCloser for an upgrade, a ReadCloser otherwise: both count).   *)
ResponseArrives ==
  /\ spc = "trip"
  /\ spc' = "modify"
  /\ responseSet' = TRUE
  /\ RegisterBody("response")
  /\ UNCHANGED <<proto, websocket, noBody, seen, closedCount, finishDone, fires,
                 outcome>>

(* builtinStreamTripper: RoundTrip returned an error; ReverseProxy calls  *)
(* the ErrorHandler (DoneFunc, markFailed at index 0, writeError).        *)
RoundTripFails ==
  /\ spc = "trip"
  /\ spc' = "proxied"
  /\ outcome' = "error"
  /\ UNCHANGED <<proto, websocket, noBody, body, seen, bodiesCount, closedCount,
                 finishDone, fires, responseSet>>

(* ModifyResponse (DoneFunc, markSuccess at index 0, HandleRequest,       *)
(* deferred DoOnResponse), then ReverseProxy copies the body to the       *)
(* client and its deferred res.Body.Close() calls the wrapper's Close.    *)
CopyResponse ==
  /\ spc = "modify"
  /\ spc' = "closingResponse"
  /\ outcome' = "upstream"
  /\ body' = [body EXCEPT !["response"] = "checking"]
  /\ closedCount' = closedCount + 1
  /\ seen' = [seen EXCEPT !["response"] = closedCount + 1]
  /\ UNCHANGED <<proto, websocket, noBody, bodiesCount, finishDone, fires,
                 responseSet>>

(* The transport closes the request body it has written, or gave up on;  *)
(* for HTTP/2 this can be after the response headers.  ReverseProxy       *)
(* hands it no body when ContentLength is 0.  The wrapper's Close enters  *)
(* doneOnce and does the AddInt32 of notifyBodyClosed.                    *)
TransportClosesRequest ==
  /\ spc \in {"trip", "modify", "closingResponse"}
  /\ ~noBody
  /\ body["request"] = "open"
  /\ body' = [body EXCEPT !["request"] = "checking"]
  /\ closedCount' = closedCount + 1
  /\ seen' = [seen EXCEPT !["request"] = closedCount + 1]
  /\ UNCHANGED <<spc, proto, websocket, noBody, bodiesCount, finishDone, fires,
                 responseSet, outcome>>

(* finishOnce.Do: the OnFinish hooks run the first time only.             *)
RunFinish ==
  /\ fires' = IF finishDone THEN fires ELSE fires + 1
  /\ finishDone' = TRUE

(* Mutant: notifyBodyClosed compares with > instead of >=.                *)
AllClosedOffByOne(b) == seen[b] > bodiesCount /\ bodiesCount > 0

(* notifyBodyClosed's result: `closed >= expected && expected > 0` with   *)
(* expected loaded after the add.                                          *)
AllClosed(b) == seen[b] >= bodiesCount /\ bodiesCount > 0

(* The rest of Close: LoadInt32 of bodiesCount and, when every registered *)
(* body is closed, finishOnce.Do of the OnFinish hooks.                   *)
CloseCheck(b) ==
  /\ body[b] = "checking"
  /\ body' = [body EXCEPT ![b] = "closed"]
  /\ IF AllClosed(b) THEN RunFinish ELSE UNCHANGED <<fires, finishDone>>
  /\ UNCHANGED <<spc, proto, websocket, noBody, seen, bodiesCount, closedCount,
                 responseSet, outcome>>

(* ReverseProxy.ServeHTTP returns once the response body's Close has.     *)
ProxyReturns ==
  /\ spc = "closingResponse"
  /\ body["response"] = "closed"
  /\ spc' = "proxied"
  /\ UNCHANGED <<proto, websocket, noBody, body, seen, bodiesCount, closedCount,
                 finishDone, fires, responseSet, outcome>>

(* Mutant: Close without its doneOnce guard; the exit close counts a     *)
(* body the transport already closed a second time.                       *)
CloseRequestOnExitNoOnce ==
  /\ spc = "proxied"
  /\ spc' = "closingRequest"
  /\ IF body["request"] \in {"open", "closed"}
       THEN /\ body' = [body EXCEPT !["request"] = "checking"]
            /\ closedCount' = closedCount + 1
            /\ seen' = [seen EXCEPT !["request"] = closedCount + 1]
       ELSE UNCHANGED <<body, closedCount, seen>>
  /\ UNCHANGED <<proto, websocket, noBody, bodiesCount, finishDone, fires,
                 responseSet, outcome>>

(* proxyStream's `defer req.Body.Close()`: a wrapper not yet closed is    *)
(* closed here (AddInt32); one being closed by the transport is waited    *)
(* for by doneOnce.                                                        *)
CloseRequestOnExit ==
  /\ spc = "proxied"
  /\ spc' = "closingRequest"
  /\ IF body["request"] = "open"
       THEN /\ body' = [body EXCEPT !["request"] = "checking"]
            /\ closedCount' = closedCount + 1
            /\ seen' = [seen EXCEPT !["request"] = closedCount + 1]
       ELSE UNCHANGED <<body, closedCount, seen>>
  /\ UNCHANGED <<proto, websocket, noBody, bodiesCount, finishDone, fires,
                 responseSet, outcome>>

(* proxyStream's `defer streamCtx.DoOnFinish()`, run last.  DoOnFinish is *)
(* not in this source tree; it is taken as finishOnce.Do of the hooks,   *)
(* the reading under which the hooks run exactly once (spec 4.E, P4).     *)
DoOnFinish ==
  /\ spc = "closingRequest"
  /\ body["request"] # "checking"
  /\ spc' = "done"
  /\ RunFinish
  /\ UNCHANGED <<proto, websocket, noBody, body, seen, bodiesCount, closedCount,
                 responseSet, outcome>>

Next ==
  \/ StreamStart
  \/ ResponseArrives
  \/ RoundTripFails
  \/ CopyResponse
  \/ TransportClosesRequest
  \/ \E b \in Bodies : CloseCheck(b)
  \/ ProxyReturns
  \/ CloseRequestOnExit
  \/ DoOnFinish

Spec == Init /\ [][Next]_vars


-----------------------------------------------------------------------------
TypeOK ==
  /\ spc \in {"start", "trip", "modify", "closingResponse", "proxied",
              "closingRequest", "done"}
  /\ proto \in {1, 2}
  /\ websocket \in BOOLEAN
  /\ noBody \in BOOLEAN
  /\ body \in [Bodies -> {"none", "plain", "open", "checking", "closed"}]
  /\ seen \in [Bodies -> Nat]
  /\ bodiesCount \in 0..2
  /\ closedCount \in 0..2
  /\ finishDone \in BOOLEAN
  /\ fires \in Nat
  /\ responseSet \in BOOLEAN
  /\ outcome \in {"none", "upstream", "error"}

(* The hooks are not lost: once every registered body has finished its    *)
(* Close, whichever Close ran last has run them, whatever the order of    *)
(* the adds, the loads and the response's registration.                   *)
AllClosedFinishes ==
  (bodiesCount > 0 /\ \A b \in Bodies : ~Unclosed(b)) => fires = 1

(* Spec P4, second half, and 4.E: the hooks run only after every body     *)
(* that is registered has been closed: a bidirectional stream finalizes  *)
(* only once both bodies close.                                           *)
FinishAfterAllBodiesClosed ==
  fires > 0 => \A b \in Bodies : ~Unclosed(b)

=============================================================================
