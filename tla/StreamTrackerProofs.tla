------------------------- MODULE StreamTrackerProofs -------------------------
(***************************************************************************)
(* Proofs that the OnFinish hooks of a streaming request are never lost, *)
(* for every interleaving of the handler goroutine, the transport and the *)
(* bodies' Close calls.                                                    *)
(*                                                                         *)
(* The argument: the counters of MetaStreamContext count exactly the      *)
(* wrappers registered and the wrappers whose Close did its AddInt32;     *)
(* those adds returned distinct values 1..closedCount, so the Close that  *)
(* did the last add saw the final count, and if no body was registered    *)
(* after its load it found every body closed and ran finishOnce.          *)
(***************************************************************************)
EXTENDS StreamTracker, TLAPS

(* A wrapper has been registered by RegisterBody.                         *)
Registered(b) == body[b] \in {"open", "checking", "closed"}

(* A wrapper's Close has done the AddInt32 of notifyBodyClosed.           *)
Added(b) == body[b] \in {"checking", "closed"}

(* finishOnce has run exactly when the hooks have run, once.              *)
FiresOnce == fires = IF finishDone THEN 1 ELSE 0

(* The two atomic counters count the registered and the added wrappers.   *)
Counts ==
  /\ bodiesCount = (IF Registered("request") THEN 1 ELSE 0)
                     + (IF Registered("response") THEN 1 ELSE 0)
  /\ closedCount = (IF Added("request") THEN 1 ELSE 0)
                     + (IF Added("response") THEN 1 ELSE 0)

(* Each AddInt32 returned its own value, at most the current count.       *)
SeenOrder ==
  /\ \A b \in Bodies : Added(b) => seen[b] \in 1..closedCount
  /\ Added("request") /\ Added("response") => seen["request"] # seen["response"]

(* A Close that did the last add and, at its load, found no body          *)
(* registered since has run the hooks.                                    *)
LastCloserFinishes ==
  \A b \in Bodies :
    body[b] = "closed" /\ seen[b] = closedCount
      /\ closedCount >= bodiesCount /\ bodiesCount > 0 => fires = 1

(* Where the handler goroutine is fixes what has been done to the bodies. *)
HandlerBodies ==
  /\ spc = "start" <=> body["request"] = "none"
  /\ body["request"] = "plain" => ~RequestWrapped
  /\ spc \in {"start", "trip"} => body["response"] = "none"
  /\ spc = "modify" => body["response"] = "open"
  /\ spc = "closingResponse" => Added("response")
  /\ spc \in {"proxied", "closingRequest", "done"} =>
       body["response"] \in {"none", "closed"}

IInv == TypeOK /\ FiresOnce /\ Counts /\ SeenOrder /\ LastCloserFinishes
          /\ HandlerBodies

-----------------------------------------------------------------------------
USE DEF Bodies, Registered, Added, RequestWrapped

(* The Boolean-valued variables, which Zenon rather than SMT types.       *)
Bools == /\ websocket \in BOOLEAN /\ noBody \in BOOLEAN
         /\ finishDone \in BOOLEAN /\ responseSet \in BOOLEAN

(* The initial state: no wrapper, nothing counted, no hook run.           *)
LEMMA InitIInv == Init => IInv
<1> SUFFICES ASSUME Init PROVE IInv
  OBVIOUS
<1>1. body["request"] = "none" /\ body["response"] = "none"
  BY DEF Init
<1>2. body \in [Bodies -> {"none", "plain", "open", "checking", "closed"}]
        /\ seen \in [Bodies -> Nat]
  BY Zenon DEF Init
<1>3. Bools
  BY Zenon DEF Init, Bools
<1>4. TypeOK
  BY <1>2, <1>3 DEF Init, TypeOK, Bools
<1>5. FiresOnce /\ Counts /\ SeenOrder /\ LastCloserFinishes
  BY <1>1 DEF Init, FiresOnce, Counts, SeenOrder, LastCloserFinishes
<1>6. HandlerBodies
  BY <1>1 DEF Init, HandlerBodies
<1>7. QED
  BY <1>4, <1>5, <1>6 DEF IInv

(* Every step of the three goroutines keeps the invariant.                *)
LEMMA NextIInv == IInv /\ [Next]_vars => IInv'
<1> SUFFICES ASSUME IInv, [Next]_vars PROVE IInv'
  OBVIOUS
<1>0. /\ websocket' = websocket /\ noBody' = noBody
      /\ finishDone' \in {finishDone, TRUE}
      /\ responseSet' \in {responseSet, TRUE}
  BY DEF Next, vars, StreamStart, ResponseArrives, RoundTripFails, CopyResponse,
         TransportClosesRequest, CloseCheck, RunFinish, ProxyReturns,
         CloseRequestOnExit, DoOnFinish
<1>00. Bools /\ Bools'
  BY <1>0, Zenon DEF IInv, TypeOK, Bools
<1> USE <1>00
<1> USE DEF IInv, TypeOK, Bools, FiresOnce, Counts, SeenOrder,
            LastCloserFinishes, HandlerBodies
<1>1. CASE StreamStart
  BY <1>1 DEF StreamStart, RegisterBody, RequestWrapped
<1>2. CASE ResponseArrives
  BY <1>2 DEF ResponseArrives, RegisterBody
<1>3. CASE RoundTripFails
  BY <1>3 DEF RoundTripFails
<1>4. CASE CopyResponse
  BY <1>4 DEF CopyResponse
<1>5. CASE TransportClosesRequest
  BY <1>5 DEF TransportClosesRequest
<1>6. ASSUME NEW b \in Bodies, CloseCheck(b) PROVE IInv'
  <2>1. CASE AllClosed(b)
    BY <1>6, <2>1 DEF CloseCheck, RunFinish, AllClosed
  <2>2. CASE ~AllClosed(b)
    BY <1>6, <2>2 DEF CloseCheck, AllClosed
  <2>3. QED
    BY <2>1, <2>2
<1>7. CASE ProxyReturns
  BY <1>7 DEF ProxyReturns
<1>8. CASE CloseRequestOnExit
  BY <1>8 DEF CloseRequestOnExit
<1>9. CASE DoOnFinish
  BY <1>9 DEF DoOnFinish, RunFinish
<1>10. CASE UNCHANGED vars
  BY <1>10 DEF vars
<1>11. QED
  BY <1>1, <1>2, <1>3, <1>4, <1>5, <1>6, <1>7, <1>8, <1>9, <1>10 DEF Next

(* Every reachable state of a streaming request is well typed.            *)
THEOREM TypeCorrect == Spec => []TypeOK
<1>1. IInv => TypeOK
  BY DEF IInv
<1>2. QED
  BY <1>1, InitIInv, NextIInv, PTL DEF Spec

(* Once every registered body has finished its Close, the hooks have run, *)
(* whatever the order of the adds, the loads and the response's           *)
(* registration.                                                          *)
THEOREM AllClosedFinishesHolds == Spec => []AllClosedFinishes
<1>1. IInv => AllClosedFinishes
  <2> SUFFICES ASSUME IInv, bodiesCount > 0, \A b \in Bodies : ~Unclosed(b)
               PROVE  fires = 1
    BY DEF AllClosedFinishes
  <2> USE DEF IInv, TypeOK, Counts, SeenOrder, Unclosed
  <2>1. closedCount = bodiesCount
    OBVIOUS
  <2>2. \E b \in Bodies : body[b] = "closed" /\ seen[b] = closedCount
    OBVIOUS
  <2>3. QED
    BY <2>1, <2>2 DEF LastCloserFinishes
<1>2. QED
  BY <1>1, InitIInv, NextIInv, PTL DEF Spec

=============================================================================
