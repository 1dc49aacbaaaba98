---------------------------- MODULE GatewayProofs ----------------------------
(***************************************************************************)
(* Proofs that the gateway process implements the Router specification,  *)
(* and that its requests only run on tables whose Update built every      *)
(* endpoint, for every number of requests, endpoints and updates.         *)
(***************************************************************************)
EXTENDS Gateway, RouterProofs

(* What the start sequence guarantees of the router and the requests.    *)
StartOrder ==
  /\ phase \in {"ctrl", "load", "update", "serving", "exited"}
  /\ phase \in {"ctrl", "load"} => gen = 0
  /\ phase = "update" => gen # 0
  /\ phase = "serving" => live # 0
  /\ phase # "serving" => \A r \in Requests : reqs[r].st = "idle"

(* When no Update runs, the last one swapped its table in or failed.     *)
UpdateSettled == upc = "idle" => live = gen \/ gen \in failed

(* The live table, and every table a request runs on, is a built one.    *)
BuiltTables ==
  /\ live \notin failed
  /\ \A r \in Requests :
       reqs[r].st = "active" =>
         reqs[r].t <= live /\ reqs[r].t # 0 /\ reqs[r].t \notin failed

GIInv == IInv /\ StartOrder /\ UpdateSettled /\ BuiltTables

-----------------------------------------------------------------------------
USE DEF Tables, Clients, Idle, ClientsOf

(* Every step of the gateway is a step of the router or leaves the        *)
(* router's state alone: the process only starts Updates and allows        *)
(* requests.                                                               *)
LEMMA GNextRouterStep == [GNext]_allVars => [Next]_vars
<1> SUFFICES ASSUME [GNext]_allVars PROVE [Next]_vars
  OBVIOUS
<1>1. CASE CtrlLoad \/ FileChange \/ StartFatal \/ StartUpdateFatal \/ Serve
  BY <1>1 DEF CtrlLoad, FileChange, StartFatal, StartUpdateFatal, Serve
<1>2. CASE Start \/ Reload
  BY <1>2 DEF Start, Reload, Next
<1>3. CASE ProxyStep /\ UNCHANGED gwVars
  BY <1>3 DEF ProxyStep, GServeHTTP, SyncClose, Next
<1>4. CASE UNCHANGED allVars
  BY <1>4 DEF allVars
<1>5. QED
  BY <1>1, <1>2, <1>3, <1>4 DEF GNext

(* The gateway process implements the Router specification, so that the *)
(* theorems of RouterProofs hold of it.                                    *)
THEOREM GatewayRefinesRouter == GSpec => Spec
<1>1. GInit => Init
  BY DEF GInit
<1>2. QED
  BY <1>1, GNextRouterStep, PTL DEF GSpec, Spec

(* The initial state: nothing started, no request.                        *)
LEMMA GInitGIInv == GInit => GIInv
<1> SUFFICES ASSUME GInit PROVE GIInv
  OBVIOUS
<1>1. IInv
  BY InitIInv DEF GInit
<1>2. QED
  BY <1>1 DEF GInit, Init, GIInv, StartOrder, UpdateSettled, BuiltTables

(* Every step of the process and of the proxy keeps the invariant.        *)
LEMMA GNextGIInv == GIInv /\ [GNext]_allVars => GIInv'
<1> SUFFICES ASSUME GIInv, [GNext]_allVars PROVE GIInv'
  OBVIOUS
<1> USE DEF GIInv, IInv, TypeOK, GenAhead, FailedOld, DeferredCurrent
<1>1. IInv'
  BY GNextRouterStep, NextIInv
<1> DEFINE Rest == StartOrder /\ UpdateSettled /\ BuiltTables
<1> SUFFICES Rest'
  BY <1>1
<1> USE DEF StartOrder, UpdateSettled, BuiltTables
<1>2. CASE CtrlLoad \/ FileChange \/ StartFatal \/ StartUpdateFatal
  BY <1>2 DEF CtrlLoad, FileChange, StartFatal, StartUpdateFatal, vars
<1>3. CASE Serve
  BY <1>3 DEF Serve, vars
<1>4. CASE Start \/ Reload
  BY <1>4 DEF Start, Reload, UpdateStart
<1>5. CASE BuildEndpoint /\ UNCHANGED gwVars
  <2>1. UNCHANGED <<phase, live, gen, reqs>>
    BY <1>5 DEF BuildEndpoint, UpdateFails, BuildFailsAfterClient, gwVars
  <2>2. upc' = "idle" => gen \in failed'
    BY <1>5 DEF BuildEndpoint, UpdateFails, BuildFailsAfterClient
  <2>3. failed' \subseteq failed \cup {gen}
    BY <1>5 DEF BuildEndpoint, UpdateFails, BuildFailsAfterClient
  <2>4. upc = "building"
    BY <1>5 DEF BuildEndpoint
  <2>5. QED
    BY <2>1, <2>2, <2>3, <2>4
<1>10. CASE UpdateSwap /\ UNCHANGED gwVars
  BY <1>10 DEF UpdateSwap, TryCloseRouter, HasNextEndpoint, gwVars
<1>6. ASSUME NEW r \in Requests,
             (GServeHTTP(r) \/ RequestDone(r)) /\ UNCHANGED gwVars
      PROVE  Rest'
  BY <1>6 DEF GServeHTTP, ServeHTTP, RequestDone, gwVars
<1>7. ASSUME NEW t \in Tables, SyncClose(t) /\ UNCHANGED gwVars
      PROVE  Rest'
  BY <1>7 DEF SyncClose, SyncCloseDrained, SyncCloseExpired, CloseTable,
              gwVars
<1>8. CASE UNCHANGED allVars
  BY <1>8 DEF allVars, vars, gwVars
<1>9. QED
  BY <1>2, <1>3, <1>4, <1>5, <1>10, <1>6, <1>7, <1>8 DEF GNext, ProxyStep

(* No request of the gateway ever runs on proxy.New's empty router or on *)
(* a table whose Update failed.                                           *)
THEOREM RequestsServedByBuiltTableHolds == GSpec => []RequestsServedByBuiltTable
<1>1. GIInv => RequestsServedByBuiltTable
  BY DEF GIInv, BuiltTables, RequestsServedByBuiltTable
<1>2. QED
  BY <1>1, GInitGIInv, GNextGIInv, PTL DEF GSpec

(* A router step that changes the live table is UpdateSwap, which installs *)
(* the table being built: newer, not failed and with its clients open.    *)
LEMMA BuiltSwapStep == GIInv /\ [GNext]_allVars => BuiltSwap
<1> SUFFICES ASSUME GIInv, [Next]_vars, live' # live PROVE BuiltSwap
  BY GNextRouterStep DEF BuiltSwap
<1> USE DEF GIInv, IInv, TypeOK, GenAhead, FailedOld, DeferredCurrent
<1>1. CASE UpdateSwap
  BY <1>1 DEF UpdateSwap, BuiltSwap
<1>2. CASE UpdateStart \/ BuildEndpoint
  BY <1>2 DEF UpdateStart, BuildEndpoint, UpdateFails, BuildFailsAfterClient
<1>3. CASE \E r \in Requests : ServeHTTP(r) \/ RequestDone(r)
  BY <1>3 DEF ServeHTTP, RequestDone
<1>4. CASE \E t \in Tables : SyncCloseDrained(t) \/ SyncCloseExpired(t)
  BY <1>4 DEF SyncCloseDrained, SyncCloseExpired, CloseTable
<1>5. CASE UNCHANGED vars
  BY <1>5 DEF vars
<1>6. QED
  BY <1>1, <1>2, <1>3, <1>4, <1>5 DEF Next

(* Swap only installs the table of an Update that built every endpoint.  *)
THEOREM SwapOnlyToBuiltTableHolds == GSpec => SwapOnlyToBuiltTable
<1>1. []GIInv /\ [][GNext]_allVars => [][BuiltSwap]_allVars
  BY BuiltSwapStep, PTL
<1>2. QED
  BY <1>1, GInitGIInv, GNextGIInv, PTL DEF GSpec, SwapOnlyToBuiltTable


(* The gateway's router state is well typed in every reachable state,    *)
(* whatever the start sequence and the reloads do.                        *)
THEOREM GatewayTypeCorrect == GSpec => []TypeOK
  BY GatewayRefinesRouter, TypeCorrect

(* The running gateway closes a client only once its table is out of     *)
(* service, whatever the start sequence, the reloads and the SyncClose   *)
(* goroutines do.                                                          *)
THEOREM GatewayClosedOnlyWhenRetired == GSpec => ClosedOnlyWhenRetired
  BY GatewayRefinesRouter, ClosedOnlyWhenRetiredHolds

=============================================================================
