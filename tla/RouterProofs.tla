---------------------------- MODULE RouterProofs ----------------------------
(***************************************************************************)
(* Proofs of the Router's safety invariants for every number of           *)
(* requests, endpoints and updates.                                        *)
(***************************************************************************)
EXTENDS Router, TLAPS

(* The update in progress builds table gen, above the live table.         *)
GenAhead ==
  /\ live <= gen
  /\ upc = "building" => live < gen

(* Clients belong to tables already started.                              *)
CreatedStarted == \A c \in created : c.t <= gen

(* The pending closeOnError defers are exactly the clients of the update *)
(* in progress, none of them closed.                                       *)
DeferredCurrent ==
  /\ deferred = IF upc = "building" THEN ClientsOf(gen) ELSE {}
  /\ upc = "building" => ClientsOf(gen) \cap closed = {}

(* Only tables that were swapped out drain.                               *)
DrainingOld == \A t \in draining : t < live

(* A failed update is over: no client is created for its table again.   *)
FailedOld == \A t \in failed : t <= gen /\ (upc = "building" => t < gen)

IInv ==
  /\ TypeOK
  /\ GenAhead
  /\ CreatedStarted
  /\ DeferredCurrent
  /\ DrainingOld
  /\ FailedOld
  /\ LiveTableOpen
  /\ FailedUpdateReleasesClients

-----------------------------------------------------------------------------
USE DEF Tables, Clients, Idle, ClientsOf

(* The initial state: no update, no client, table 0 live.                 *)
LEMMA InitIInv == Init => IInv
BY RouterAssumption
DEF Init, IInv, TypeOK, GenAhead, CreatedStarted, DeferredCurrent,
    DrainingOld, FailedOld, LiveTableOpen, FailedUpdateReleasesClients

(* Every step of Update, of a request and of a SyncClose goroutine keeps *)
(* the invariant.                                                          *)
LEMMA NextIInv == IInv /\ [Next]_vars => IInv'
<1> SUFFICES ASSUME IInv, [Next]_vars PROVE IInv'
  OBVIOUS
<1> USE RouterAssumption
    DEF IInv, TypeOK, GenAhead, CreatedStarted, DeferredCurrent,
        DrainingOld, FailedOld, LiveTableOpen, FailedUpdateReleasesClients
<1>1. CASE UpdateStart
  BY <1>1 DEF UpdateStart
<1>2. CASE BuildEndpoint
  <2> DEFINE c == [t |-> gen, e |-> k]
  <2>0. /\ upc = "building" /\ k <= NEndpoints /\ gen' = gen
        /\ \/ UpdateFails({}) /\ UNCHANGED <<created, k>>
           \/ BuildFailsAfterClient(c)
           \/ /\ created' = created \cup {c}
              /\ \/ /\ deferred' = deferred \cup {c}
                    /\ k' = k + 1
                    /\ UNCHANGED <<upc, closed, failed, live, draining, reqs>>
                 \/ UpdateFails({c}) /\ UNCHANGED k
    BY <1>2 DEF BuildEndpoint, HasNextEndpoint
  <2>1. c \in Clients /\ c \notin closed
    BY <2>0
  <2>2. CASE UpdateFails({}) /\ UNCHANGED <<created, k>>
    BY <2>0, <2>2 DEF UpdateFails
  <2>3. CASE BuildFailsAfterClient(c)
    BY <2>0, <2>1, <2>3 DEF BuildFailsAfterClient, UpdateFails
  <2>4. CASE /\ created' = created \cup {c}
             /\ deferred' = deferred \cup {c}
             /\ k' = k + 1
             /\ UNCHANGED <<upc, closed, failed, live, draining, reqs>>
    BY <2>0, <2>1, <2>4
  <2>5. CASE created' = created \cup {c} /\ UpdateFails({c}) /\ UNCHANGED k
    BY <2>0, <2>1, <2>5 DEF UpdateFails
  <2>6. QED
    BY <2>0, <2>2, <2>3, <2>4, <2>5
<1>3. CASE UpdateSwap
  BY <1>3 DEF UpdateSwap, TryCloseRouter, HasNextEndpoint
<1>4. ASSUME NEW r \in Requests, ServeHTTP(r) \/ RequestDone(r)
      PROVE IInv'
  <2>1. reqs' \in [Requests -> [st : {"idle", "active"}, t : Tables]]
    BY <1>4 DEF ServeHTTP, RequestDone
  <2>2. UNCHANGED <<live, upc, gen, k, deferred, created, closed, failed,
                    draining>>
    BY <1>4 DEF ServeHTTP, RequestDone
  <2>3. QED
    BY <2>1, <2>2
<1>5. ASSUME NEW t \in Tables, SyncCloseDrained(t) \/ SyncCloseExpired(t)
      PROVE IInv'
  <2>1. /\ t \in draining
        /\ closed' = closed \cup ClientsOf(t)
        /\ draining' = draining \ {t}
        /\ UNCHANGED <<live, upc, gen, k, deferred, created, failed, reqs>>
    BY <1>5 DEF SyncCloseDrained, SyncCloseExpired, CloseTable
  <2>2. t < live
    BY <2>1
  <2>3. \A c \in ClientsOf(t) : c.t # live /\ c.t # gen
    BY <2>1, <2>2
  <2>4. QED
    BY <2>1, <2>3
<1>6. CASE UNCHANGED vars
  BY <1>6 DEF vars
<1>7. QED
  BY <1>1, <1>2, <1>3, <1>4, <1>5, <1>6 DEF Next


(* Update never closes a client of the live table: whatever the           *)
(* interleaving of Update's failures, swaps and the SyncClose goroutines, *)
(* tryCloseRouter is only given a table older than the live one.          *)
THEOREM LiveTableOpenHolds == Spec => []LiveTableOpen
<1>1. IInv => LiveTableOpen
  BY DEF IInv
<1>2. QED
  BY InitIInv, NextIInv, <1>1, PTL DEF Spec

(* An Update that returns an error, at any endpoint and any step of       *)
(* buildEndpoint or router.Handle, has closed every client it created.    *)
THEOREM FailedUpdateReleasesClientsHolds == Spec => []FailedUpdateReleasesClients
<1>1. IInv => FailedUpdateReleasesClients
  BY DEF IInv
<1>2. QED
  BY InitIInv, NextIInv, <1>1, PTL DEF Spec


(* Every reachable state of the router is well typed: the table counters, *)
(* the clients created and closed, the draining set and each request's    *)
(* state and table.                                                        *)
THEOREM TypeCorrect == Spec => []TypeOK
<1>1. IInv => TypeOK
  BY DEF IInv
<1>2. QED
  BY InitIInv, NextIInv, <1>1, PTL DEF Spec

(* Each step closes clients of a retired table only: UpdateFails closes  *)
(* the pending defers, all of the table being built, and marks it failed; *)
(* SyncClose closes a draining table, older than the live one.             *)
LEMMA RetiredCloseStep == IInv /\ [Next]_vars => [RetiredClose]_vars
<1> SUFFICES ASSUME IInv, [Next]_vars PROVE [RetiredClose]_vars
  OBVIOUS
<1> USE DEF IInv, TypeOK, DeferredCurrent, DrainingOld
<1>1. ASSUME NEW extra, \A x \in extra : x.t = gen, upc = "building",
             gen' = gen, UpdateFails(extra)
      PROVE  RetiredClose
  BY <1>1 DEF UpdateFails, RetiredClose
<1>2. CASE UpdateStart
  BY <1>2 DEF UpdateStart, RetiredClose
<1>3. CASE BuildEndpoint
  <2> DEFINE c == [t |-> gen, e |-> k]
  <2>0. /\ upc = "building" /\ gen' = gen
        /\ \/ UpdateFails({}) /\ UNCHANGED <<created, k>>
           \/ created' = created \cup {c} /\ UpdateFails({c})
           \/ /\ created' = created \cup {c}
              /\ UNCHANGED <<upc, closed, failed, live, draining, reqs>>
    BY <1>3 DEF BuildEndpoint, BuildFailsAfterClient
  <2>1. CASE UpdateFails({}) /\ UNCHANGED <<created, k>>
    BY <1>1, <2>0, <2>1
  <2>2. CASE created' = created \cup {c} /\ UpdateFails({c})
    BY <1>1, <2>0, <2>2
  <2>5. CASE UNCHANGED closed
    BY <2>5 DEF RetiredClose
  <2>6. QED
    BY <2>0, <2>1, <2>2, <2>5
<1>4. CASE UpdateSwap
  BY <1>4 DEF UpdateSwap, RetiredClose
<1>5. CASE \E r \in Requests : ServeHTTP(r) \/ RequestDone(r)
  BY <1>5 DEF ServeHTTP, RequestDone, RetiredClose
<1>6. ASSUME NEW t \in Tables, SyncCloseDrained(t) \/ SyncCloseExpired(t)
      PROVE  RetiredClose
  <2>1. /\ t \in draining
        /\ closed' = closed \cup ClientsOf(t)
    BY <1>6 DEF SyncCloseDrained, SyncCloseExpired, CloseTable
  <2>2. QED
    BY <2>1 DEF RetiredClose
<1>7. CASE UNCHANGED vars
  BY <1>7 DEF vars
<1>8. QED
  BY <1>2, <1>3, <1>4, <1>5, <1>6, <1>7 DEF Next

(* A client is closed only once its table is out of service: by the     *)
(* closeOnError of an Update that fails, or by the SyncClose of a table  *)
(* Swap replaced, never while its table is live or still being built.     *)
THEOREM ClosedOnlyWhenRetiredHolds == Spec => ClosedOnlyWhenRetired
<1>1. []IInv /\ [][Next]_vars => [][RetiredClose]_vars
  BY RetiredCloseStep, PTL
<1>2. QED
  BY <1>1, InitIInv, NextIInv, PTL DEF Spec, ClosedOnlyWhenRetired

=============================================================================
