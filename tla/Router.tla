-------------------------------- MODULE Router --------------------------------
(***************************************************************************)
(* The route-table facade of Proxy (src/proxy/proxy.go): Update builds a  *)
(* table of endpoint handlers, each owning a client (its transport pool), *)
(* swaps it into the atomic reference and hands the old table to          *)
(* tryCloseRouter; ServeHTTP loads the live table and serves through it.  *)
(*                                                                         *)
(* A table is named by the Update that built it (0: the empty table of    *)
(* New).  A client is the pair of its table and its endpoint index.        *)
(* router.SyncClose is not in this source tree; it is modelled from spec   *)
(* 4.H and 7: wait for the table's in-flight requests to drain, within     *)
(* the 120 s context of tryCloseRouter, then close the table's clients.   *)
(***************************************************************************)
EXTENDS Naturals, FiniteSets

CONSTANTS
  Requests,    \* concurrent client requests
  NEndpoints,  \* endpoints per configuration
  MaxUpdates   \* number of Update calls explored

ASSUME RouterAssumption ==
  /\ NEndpoints \in Nat \ {0}
  /\ MaxUpdates \in Nat

VARIABLES
  live,      \* the table p.router holds
  upc,       \* the Update goroutine: "idle" or "building"
  gen,       \* the last Update started (the table it builds)
  k,         \* the next endpoint Update builds
  deferred,  \* clients whose `defer closeOnError(closer, ...)` is pending
  created,   \* clients the client factory has returned
  closed,    \* clients closed
  failed,    \* tables whose Update returned an error
  draining,  \* tables a SyncClose goroutine is draining
  reqs       \* each request: idle, or active on the table it loaded

vars == <<live, upc, gen, k, deferred, created, closed, failed, draining,
          reqs>>

Tables == 0..MaxUpdates
Clients == [t : 1..MaxUpdates, e : 1..NEndpoints]
Idle == [st |-> "idle", t |-> 0]

(* The clients a table owns.                                               *)
ClientsOf(t) == {c \in created : c.t = t}

Init ==
  /\ live = 0
  /\ upc = "idle"
  /\ gen = 0
  /\ k = 1
  /\ deferred = {}
  /\ created = {}
  /\ closed = {}
  /\ failed = {}
  /\ draining = {}
  /\ reqs = [r \in Requests |-> Idle]

(* Update starts: mux.NewRouter for the new configuration.                 *)
UpdateStart ==
  /\ upc = "idle"
  /\ gen < MaxUpdates
  /\ upc' = "building"
  /\ gen' = gen + 1
  /\ k' = 1
  /\ UNCHANGED <<live, deferred, created, closed, failed, draining, reqs>>

(* Mutant: the `return err` after a failed endpoint is dropped: the loop *)
(* goes on building the configuration.                                     *)
UpdateFailsNoReturn(extra) ==
  /\ closed' = closed \cup deferred \cup extra
  /\ deferred' = {}
  /\ failed' = failed \cup {gen}
  /\ UNCHANGED <<upc, live, draining, reqs>>

(* Update returns an error: the deferred closeOnError of every endpoint   *)
(* built so far runs; the live table stays.                                *)
UpdateFails(extra) ==
  /\ upc' = "idle"
  /\ closed' = closed \cup deferred \cup extra
  /\ deferred' = {}
  /\ failed' = failed \cup {gen}
  /\ UNCHANGED <<live, draining, reqs>>

(* Mutant: the loop runs one endpoint past the configuration.            *)
HasNextEndpointOffByOne == k <= NEndpoints + 1

(* `for _, e := range c.Endpoints` has an endpoint left.                   *)
HasNextEndpoint == k <= NEndpoints

(* Mutant: buildEndpoint without its own `defer closeOnError`: a failure  *)
(* after the client factory leaves the client open.                       *)
BuildFailsAfterClientLeaky(c) ==
  /\ created' = created \cup {c}
  /\ UpdateFails({})
  /\ UNCHANGED k

(* buildEndpoint fails after the client factory (middleware, retry         *)
(* strategy): its deferred closeOnError closes the client, and Update      *)
(* returns the error.                                                      *)
BuildFailsAfterClient(c) ==
  /\ created' = created \cup {c}
  /\ UpdateFails({c})
  /\ UNCHANGED k

(* One iteration of Update's loop over c.Endpoints.  buildEndpoint either *)
(* fails in the client factory (no client), or fails after it (its own    *)
(* `defer closeOnError(closer, &retError)` closes the client), or returns  *)
(* the handler and closer; Update defers closeOnError for it, and         *)
(* router.Handle may still fail.                                           *)
BuildEndpoint ==
  LET c == [t |-> gen, e |-> k] IN
  /\ upc = "building"
  /\ HasNextEndpoint
  /\ \/ /\ UpdateFails({})
        /\ UNCHANGED <<created, k>>
     \/ BuildFailsAfterClient(c)
     \/ /\ created' = created \cup {c}
        /\ \/ /\ deferred' = deferred \cup {c}
              /\ k' = k + 1
              /\ UNCHANGED <<upc, closed, failed, live, draining, reqs>>
           \/ /\ UpdateFails({c})
              /\ UNCHANGED k
  /\ UNCHANGED gen

(* tryCloseRouter(old): a table that is a router gets a SyncClose         *)
(* goroutine with a 120 s timeout.                                         *)
TryCloseRouter(old) == draining' = draining \cup {old}

(* Mutant: the new table is handed to tryCloseRouter.                     *)
UpdateSwapClosesNew ==
  /\ upc = "building"
  /\ ~HasNextEndpoint
  /\ upc' = "idle"
  /\ live' = gen
  /\ TryCloseRouter(gen)
  /\ deferred' = {}
  /\ UNCHANGED <<gen, k, created, closed, failed, reqs>>

(* Mutant: tryCloseRouter closes the old table's clients at once, with  *)
(* no SyncClose goroutine to wait for its requests.                       *)
UpdateSwapClosesOldAtOnce ==
  /\ upc = "building"
  /\ ~HasNextEndpoint
  /\ upc' = "idle"
  /\ live' = gen
  /\ closed' = closed \cup ClientsOf(live)
  /\ deferred' = {}
  /\ UNCHANGED <<gen, k, created, failed, draining, reqs>>

(* Every endpoint is built: p.router.Swap(router), tryCloseRouter(old),   *)
(* return nil (the deferred closeOnError calls see no error).              *)
UpdateSwap ==
  /\ upc = "building"
  /\ ~HasNextEndpoint
  /\ upc' = "idle"
  /\ live' = gen
  /\ TryCloseRouter(live)
  /\ deferred' = {}
  /\ UNCHANGED <<gen, k, created, closed, failed, reqs>>

(* ServeHTTP: p.router.Load() and the request is dispatched through the  *)
(* loaded table's handler and client.                                      *)
ServeHTTP(r) ==
  /\ reqs[r].st = "idle"
  /\ reqs' = [reqs EXCEPT ![r] = [st |-> "active", t |-> live]]
  /\ UNCHANGED <<live, upc, gen, k, deferred, created, closed, failed,
                 draining>>

(* The request's handler returns.                                          *)
RequestDone(r) ==
  /\ reqs[r].st = "active"
  /\ reqs' = [reqs EXCEPT ![r] = Idle]
  /\ UNCHANGED <<live, upc, gen, k, deferred, created, closed, failed,
                 draining>>

(* No request dispatched on table t is still running.                     *)
Drained(t) == \A r \in Requests : reqs[r].st = "active" => reqs[r].t # t

(* SyncClose closes the table's clients and its goroutine ends.           *)
CloseTable(t) ==
  /\ closed' = closed \cup ClientsOf(t)
  /\ draining' = draining \ {t}
  /\ UNCHANGED <<live, upc, gen, k, deferred, created, failed, reqs>>

(* SyncClose once the table's requests have drained.                       *)
SyncCloseDrained(t) ==
  /\ t \in draining
  /\ Drained(t)
  /\ CloseTable(t)

(* tryCloseRouter's 120 s context expires with requests still running on *)
(* the table.                                                               *)
SyncCloseExpired(t) ==
  /\ t \in draining
  /\ ~Drained(t)
  /\ CloseTable(t)

Next ==
  \/ UpdateStart
  \/ BuildEndpoint
  \/ UpdateSwap
  \/ \E r \in Requests : ServeHTTP(r) \/ RequestDone(r)
  \/ \E t \in Tables : SyncCloseDrained(t) \/ SyncCloseExpired(t)

Spec == Init /\ [][Next]_vars

-----------------------------------------------------------------------------
TypeOK ==
  /\ live \in Tables
  /\ upc \in {"idle", "building"}
  /\ gen \in Tables
  /\ k \in 1..NEndpoints + 1
  /\ deferred \subseteq Clients
  /\ created \subseteq Clients
  /\ closed \subseteq created
  /\ failed \subseteq Tables
  /\ draining \subseteq Tables
  /\ reqs \in [Requests -> [st : {"idle", "active"}, t : Tables]]

(* Spec 8 (ConfigurationError): an Update that returns an error releases  *)
(* every client it created, whichever endpoint and which step of           *)
(* buildEndpoint or router.Handle failed.                                  *)
FailedUpdateReleasesClients ==
  \A t \in failed : ClientsOf(t) \subseteq closed

(* The live table's transports are never closed: tryCloseRouter is given *)
(* the table that was swapped out, not the new one.                       *)
LiveTableOpen == ClientsOf(live) \cap closed = {}

(* Spec P5: a request dispatched on a table completes before that table's *)
(* clients are closed.                                                     *)
DrainBeforeClose ==
  \A r \in Requests :
    reqs[r].st = "active" => ClientsOf(reqs[r].t) \cap closed = {}

(* Every client a step closes belongs to a table that is out of service. *)
RetiredClose ==
  \A c \in closed' \ closed :
    c.t \in failed' \/ (c.t \in draining /\ c.t < live)

(* Spec 4.H and 8: a client's transports are closed only once its table   *)
(* is out of service: by the closeOnError of the Update that built it,   *)
(* which fails in that step, or by the SyncClose goroutine of a table     *)
(* that p.router.Swap replaced; never while its table is live or being   *)
(* built by an Update that goes on.                                        *)
ClosedOnlyWhenRetired == [][RetiredClose]_vars

=============================================================================
