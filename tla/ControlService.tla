--------------------------- MODULE ControlService ---------------------------
(***************************************************************************)
(* The locking of the control service (src/cmd/control/control.go):       *)
(* concurrent HTTP handlers of /v1/control/gateway/release and            *)
(* /v1/control/gateway/features share ControlService.mu, a                *)
(* sync.RWMutex.  GetGatewayRelease and GetGatewayFeatures hold mu.RLock  *)
(* for their whole body; on a cache miss they call loadConfigFromFile or  *)
(* loadFeaturesFromFile, which read the files and then take mu.Lock to    *)
(* store the result.                                                       *)
(*                                                                         *)
(* sync.RWMutex is modelled by its documented behaviour: Lock waits until *)
(* no reader holds the lock, and once a Lock call is blocked, new RLock   *)
(* calls block until it has been granted and released.  The answers'     *)
(* contents are left out: no handler ever gets past the Lock that would  *)
(* store a loaded config, so a handler is followed only through its lock, *)
(* load and return steps.                                                  *)
(***************************************************************************)
EXTENDS Naturals

CONSTANTS
  Handlers,  \* handler goroutines of the HTTP server
  Gateways   \* gateway names asked for

APIs == {"release", "features"}
NoHandler == "noHandler"

VARIABLES
  hasFile,   \* the gateway has config.yaml / features.json under dataDir
  cached,    \* the gateways s.configs / s.features hold
  readers,   \* handlers holding mu.RLock
  pending,   \* the handler blocked in, or holding, mu.Lock, or NoHandler
  writer,    \* the handler holding mu.Lock, or NoHandler
  pc,        \* each handler: "idle", "rlock", "read", "wlock", "write"
  req        \* each handler's request: its API and gateway

vars == <<hasFile, cached, readers, pending, writer, pc, req>>

Init ==
  /\ hasFile \in [APIs -> SUBSET Gateways]
  /\ cached = [a \in APIs |-> {}]
  /\ readers = {}
  /\ pending = NoHandler
  /\ writer = NoHandler
  /\ pc = [h \in Handlers |-> "idle"]
  /\ req \in [Handlers -> [api : APIs, gw : Gateways]]

(* The server accepts a request on an idle handler goroutine.             *)
Accept(h) ==
  /\ pc[h] = "idle"
  /\ \E r \in [api : APIs, gw : Gateways] : req' = [req EXCEPT ![h] = r]
  /\ pc' = [pc EXCEPT ![h] = "rlock"]
  /\ UNCHANGED <<hasFile, cached, readers, pending, writer>>

(* s.mu.RLock(): granted when no writer holds or waits for the lock.      *)
RLock(h) ==
  /\ pc[h] = "rlock"
  /\ writer = NoHandler /\ pending = NoHandler
  /\ readers' = readers \cup {h}
  /\ pc' = [pc EXCEPT ![h] = "read"]
  /\ UNCHANGED <<hasFile, cached, pending, writer, req>>

(* The body under the read lock ends: the answer is written and the      *)
(* deferred RUnlock runs.                                                  *)
Return(h) ==
  /\ readers' = readers \ {h}
  /\ pc' = [pc EXCEPT ![h] = "idle"]
  /\ UNCHANGED <<hasFile, cached, pending, writer, req>>

(* Under the read lock: a cached gateway is answered (200 or 304 for a   *)
(* release); on a miss the loader finds no file and returns nil (404, or *)
(* the default features), or its read or parse fails (500), or it has    *)
(* the parsed file and goes for mu.Lock.                                  *)
Read(h) ==
  /\ pc[h] = "read"
  /\ LET a == req[h].api
         g == req[h].gw IN
     \/ /\ g \in cached[a] \/ g \notin hasFile[a]
        /\ Return(h)
     \/ /\ g \notin cached[a] /\ g \in hasFile[a]
        /\ \/ Return(h)
           \/ /\ pc' = [pc EXCEPT ![h] = "wlock"]
              /\ UNCHANGED <<hasFile, cached, readers, pending, writer, req>>

(* s.mu.Lock() in the loader, first half: the writer announces itself    *)
(* (once no other writer is ahead of it), which blocks new readers.       *)
LockAnnounce(h) ==
  /\ pc[h] = "wlock"
  /\ pending = NoHandler
  /\ pending' = h
  /\ UNCHANGED <<hasFile, cached, readers, writer, pc, req>>

(* s.mu.Lock(), second half: granted once no reader holds the lock.      *)
LockAcquire(h) ==
  /\ pc[h] = "wlock"
  /\ pending = h /\ readers = {}
  /\ writer' = h
  /\ pc' = [pc EXCEPT ![h] = "write"]
  /\ UNCHANGED <<hasFile, cached, readers, pending, req>>

(* The loader stores the result and unlocks; the handler goes on under  *)
(* its read lock and answers from the cache.                              *)
Store(h) ==
  /\ pc[h] = "write"
  /\ cached' = [cached EXCEPT ![req[h].api] = @ \cup {req[h].gw}]
  /\ writer' = NoHandler
  /\ pending' = NoHandler
  /\ pc' = [pc EXCEPT ![h] = "read"]
  /\ UNCHANGED <<hasFile, readers, req>>

(* The steps of a handler goroutine once it has a request.                *)
Step(h) == RLock(h) \/ Read(h) \/ LockAnnounce(h) \/ LockAcquire(h) \/ Store(h)

Next == \E h \in Handlers : Accept(h) \/ Step(h)

(* The Go scheduler runs every runnable goroutine: each handler's steps  *)
(* are weakly fair; new requests need not arrive.                          *)
Spec == Init /\ [][Next]_vars /\ \A h \in Handlers : WF_vars(Step(h))

-----------------------------------------------------------------------------
(* src/README.md: the gateway pulls its config from the release API at   *)
(* start and every 5 seconds; every request a handler accepts is          *)
(* eventually answered.                                                    *)
EveryRequestAnswered ==
  \A h \in Handlers : pc[h] # "idle" ~> pc[h] = "idle"

=============================================================================
