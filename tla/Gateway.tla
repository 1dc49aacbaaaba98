------------------------------- MODULE Gateway -------------------------------
(***************************************************************************)
(* The gateway process (run in src/cmd/gateway, listed in                  *)
(* src/proxy/observer.go from line 490): the optional first load from the  *)
(* control service, the first load of the config file, the discovery     *)
(* registry (src/discovery/registry.go), the circuit breaker's build       *)
(* context, the first Proxy.Update, then the servers and the reloader the *)
(* file watcher calls.  Every log.Fatalf ends the process.                  *)
(*                                                                         *)
(* The proxy is the Router module: Update, ServeHTTP and the SyncClose     *)
(* goroutines are its actions, which the process starts or allows.  The    *)
(* control-config loader and the file loader are not in this source tree: *)
(* from src/README.md, the loader writes the control service's config to   *)
(* the config file, at start and while it polls, and the file watcher     *)
(* calls the reloader after a change.  A config file is abstracted to      *)
(* whether it loads and its discovery descriptor.                          *)
(***************************************************************************)
EXTENDS Router

(* discovery.Register in the init functions of the consul and etcd        *)
(* packages.                                                               *)
RegisteredDiscoveries == {"consul", "etcd"}
(* bc.Discovery: nil, or its Required flag, its name and whether the      *)
(* registered factory (option unmarshalling, client creation) succeeds.   *)
NoDiscovery == [present |-> FALSE, required |-> FALSE, name |-> "",
                factoryOk |-> TRUE]
Discoveries ==
  {NoDiscovery} \cup
  [present : {TRUE}, required : BOOLEAN, name : {"", "consul", "other"},
   factoryOk : BOOLEAN]
Files == [loads : BOOLEAN, discovery : Discoveries]

VARIABLES
  file,        \* the config file at flags.proxyConfig
  phase,       \* "ctrl", "load", "update", "serving" or "exited"
  discovery,   \* the discovery created at start: "unset", "none" or "ok"
  breakerCtx   \* the config (its Update's table) of the breaker's context

gwVars == <<file, phase, discovery, breakerCtx>>
allVars == <<vars, gwVars>>

(* discoveryRegistry.Create.                                               *)
DiscoveryCreate(d) ==
  CASE ~d.present                               -> "none"
    [] d.required /\ d.name = ""                -> "error"
    [] d.name \notin RegisteredDiscoveries      -> "error"
    [] ~d.factoryOk                             -> "error"
    [] OTHER                                    -> "ok"

GInit ==
  /\ Init
  /\ file \in Files
  /\ phase \in {"ctrl", "load"}  \* with flags.ctrlService set, or not
  /\ discovery = "unset"
  /\ breakerCtx = 0

(* ctrlLoader.Load: the control service's config is written to the file, *)
(* or the load fails and the local file is used; then ctrlLoader.Run is  *)
(* started.                                                                *)
CtrlLoad ==
  /\ phase = "ctrl"
  /\ \E f \in Files : file' = f
  /\ phase' = "load"
  /\ UNCHANGED <<vars, discovery, breakerCtx>>

(* The file changes: ctrlLoader.Run writes a new release, or an operator *)
(* edits it.                                                               *)
FileChange ==
  /\ phase # "exited"
  /\ \E f \in Files : file' = f /\ f # file
  /\ UNCHANGED <<vars, phase, discovery, breakerCtx>>

(* confLoader.Load or discovery.Create fails: log.Fatalf.                 *)
StartFatal ==
  /\ phase = "load"
  /\ ~file.loads \/ DiscoveryCreate(file.discovery) = "error"
  /\ phase' = "exited"
  /\ UNCHANGED <<vars, file, discovery, breakerCtx>>

(* The discovery and the client factory are created, proxy.New stores    *)
(* the empty router, circuitbreaker.Init takes the build context, and     *)
(* p.Update starts.                                                        *)
Start ==
  /\ phase = "load"
  /\ file.loads /\ DiscoveryCreate(file.discovery) # "error"
  /\ discovery' = DiscoveryCreate(file.discovery)
  /\ UpdateStart
  /\ breakerCtx' = gen'
  /\ phase' = "update"
  /\ UNCHANGED file

(* The first p.Update returned an error: log.Fatalf.                      *)
StartUpdateFatal ==
  /\ phase = "update" /\ upc = "idle"
  /\ gen \in failed
  /\ phase' = "exited"
  /\ UNCHANGED <<vars, file, discovery, breakerCtx>>

(* Mutant: p.Update's error is not checked, as in the package's tests.    *)
ServeUncheckedUpdate ==
  /\ phase = "update" /\ upc = "idle"
  /\ phase' = "serving"
  /\ UNCHANGED <<vars, file, discovery, breakerCtx>>

(* The first p.Update returned nil: confLoader.Watch(reloader) and        *)
(* app.Run start the servers.                                              *)
Serve ==
  /\ phase = "update" /\ upc = "idle"
  /\ gen \notin failed
  /\ phase' = "serving"
  /\ UNCHANGED <<vars, file, discovery, breakerCtx>>

(* The reloader, which confLoader.Watch calls after a change of the file,  *)
(* one call at a time: confLoader.Load (on an error it returns with        *)
(* nothing changed), circuitbreaker.SetBuildContext, then p.Update.  The   *)
(* discovery is not created again.                                         *)
Reload ==
  /\ phase = "serving"
  /\ file.loads
  /\ UpdateStart
  /\ breakerCtx' = gen'
  /\ UNCHANGED <<file, phase, discovery>>

(* A request reaches the proxy's ServeHTTP once the servers run.          *)
GServeHTTP(r) == phase = "serving" /\ ServeHTTP(r)

(* Update's loop, its swap and the SyncClose goroutines.                   *)
SyncClose(t) == SyncCloseDrained(t) \/ SyncCloseExpired(t)

ProxyStep ==
  \/ BuildEndpoint \/ UpdateSwap
  \/ \E r \in Requests : GServeHTTP(r) \/ RequestDone(r)
  \/ \E t \in Tables : SyncClose(t)

GNext ==
  \/ CtrlLoad \/ FileChange \/ StartFatal \/ Start \/ StartUpdateFatal
  \/ Serve \/ Reload
  \/ ProxyStep /\ UNCHANGED gwVars

GSpec == GInit /\ [][GNext]_allVars

-----------------------------------------------------------------------------
(* Every request the servers dispatch runs on a table whose Update built  *)
(* every endpoint: never on the empty router of proxy.New (whose 404s a   *)
(* gateway whose first Update failed would serve) and never on a table    *)
(* whose Update failed, whatever reloads run under the requests.           *)
RequestsServedByBuiltTable ==
  \A r \in Requests :
    reqs[r].st = "active" => reqs[r].t # 0 /\ reqs[r].t \notin failed

(* A step that changes the live table moves it to a newer table, built by *)
(* an Update that did not fail, with none of its clients closed.            *)
BuiltSwap ==
  live' # live =>
    /\ live' > live
    /\ live' \notin failed'
    /\ \A c \in created' : c.t = live' => c \notin closed'

(* p.router.Swap only ever installs the table of an Update that built    *)
(* every endpoint, newer than the one it replaces and with all its        *)
(* transports open, whatever failed reloads and SyncClose goroutines ran  *)
(* before.                                                                 *)
SwapOnlyToBuiltTable == [][BuiltSwap]_allVars

=============================================================================
