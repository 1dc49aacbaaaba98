------------------------------- MODULE Chain -------------------------------
(***************************************************************************)
(* The middleware chain of an endpoint (src/proxy/proxy.go): buildEndpoint *)
(* wraps the client in the stream tripper (stream endpoints), then in the *)
(* endpoint's middlewares, then in the gateway's global middlewares, each *)
(* list folded by buildMiddleware from its last entry to its first.  A    *)
(* request then runs through the wrappers from the outermost in.          *)
(*                                                                         *)
(* Middleware names: "jwt" (src/unnamed/part_000), "namespace"            *)
(* (part_001, through the Namespace module) and "unknown", a name nothing *)
(* registered, for which the factory returns ErrNotFound.  A factory of   *)
(* a registered name fails when its options do not unmarshal, and the     *)
(* namespace factory also when its options are refused.                    *)
(***************************************************************************)
EXTENDS Naturals, Sequences, Functions

CONSTANTS
  NsNames     \* namespace header values besides ""

Registered == {"jwt", "namespace"}
MwNames == Registered \cup {"unknown"}
(* Middleware lists of at most two entries.                                *)
MwLists == UNION {[1..n -> MwNames] : n \in 0..2}
(* The Authorization header: "Bearer" (any case) and a token that parses  *)
(* and validates, "Bearer" and a bad token, another scheme, or none.      *)
AuthHeaders == {"bearerValid", "bearerInvalid", "otherScheme", "missing"}

(* A built tripper: the wrappers from the outermost in, or a failed build. *)
Built(stages) == [ok |-> TRUE, stages |-> stages]
BuildFailed == [ok |-> FALSE, stages |-> <<>>]

VARIABLES
  global,     \* c.Middlewares
  endpoint,   \* e.Middlewares
  stream,     \* e.Stream
  badOptions, \* registered names whose options fail to unmarshal
  nsOpts,     \* the namespace middleware's options
  tripper,    \* what buildEndpoint built, or BuildFailed
  req,        \* the request in flight
  pos,        \* the wrapper it is in (0: none in flight)
  outcome     \* "none", "upstream" or "forbidden"

vars == <<global, endpoint, stream, badOptions, nsOpts, tripper, req, pos,
          outcome>>

NS == INSTANCE Namespace WITH Names <- NsNames, opts <- nsOpts,
        built <- "ok", last <- [ns |-> "", answer |-> "ok", result |-> "none"]

Requests == [auth : AuthHeaders, ns : NsNames \cup {NS!NoNs},
             answer : NS!ApiAnswers]
(* p.middlewareFactory(ms[i]).                                             *)
Factory(name, bad) ==
  CASE name \notin Registered                                    -> "notFound"
    [] name \in bad                                              -> "error"
    [] name = "namespace" /\ NS!BuildFails(nsOpts)              -> "error"
    [] OTHER                                                     -> "ok"

(* One iteration of buildMiddleware's loop, with bad the names whose     *)
(* options fail: skip an unregistered name, abort on any other factory   *)
(* error, otherwise next = m.Process(next).                               *)
Wrap(bad, name, next) ==
  CASE ~next.ok                       -> BuildFailed
    [] Factory(name, bad) = "notFound" -> next
    [] Factory(name, bad) = "error"    -> BuildFailed
    [] OTHER                           -> Built(<<name>> \o next.stages)

(* Mutant: the loop runs from the first entry to the last.                 *)
BuildMiddlewareForward(bad, ms, next) ==
  LET built[k \in 0..Len(ms)] ==
        IF k = 0 THEN next ELSE Wrap(bad, ms[k], built[k - 1])
  IN  built[Len(ms)]

(* buildMiddleware: `for i := len(ms) - 1; i >= 0; i--`; built[k] is next *)
(* once the last k entries have been wrapped around it.                    *)
BuildMiddleware(bad, ms, next) ==
  LET built[k \in 0..Len(ms)] ==
        IF k = 0 THEN next ELSE Wrap(bad, ms[Len(ms) - k + 1], built[k - 1])
  IN  built[Len(ms)]

(* Mutant: the global list is applied first, inside the endpoint's.        *)
EndpointTripperSwapped(bad, g, e, s) ==
  BuildMiddleware(bad, e, BuildMiddleware(bad, g,
    Built(IF s THEN <<"stream", "client">> ELSE <<"client">>)))

(* buildEndpoint: the client, the stream tripper, the endpoint's list,    *)
(* then the global list.                                                   *)
EndpointTripper(bad, g, e, s) ==
  BuildMiddleware(bad, g, BuildMiddleware(bad, e,
    Built(IF s THEN <<"stream", "client">> ELSE <<"client">>)))

(* Mutant: the JWT check accepts any scheme.                               *)
JwtAcceptsAnyScheme(auth) == auth \in {"bearerValid", "otherScheme"}

(* The JWT RoundTripper: "Bearer" and a token jwt.Parse accepts; any     *)
(* other header is answered 403.                                           *)
JwtAccepts(auth) == auth = "bearerValid"

(* Whether the wrapper at stage passes the request on.                     *)
Passes(stage, r) ==
  CASE stage = "jwt"       -> JwtAccepts(r.auth)
    [] stage = "namespace" -> NS!RoundTrip(nsOpts, r.ns, r.answer) = "next"
    [] OTHER               -> TRUE

Init ==
  /\ global \in MwLists
  /\ endpoint \in MwLists
  /\ stream \in BOOLEAN
  /\ badOptions \in SUBSET Registered
  /\ nsOpts \in NS!Options
  /\ tripper = EndpointTripper(badOptions, global, endpoint, stream)
  /\ req = [auth |-> "missing", ns |-> NS!NoNs, answer |-> "ok"]
  /\ pos = 0
  /\ outcome = "none"

(* A request enters the outermost wrapper.                                *)
Accept ==
  /\ tripper.ok /\ pos = 0
  /\ \E r \in Requests : req' = r
  /\ pos' = 1
  /\ outcome' = "none"
  /\ UNCHANGED <<global, endpoint, stream, badOptions, nsOpts, tripper>>

(* The wrapper at pos passes the request to the next one, or the client *)
(* sends it upstream.                                                      *)
Forward ==
  /\ pos > 0
  /\ Passes(tripper.stages[pos], req)
  /\ IF pos = Len(tripper.stages)
       THEN pos' = 0 /\ outcome' = "upstream"
       ELSE pos' = pos + 1 /\ UNCHANGED outcome
  /\ UNCHANGED <<global, endpoint, stream, badOptions, nsOpts, tripper, req>>

(* The wrapper at pos answers the request itself (newForbiddenResponse). *)
Refuse ==
  /\ pos > 0
  /\ ~Passes(tripper.stages[pos], req)
  /\ pos' = 0
  /\ outcome' = "forbidden"
  /\ UNCHANGED <<global, endpoint, stream, badOptions, nsOpts, tripper, req>>

Next == Accept \/ Forward \/ Refuse

Spec == Init /\ [][Next]_vars

-----------------------------------------------------------------------------
(* The wrappers spec 4.B says a request meets: the registered entries of *)
(* the global list, then those of the endpoint's, in declaration order,   *)
(* then the stream tripper and the client.                                *)
RegisteredOf(ms) ==
  LET sel[k \in 0..Len(ms)] ==
        IF k = 0 THEN << >>
        ELSE IF ms[k] \in Registered THEN Append(sel[k - 1], ms[k])
        ELSE sel[k - 1]
  IN  sel[Len(ms)]
Declared == RegisteredOf(global) \o RegisteredOf(endpoint)
              \o (IF stream THEN <<"stream", "client">> ELSE <<"client">>)

(* Spec 4.B: an unregistered name is skipped, any other factory error    *)
(* fails the build, and a built chain runs the global middlewares        *)
(* outermost, then the endpoint's, each in the order declared.            *)
ChainFollowsDeclaration ==
  /\ tripper.ok <=>
       \A i \in 1..Len(global \o endpoint) :
         Factory((global \o endpoint)[i], badOptions) # "error"
  /\ tripper.ok => tripper.stages = Declared

(* A request that reaches the upstream through a chain holding the JWT   *)
(* middleware carried a Bearer token that validates, and through one     *)
(* holding the namespace middleware carried a namespace its options      *)
(* accept (none when none is required, a whitelisted one outside the api *)
(* mode, or one the API approved outside the whitelist mode), whatever   *)
(* the order and the repetitions of the two lists.                        *)
UpstreamOnlyIfAuthorized ==
  outcome = "upstream" =>
    /\ "jwt" \in Range(tripper.stages) => req.auth = "bearerValid"
    /\ "namespace" \in Range(tripper.stages) =>
         \/ req.ns = NS!NoNs /\ ~nsOpts.required
         \/ req.ns \in nsOpts.allowed /\ nsOpts.mode # "api"
         \/ nsOpts.api /\ req.answer = "ok" /\ nsOpts.mode # "whitelist"

=============================================================================
