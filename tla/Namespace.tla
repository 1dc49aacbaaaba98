------------------------------ MODULE Namespace ------------------------------
(***************************************************************************)
(* The namespace middleware (src/unnamed/part_001, package namespace):    *)
(* Middleware builds, from the options, a validation function and a       *)
(* RoundTripper that checks the namespace header of each request before   *)
(* passing it on.  The middleware is rebuilt at every configuration       *)
(* load.                                                                   *)
(*                                                                         *)
(* Data is abstracted: a namespace is "" or a model value; the options    *)
(* are Required, the allowed list, whether ValidateApi has a URL (so that *)
(* an http.Client exists) and the validation mode after ToLower and       *)
(* TrimSpace ("other" for any value that is neither mode); the external   *)
(* API's answer is "ok" (a success status), "reject" (another status) or  *)
(* "error" (template, request or transport failure).                       *)
(***************************************************************************)
EXTENDS Naturals

CONSTANTS
  Names   \* namespace values a request can carry, besides ""

NoNs == ""
Modes == {"whitelist", "api", "other"}
ApiAnswers == {"ok", "reject", "error"}
Options == [required : BOOLEAN, allowed : SUBSET Names, api : BOOLEAN,
            mode : Modes]
(* What the RoundTripper returns: the next tripper's response, or         *)
(* newForbiddenResponse with the status of the error's code.              *)
Results == {"next", "403", "500"}

VARIABLES
  opts,    \* the options of the middleware built last
  built,   \* "ok", or "error" when Middleware returned an error
  last     \* the last request served: its namespace, the API's answer,
           \* the result

vars == <<opts, built, last>>

(* validateNamespaceViaAPI: nil for a success status, ErrorForbidden      *)
(* (403) for another status, ErrorInternal (500) for a failure.            *)
ViaApi(answer) ==
  CASE answer = "ok"     -> "nil"
    [] answer = "reject" -> "403"
    [] OTHER             -> "500"

(* The validation function of each mode.  The default mode accepts a     *)
(* whitelisted namespace; otherwise, with an API configured, returns the *)
(* API's error, and returns ErrorForbidden in every other case.           *)
Validate(o, ns, answer) ==
  CASE o.mode = "whitelist" -> IF ns \in o.allowed THEN "nil" ELSE "403"
    [] o.mode = "api"       -> ViaApi(answer)
    [] OTHER ->
         IF ns \in o.allowed THEN "nil"
         ELSE IF o.api /\ ViaApi(answer) # "nil" THEN ViaApi(answer)
         ELSE "403"

(* Middleware: the checks that refuse a configuration.                    *)
BuildFails(o) ==
  \/ o.mode = "whitelist" /\ o.allowed = {}
  \/ o.mode = "api" /\ ~o.api

(* A configuration load builds the middleware.                             *)
Build ==
  \E o \in Options :
    /\ opts' = o
    /\ built' = IF BuildFails(o) THEN "error" ELSE "ok"
    /\ last' = [ns |-> NoNs, answer |-> "ok", result |-> "none"]

(* Mutant: the Required check is dropped.                                 *)
RoundTripNotRequired(o, ns, answer) ==
  IF ns # NoNs /\ Validate(o, ns, answer) # "nil"
    THEN Validate(o, ns, answer) ELSE "next"

(* The RoundTripper: a missing namespace under Required is 403; a present *)
(* one is validated, an error becomes newForbiddenResponse(err);          *)
(* otherwise next.RoundTrip.                                               *)
RoundTrip(o, ns, answer) ==
  CASE o.required /\ ns = NoNs                      -> "403"
    [] ns # NoNs /\ Validate(o, ns, answer) # "nil" -> Validate(o, ns, answer)
    [] OTHER                                        -> "next"

(* A request reaches the built middleware.                                 *)
Serve ==
  /\ built = "ok"
  /\ \E ns \in Names \cup {NoNs}, answer \in ApiAnswers :
       last' = [ns |-> ns, answer |-> answer,
                result |-> RoundTrip(opts, ns, answer)]
  /\ UNCHANGED <<opts, built>>

Init ==
  /\ opts \in Options
  /\ built = IF BuildFails(opts) THEN "error" ELSE "ok"
  /\ last = [ns |-> NoNs, answer |-> "ok", result |-> "none"]

Next == Build \/ Serve

Spec == Init /\ [][Next]_vars

-----------------------------------------------------------------------------
(* The default mode validates through the whitelist or, when an API is   *)
(* configured, through the API: a namespace the API accepts passes, as   *)
(* in the api mode.                                                       *)
DefaultModeHonoursApi ==
  (/\ last.result # "none" /\ last.ns # NoNs /\ opts.mode = "other"
   /\ opts.api /\ last.answer = "ok") => last.result = "next"

=============================================================================
