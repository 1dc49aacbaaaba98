------------------------------ MODULE MCHandler ------------------------------
(* Two concurrent requests on one endpoint with three attempts each; the  *)
(* breaker window threshold is lowered from 10 to 2 so that the breaker   *)
(* can refuse a retry within the requests' own retries.                    *)
EXTENDS Handler, TLC

MCSymmetry == Permutations(Requests)


=============================================================================
