------------------------------- MODULE MCChain -------------------------------
(* One namespace value, so that it can be whitelisted or not under each *)
(* of the namespace middleware's options.                                  *)
EXTENDS Chain

CONSTANT n1  \* the namespace value, a model value

=============================================================================
