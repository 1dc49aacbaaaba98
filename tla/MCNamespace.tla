----------------------------- MODULE MCNamespace -----------------------------
(* Two namespace values besides the empty one.                            *)
EXTENDS Namespace

=============================================================================
