------------------------------- MODULE MCRouter -------------------------------
(* Two requests, two endpoints per configuration, three reloads.          *)
EXTENDS Router, TLC

MCSymmetry == Permutations(Requests)

=============================================================================
