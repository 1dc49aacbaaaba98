------------------------------ MODULE MCGateway ------------------------------
(* Two requests, two endpoints per configuration, a start and two reloads *)
(* (MaxUpdates = 3).                                                       *)
EXTENDS Gateway

=============================================================================
