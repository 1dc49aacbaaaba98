-------------------------- MODULE MCControlService --------------------------
(* Two handlers, so that one blocks the other's RLock, and two gateways, *)
(* one of which may have no files.                                        *)
EXTENDS ControlService

=============================================================================
