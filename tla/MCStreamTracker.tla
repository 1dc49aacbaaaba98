--------------------------- MODULE MCStreamTracker ---------------------------
(* One streaming request over every protocol variant.                     *)
EXTENDS StreamTracker

=============================================================================
