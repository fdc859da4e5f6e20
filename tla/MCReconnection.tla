--------------------------- MODULE MCReconnection ---------------------------
(***************************************************************************)
(* Two calls that may overlap and four outages of the server.             *)
(***************************************************************************)
EXTENDS Reconnection

CONSTANTS c1, c2

=============================================================================
