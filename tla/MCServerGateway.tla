--------------------------- MODULE MCServerGateway ---------------------------
(* Instances of ServerGateway for TLC: those of ServerChannel. *)
EXTENDS MCServerChannel, ServerGateway
=============================================================================
