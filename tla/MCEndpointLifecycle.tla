------------------------ MODULE MCEndpointLifecycle ------------------------
(* Small instances of EndpointLifecycle for TLC. *)
EXTENDS EndpointLifecycle
=============================================================================
