-------------------------- MODULE MCEndpointDefault --------------------------
(* The endpoints and their readers: the cfg file gives the bounds. *)
EXTENDS PortalLookup
=============================================================================
