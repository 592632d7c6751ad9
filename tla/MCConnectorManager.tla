------------------------- MODULE MCConnectorManager -------------------------
(***************************************************************************)
(* ConnectorManager for TLC: two sources of one tenant whose limit is one, *)
(* two requests in flight, three connectors in the life of the process.    *)
(***************************************************************************)
EXTENDS ConnectorManager

CONSTANTS a, b, t1

MCTenantOf == [s \in Sources |-> t1]
=============================================================================
