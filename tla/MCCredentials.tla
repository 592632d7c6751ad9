--------------------------- MODULE MCCredentials ---------------------------
(***************************************************************************)
(* Credentials for TLC: the first admin and a second user who comes and    *)
(* goes, tokens and grace periods of one and two instants.                 *)
(***************************************************************************)
EXTENDS Credentials
=============================================================================
