-------------------------- MODULE MCFileConnector --------------------------
(***************************************************************************)
(* FileConnector for TLC: three writes, three files, one truncation, one   *)
(* restart, one failed save and one poll that fails half way.              *)
(***************************************************************************)
EXTENDS FileConnector
=============================================================================
