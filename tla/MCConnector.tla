----------------------------- MODULE MCConnector ----------------------------
(***************************************************************************)
(* Instance of Connector for TLC: two transceivers, the habits and faults  *)
(* given in the configuration files.                                       *)
(***************************************************************************)
EXTENDS Connector
=============================================================================
