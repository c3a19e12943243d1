------------------------ MODULE MCConnectionHandler -------------------------
(***************************************************************************)
(* Instance of AmqpConnectionHandler for TLC: the bounds are given in the  *)
(* configuration files.                                                    *)
(***************************************************************************)
EXTENDS AmqpConnectionHandler
=============================================================================
