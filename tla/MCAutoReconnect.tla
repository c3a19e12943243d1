--------------------------- MODULE MCAutoReconnect --------------------------
(***************************************************************************)
(* Instance of AutoReconnect for TLC: the bounds are given in the          *)
(* configuration files.                                                    *)
(***************************************************************************)
EXTENDS AutoReconnect
=============================================================================
