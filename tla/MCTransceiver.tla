---------------------------- MODULE MCTransceiver ---------------------------
(***************************************************************************)
(* Instance of Transceiver for TLC.                                        *)
(***************************************************************************)
EXTENDS Transceiver

Receiver == {TRUE}
Sender   == {FALSE}
Both     == {TRUE, FALSE}
Alone    == {}
Crowded  == {"othersDeclare"}
Slow     == {"slowChannels"}
Hostile  == {"othersDeclare", "checkRefused", "slowChannels"}
=============================================================================
