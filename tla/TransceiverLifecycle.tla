------------------------ MODULE TransceiverLifecycle ------------------------
(***************************************************************************)
(* What a Transceiver promises to the Connector that starts it, stops it   *)
(* and waits for it in loops over is_running() and ready(): a life in four *)
(* phases that is never re-entered from behind, and one call of the exit   *)
(* callback at its end.  Transceiver.tla implements it for a listener.     *)
(***************************************************************************)
EXTENDS Naturals

VARIABLES
  phase, \* "ended", "starting", "ready" or "stopping"
  exits  \* calls of the exit callback since start()

lifeVars == <<phase, exits>>

LifeInit == phase = "ended" /\ exits = 0

Begin ==
  /\ phase = "ended"
  /\ phase' = "starting"
  /\ exits' = 0

\* start() without a connection ends before it returns.
Refuse ==
  /\ phase = "ended"
  /\ phase' = "ended"
  /\ exits' = 1

BecomeReady ==
  /\ phase = "starting"
  /\ phase' = "ready"
  /\ UNCHANGED exits

\* After stop(), or after an error that leaves something to tidy up.
WindDown ==
  /\ phase \in {"starting", "ready"}
  /\ phase' = "stopping"
  /\ UNCHANGED exits

Finish ==
  /\ phase # "ended"
  /\ phase' = "ended"
  /\ exits' = exits + 1

LifeNext == Begin \/ Refuse \/ BecomeReady \/ WindDown \/ Finish

LifeSpec == LifeInit /\ [][LifeNext]_lifeVars

=============================================================================
