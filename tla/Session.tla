------------------------------- MODULE Session ------------------------------
(***************************************************************************)
(* What a Connector promises to its application: a session with the broker *)
(* that begins when it is asked for, is refused or established, and ends   *)
(* with one call of the exit callback, whose code says why.  No nested     *)
(* loops, transceivers or posted functions.  Connector.tla implements it   *)
(* as long as no close begins during a close; AutoReconnect.tla runs on    *)
(* top of it.                                                              *)
(***************************************************************************)
EXTENDS Naturals

VARIABLES
  session,  \* "idle", "connecting", "up" or "stopping"
  exits,    \* calls of the exit callback in this session
  exitCode  \* the code of the last one, "none" before it

sessionVars == <<session, exits, exitCode>>

ExitCode == {"eNormal", "eBrokerConnectError", "eAmqpError"}

SessionInit ==
  /\ session = "idle"
  /\ exits = 0
  /\ exitCode = "none"

Begin ==
  /\ session = "idle"
  /\ session' = "connecting"
  /\ exits' = 0
  /\ exitCode' = "none"

Connect ==
  /\ session = "connecting"
  /\ session' = "up"
  /\ UNCHANGED <<exits, exitCode>>

\* stop() was called, or the connection is being closed after an error.
WindUp ==
  /\ session = "up"
  /\ session' = "stopping"
  /\ UNCHANGED <<exits, exitCode>>

Exit(code) ==
  /\ session' = "idle"
  /\ exits' = exits + 1
  /\ exitCode' = code

Refuse  == session = "connecting" /\ Exit("eBrokerConnectError")
Fail    == session \in {"up", "stopping"} /\ Exit("eAmqpError")
Stopped == session = "stopping" /\ Exit("eNormal")

SessionNext == Begin \/ Connect \/ WindUp \/ Refuse \/ Fail \/ Stopped

SessionSpec == SessionInit /\ [][SessionNext]_sessionVars

=============================================================================
