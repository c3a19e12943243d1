------------------------------- MODULE Keeper -------------------------------
(***************************************************************************)
(* What an AutoReconnect promises to its application: it keeps a session   *)
(* from start() to stop(), calls the started callback once, and calls the  *)
(* exit callback of the application once, when the session is over.        *)
(* Sessions that come and go in between are not seen.  AutoReconnect.tla   *)
(* implements it for an application that starts it again only after the    *)
(* exit callback.                                                          *)
(***************************************************************************)
EXTENDS Naturals

VARIABLES
  keeper,      \* "off", "on" or "leaving"
  established, \* calls of the started callback since start()
  notified     \* calls of the application's exit callback since start()

keeperVars == <<keeper, established, notified>>

KeeperInit ==
  /\ keeper = "off"
  /\ established = 0
  /\ notified = 0

TurnOn ==
  /\ keeper = "off"
  /\ keeper' = "on"
  /\ established' = 0
  /\ notified' = 0

Establish ==
  /\ keeper = "on"
  /\ established = 0
  /\ established' = 1
  /\ UNCHANGED <<keeper, notified>>

Leave ==
  /\ keeper = "on"
  /\ keeper' = "leaving"
  /\ UNCHANGED <<established, notified>>

\* Also without Leave, when the session was stopped behind the keeper's back.
Notify ==
  /\ keeper # "off"
  /\ keeper' = "off"
  /\ notified' = 1
  /\ UNCHANGED established

KeeperNext == TurnOn \/ Establish \/ Leave \/ Notify

KeeperSpec == KeeperInit /\ [][KeeperNext]_keeperVars

=============================================================================
