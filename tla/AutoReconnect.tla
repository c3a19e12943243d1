---------------------------- MODULE AutoReconnect ---------------------------
(***************************************************************************)
(* amqp::AutoReconnect (src/src/AutoReconnect.{hpp,cpp}): the wrapper that *)
(* takes over the callbacks of a connector and starts it again, a second   *)
(* after it has exited with an error.                                      *)
(*                                                                         *)
(* The connector is the abstract one of Session.tla.  The application has  *)
(* set its exit callback before the first start(), and its started         *)
(* callback calls run(), as in the examples; run() waits in a nested event *)
(* loop, so that everything but another connection can happen before the   *)
(* callback returns to started().                                          *)
(***************************************************************************)
EXTENDS Session

CONSTANTS
  Habits,    \* what the application does beyond an orderly use, see below
  Faults,    \* "tcp": a connector exits with eNormal after an error of TCP
  MaxStarts, \* bound on the calls of start() that take effect
  Garbage    \* what a flag holds that no initialiser sets

\* "hasty":   start() after stop(), before the exit callback came or before the
\*            started callback has returned.
\* "again":   start() from the exit callback.
\* "outside": stop() of the connector itself.
ASSUME ParametersAssumption ==
  /\ Habits \subseteq {"hasty", "again", "outside"}
  /\ Faults \subseteq {"tcp"}
  /\ MaxStarts \in Nat
  /\ Garbage \notin BOOLEAN

VARIABLES
  m_started,            \* between start() and stop()
  m_needStop,           \* stop() found a connector that was not ready
  m_rerun,              \* run() when the connection is up again
  m_backupExitCallback, \* whose exit callback was saved, "none" for nullptr
  m_startedCallback,    \* the started callback is set
  m_timer,              \* "idle", "armed", or "expired": its handler is queued
  m_exitCb,             \* connector: whose exit callback is set
  calling,              \* the started callback has not returned
  ran,                  \* history: run() on this connection, "late" after stop()
  lost,                 \* history: the connector exited during the callback
  asked,                \* history: stop() was called since start()
  overflow,             \* history: restart() called itself without end
  starts,               \* history: calls of start() that took effect
  established,          \* history: calls of the started callback since start()
  notified              \* history: calls of the exit callback since start()

flags   == <<m_started, m_needStop, m_rerun>>
saved   == <<m_backupExitCallback, m_startedCallback>>
history == <<ran, lost, asked, overflow, starts, established, notified>>
vars    == <<sessionVars, flags, saved, m_timer, m_exitCb, calling, history>>

FlagsOK ==
  /\ m_started \in BOOLEAN
  /\ m_needStop \in BOOLEAN
  /\ m_rerun \in BOOLEAN
  /\ m_startedCallback \in BOOLEAN
  /\ calling \in BOOLEAN
  /\ lost \in BOOLEAN
  /\ asked \in BOOLEAN
  /\ overflow \in BOOLEAN

\* The type invariant.
TypeOK ==
  /\ FlagsOK
  /\ session \in {"idle", "connecting", "up", "stopping"}
  /\ exits \in Nat
  /\ exitCode \in ExitCode \cup {"none"}
  /\ m_backupExitCallback \in {"none", "application", "restart"}
  /\ m_timer \in {"idle", "armed", "expired"}
  /\ m_exitCb \in {"none", "application", "restart"}
  /\ ran \in {"no", "yes", "late"}
  /\ starts \in Nat
  /\ established \in Nat
  /\ notified \in Nat

\* Mutant: m_started is missing from the initialisers.
Mut_InitialStarted == Garbage

InitialStarted == FALSE

Init ==
  /\ SessionInit
  /\ m_started = InitialStarted
  /\ m_needStop = FALSE
  /\ m_rerun = FALSE
  /\ m_backupExitCallback = "none"
  /\ m_startedCallback = FALSE
  /\ m_timer = "idle"
  /\ m_exitCb = "application"
  /\ calling = FALSE
  /\ ran = "no"
  /\ lost = FALSE
  /\ asked = FALSE
  /\ overflow = FALSE
  /\ starts = 0
  /\ established = 0
  /\ notified = 0

Ready == session \in {"up", "stopping"}

-----------------------------------------------------------------------------
(* restart(): the exit callback that start() gives the connector.          *)

\* Mutant: the connector keeps restart() as its callback.
Mut_GiveBack == UNCHANGED m_exitCb

\* m_connector->onExit(m_backupExitCallback).
GiveBack == m_exitCb' = m_backupExitCallback

\* The saved callback is called, then cleared.  If it is restart() itself, it
\* finds m_started false and calls itself again before it is cleared.
CallBackup(timer) ==
  /\ m_started' = FALSE
  /\ GiveBack
  /\ m_backupExitCallback' = "none"
  /\ notified' = IF m_backupExitCallback = "application" THEN notified + 1 ELSE notified
  /\ overflow' = (m_backupExitCallback = "restart")
  /\ m_timer' = timer
  /\ UNCHANGED m_rerun

\* Mutant: m_rerun is not set.
Mut_Rerun == UNCHANGED m_rerun

Rerun == m_rerun' = TRUE

\* Mutant: async_wait() is missing.
Mut_Pause == UNCHANGED m_timer

Pause == m_timer' = "armed"

TryAgain ==
  /\ Rerun
  /\ Pause
  /\ UNCHANGED <<m_started, m_exitCb, m_backupExitCallback, notified, overflow>>

restart(code, timer) ==
  \/ ~m_started /\ CallBackup(timer)
  \/ m_started /\ code = "eNormal" /\ CallBackup(timer)
  \/ m_started /\ code # "eNormal" /\ TryAgain

-----------------------------------------------------------------------------
(* Calls by the application.                                               *)

\* Mutant: start() does not ask for m_started.
Mut_Startable == TRUE

Startable == ~m_started

\* What async_start() does to a connector.  An attempt that is replaced by a new
\* one exits with eBrokerConnectError, which start() gets before m_started is
\* set: see Connector.tla.
start ==
  /\ Startable
  /\ starts < MaxStarts
  /\ m_exitCb # "application" \/ calling => m_started \/ "hasty" \in Habits
  /\ starts' = starts + 1
  /\ m_needStop' = FALSE
  /\ m_rerun' = FALSE
  /\ m_backupExitCallback' = m_exitCb
  /\ m_startedCallback' = TRUE
  /\ m_exitCb' = "restart"
  /\ m_started' = TRUE
  /\ \/ session = "idle" /\ Begin /\ UNCHANGED overflow
     \/ Ready /\ UNCHANGED <<sessionVars, overflow>>
     \/ /\ session = "connecting"
        /\ overflow' = (m_exitCb = "restart")
        /\ UNCHANGED sessionVars
  /\ asked' = FALSE
  /\ lost' = FALSE
  /\ established' = 0
  /\ notified' = 0
  /\ UNCHANGED <<m_timer, calling, ran>>

\* Mutant: stop() leaves a connector alone that is not ready.
Mut_StopLater == UNCHANGED m_needStop

StopLater == m_needStop' = TRUE

\* cancel() has no effect on a timer whose handler is queued.
stop ==
  /\ m_started
  /\ m_timer' = IF m_timer = "armed" THEN "idle" ELSE m_timer
  /\ \/ Ready /\ session' = "stopping" /\ UNCHANGED m_needStop
     \/ ~Ready /\ StopLater /\ UNCHANGED session
  /\ m_started' = FALSE
  /\ asked' = TRUE
  /\ UNCHANGED <<exits, exitCode, m_rerun, saved, m_exitCb, calling, ran, lost,
                 overflow, starts, established, notified>>

\* The application stops the connector behind the wrapper's back.
connectorStop ==
  /\ "outside" \in Habits
  /\ WindUp
  /\ UNCHANGED <<flags, saved, m_timer, m_exitCb, calling, history>>

-----------------------------------------------------------------------------
(* The timer.                                                              *)

TimerExpires ==
  /\ m_timer = "armed"
  /\ m_timer' = "expired"
  /\ UNCHANGED <<sessionVars, flags, saved, m_exitCb, calling, history>>

\* The handler of the timer: async_start().
TimerHandler ==
  /\ m_timer = "expired"
  /\ \/ /\ session = "idle"
        /\ Begin
        /\ m_timer' = "idle"
        /\ UNCHANGED <<m_started, m_rerun, m_exitCb, m_backupExitCallback,
                       overflow, notified>>
     \/ /\ Ready
        /\ m_timer' = "idle"
        /\ UNCHANGED <<sessionVars, m_started, m_rerun, m_exitCb,
                       m_backupExitCallback, overflow, notified>>
     \/ /\ session = "connecting"
        /\ restart("eBrokerConnectError", "idle")
        /\ UNCHANGED sessionVars
  /\ UNCHANGED <<m_needStop, m_startedCallback, calling, ran, lost, asked,
                 starts, established>>

-----------------------------------------------------------------------------
(* started(): the started callback that the connector gets.                *)

\* The connection is up and stop() was called before.
StartedTooLate ==
  /\ session = "connecting"
  /\ ~calling
  /\ m_needStop
  /\ m_needStop' = FALSE
  /\ session' = "stopping"
  /\ ran' = "no"
  /\ UNCHANGED <<exits, exitCode, m_started, m_rerun, saved, m_timer, m_exitCb,
                 calling, lost, asked, overflow, starts, established, notified>>

\* The end of started(): m_connector->run() if it is asked for, which returns at
\* once from a connector that is not ready.
RunIfAsked(ready, otherwise) ==
  /\ m_rerun' = FALSE
  /\ ran' = IF ~m_rerun \/ ~ready THEN otherwise
            ELSE IF m_started THEN "yes" ELSE "late"

\* The first connection: the callback is called and calls run() ...
StartedFirst ==
  /\ Connect
  /\ ~calling
  /\ ~m_needStop
  /\ m_startedCallback
  /\ calling' = TRUE
  /\ established' = established + 1
  /\ ran' = "yes"
  /\ UNCHANGED <<flags, saved, m_timer, m_exitCb, lost, asked, overflow, starts,
                 notified>>

\* Mutant: the callback is not cleared.
Mut_Forget == UNCHANGED m_startedCallback

Forget == m_startedCallback' = FALSE

\* ... and returns.
CallbackReturns ==
  /\ calling
  /\ calling' = FALSE
  /\ Forget
  /\ RunIfAsked(Ready, ran)
  /\ UNCHANGED <<sessionVars, m_started, m_needStop, m_backupExitCallback,
                 m_timer, m_exitCb, lost, asked, overflow, starts, established,
                 notified>>

StartedAgain ==
  /\ Connect
  /\ ~calling
  /\ ~m_needStop
  /\ ~m_startedCallback
  /\ RunIfAsked(TRUE, "no")
  /\ UNCHANGED <<m_started, m_needStop, saved, m_timer, m_exitCb, calling, lost,
                 asked, overflow, starts, established, notified>>

-----------------------------------------------------------------------------
(* The connector.                                                          *)

\* An error of TCP, which the connector handles as a stop().
TcpError ==
  /\ "tcp" \in Faults
  /\ WindUp
  /\ UNCHANGED <<flags, saved, m_timer, m_exitCb, calling, history>>

\* The connector exits.  Every session begins with restart() as its callback,
\* and only restart() replaces it.
Exited ==
  /\ Refuse \/ Fail \/ Stopped
  /\ m_exitCb = "restart"
  /\ restart(exitCode', m_timer)
  /\ lost' = (lost \/ calling)
  /\ UNCHANGED <<m_needStop, m_startedCallback, calling, ran, asked, starts,
                 established>>

\* The same when the application starts anew from its exit callback: restart()
\* then clears the callback that this start() has saved.
ExitedAgain ==
  /\ "again" \in Habits
  /\ starts < MaxStarts
  /\ calling => "hasty" \in Habits
  /\ m_exitCb = "restart"
  /\ m_backupExitCallback = "application"
  /\ session = "stopping" \/ (session # "idle" /\ ~m_started)
  /\ session' = "connecting"
  /\ exits' = 0
  /\ exitCode' = "none"
  /\ m_started' = TRUE
  /\ m_needStop' = FALSE
  /\ m_rerun' = FALSE
  /\ m_backupExitCallback' = "none"
  /\ m_startedCallback' = TRUE
  /\ lost' = calling
  /\ asked' = FALSE
  /\ starts' = starts + 1
  /\ established' = 0
  /\ notified' = 0
  /\ UNCHANGED <<m_timer, m_exitCb, calling, ran, overflow>>

-----------------------------------------------------------------------------

\* Nothing follows an endless recursion.
Next ==
  /\ ~overflow
  /\ \/ start
     \/ stop
     \/ connectorStop
     \/ TimerExpires
     \/ TimerHandler
     \/ StartedTooLate
     \/ StartedFirst
     \/ CallbackReturns
     \/ StartedAgain
     \/ TcpError
     \/ Exited
     \/ ExitedAgain

Spec == Init /\ [][Next]_vars

\* Time passes, handlers are dispatched, callbacks return, and the connector
\* settles every attempt and finishes every stop().
Fairness ==
  /\ WF_vars(TimerExpires)
  /\ WF_vars(TimerHandler)
  /\ WF_vars(CallbackReturns)
  /\ WF_vars(session = "connecting" /\ (StartedTooLate \/ StartedFirst \/ StartedAgain \/ Exited))
  /\ WF_vars(session = "stopping" /\ Exited)

FairSpec == Spec /\ Fairness

-----------------------------------------------------------------------------
(* Safety.                                                                 *)

\* AutoReconnect.hpp:28: start() and stop() may be called repeatedly.  The
\* callback that restart() calls at the end is never restart() itself.  Says
\* something of a "hasty" application only: AutoReconnectRecursion.cfg.
NoRecursion == ~overflow

\* AutoReconnect.hpp:61-63: the started callback is called once.
EstablishedOnce == established <= 1

\* AutoReconnect.hpp:24-26: attempts to restore the connection are made until
\* stop() is called.
TriesUntilStopped == starts > 0 /\ ~asked => m_started

\* AutoReconnect.hpp:107-108: the connector is run again after every successful
\* reconnection.
ConnectionIsRun ==
  session = "up" /\ m_started /\ ~calling => ran # "no"

\* The same unless the connector has exited before the first started callback
\* returned.
ConnectionIsRunUnlessLost == lost \/ ConnectionIsRun

\* The transceivers are not started again once stop() was called.
NoRunAfterStop == ran # "late"

\* A timer is only pending while there is no session: its handler never replaces
\* an attempt, which would leave a destroyed handler with its resolve or connect.
OneAttempt == m_timer # "idle" => session = "idle"

-----------------------------------------------------------------------------
(* Refinement and liveness.                                                *)

K == INSTANCE Keeper WITH
  keeper <- IF m_started THEN "on" ELSE IF m_exitCb = "restart" THEN "leaving" ELSE "off"

\* AutoReconnect implements the abstract keeper of a session.
ImplementsKeeper == K!KeeperSpec

\* AutoReconnect.hpp:24-26: while it is not stopped, it always tries again.
Reconnects == m_started /\ session = "idle" ~> ~m_started \/ session # "idle"

\* AutoReconnect.hpp:19-22: after stop() the exit callback of the application is
\* called, also when there is no connection yet.
StopNotifies == asked ~> notified > 0 \/ ~asked

\* The same unless stop() comes in the pause between two attempts.
StopNotifiesUnlessPaused == asked /\ session # "idle" ~> notified > 0 \/ ~asked

=============================================================================
