------------------------- MODULE AutoReconnect_proofs ------------------------
(***************************************************************************)
(* Proofs about AutoReconnect, for every value of the constants.  What     *)
(* holds whatever the application does rests on BaseInv; what needs an     *)
(* application that waits for the end of a session before it starts the    *)
(* next one rests on WaitInv; the refinement of Keeper on KeeperInv.       *)
(***************************************************************************)
EXTENDS AutoReconnect, TLAPS

\* The started callback is called by an attempt only as long as it is set, and
\* is cleared when it returns.
CallbackInv == established <= 1 /\ (established = 1 /\ m_startedCallback => calling)

BaseInv == TypeOK /\ CallbackInv

\* restart() is the callback of the connector wherever it is needed, and what
\* it calls at the end is never restart() itself.
SlotInv ==
  /\ m_started => m_exitCb = "restart"
  /\ session # "idle" => m_exitCb = "restart"
  /\ m_exitCb = "restart" => m_backupExitCallback # "restart"
  /\ ~overflow

\* The timer is pending only between two attempts.
TimerInv == m_timer # "idle" => session = "idle" /\ m_exitCb = "restart"

\* A started callback that has not returned has its connection, or `lost' says
\* that it has not; a connection that came up was run, and one that is to come
\* up after the first will be.
RunInv ==
  ~lost =>
    /\ calling => Ready /\ ran # "no"
    /\ m_started /\ session = "up" => ran # "no"
    /\ m_started /\ ~m_startedCallback /\ ~Ready => m_rerun

WaitInv == BaseInv /\ SlotInv /\ TimerInv /\ RunInv

\* Between start() and the exit callback the application's callback is saved; a
\* stop() without a connection is remembered.
SavedInv ==
  /\ m_exitCb = "restart" => m_backupExitCallback = "application" /\ notified = 0
  /\ m_exitCb # "none"
  /\ ~m_started /\ m_exitCb = "restart" /\ ~Ready => m_needStop
  /\ ~m_started => session # "up"

KeeperInv == WaitInv /\ SavedInv

-----------------------------------------------------------------------------
(* What holds whatever the application does.                                *)

LEMMA Codes ==
  "eNormal" \in ExitCode /\ "eBrokerConnectError" \in ExitCode /\ "eAmqpError" \in ExitCode
BY DEF ExitCode

LEMMA InitBase == Init => BaseInv
<1> SUFFICES ASSUME Init PROVE BaseInv
  OBVIOUS
<1> USE DEF Init, SessionInit, InitialStarted
<1>1. FlagsOK
  BY DEF FlagsOK
<1>2. TypeOK
  BY <1>1 DEF TypeOK
<1>3. CallbackInv
  BY DEF CallbackInv
<1> QED
  BY <1>2, <1>3 DEF BaseInv

LEMMA FlagsStep ==
  ASSUME TypeOK, [Next]_vars
  PROVE  FlagsOK'
<1> USE DEF TypeOK, FlagsOK, saved, sessionVars
<1>1. CASE start
  BY <1>1 DEF start, Begin
<1>2. CASE stop
  BY <1>2 DEF stop, Ready, StopLater, saved
<1>3. CASE connectorStop
  BY <1>3 DEF connectorStop, WindUp, flags, saved, history
<1>4. CASE TimerExpires
  BY <1>4 DEF TimerExpires, sessionVars, flags, saved, history
<1>5. CASE TimerHandler
  BY <1>5 DEF TimerHandler, restart, CallBackup, TryAgain, GiveBack, Rerun, Pause, Begin, Ready, sessionVars
<1>6. CASE StartedTooLate
  BY <1>6 DEF StartedTooLate, saved
<1>7. CASE StartedFirst
  BY <1>7 DEF StartedFirst, Connect, flags, saved
<1>8. CASE CallbackReturns
  BY <1>8 DEF CallbackReturns, Forget, RunIfAsked, Ready, sessionVars
<1>9. CASE StartedAgain
  BY <1>9 DEF StartedAgain, Connect, RunIfAsked, saved
<1>10. CASE TcpError
  BY <1>10 DEF TcpError, WindUp, flags, saved, history
<1>11. CASE Exited
  BY <1>11 DEF Exited, Refuse, Fail, Stopped, Exit, restart, CallBackup, TryAgain, GiveBack, Rerun, Pause
<1>12. CASE ExitedAgain
  BY <1>12 DEF ExitedAgain
<1>13. CASE UNCHANGED vars
  BY <1>13 DEF vars, sessionVars, flags, saved, history
<1> QED
  BY <1>1, <1>2, <1>3, <1>4, <1>5, <1>6, <1>7, <1>8, <1>9, <1>10, <1>11, <1>12, <1>13 DEF Next

LEMMA TypeStep ==
  ASSUME TypeOK, [Next]_vars
  PROVE  TypeOK'
<1> USE Codes, FlagsStep DEF TypeOK, saved, sessionVars
<1>1. CASE start
  BY <1>1 DEF start, Begin
<1>2. CASE stop
  BY <1>2 DEF stop, Ready, StopLater, saved
<1>3. CASE connectorStop
  BY <1>3 DEF connectorStop, WindUp, flags, saved, history
<1>4. CASE TimerExpires
  BY <1>4 DEF TimerExpires, sessionVars, flags, saved, history
<1>5. CASE TimerHandler
  BY <1>5 DEF TimerHandler, restart, CallBackup, TryAgain, GiveBack, Rerun, Pause, Begin, Ready, sessionVars
<1>6. CASE StartedTooLate
  BY <1>6 DEF StartedTooLate, saved
<1>7. CASE StartedFirst
  BY <1>7 DEF StartedFirst, Connect, flags, saved
<1>8. CASE CallbackReturns
  BY <1>8 DEF CallbackReturns, Forget, RunIfAsked, Ready, sessionVars
<1>9. CASE StartedAgain
  BY <1>9 DEF StartedAgain, Connect, RunIfAsked, saved
<1>10. CASE TcpError
  BY <1>10 DEF TcpError, WindUp, flags, saved, history
<1>11. CASE Exited
  BY <1>11 DEF Exited, Refuse, Fail, Stopped, Exit, restart, CallBackup, TryAgain, GiveBack, Rerun, Pause
<1>12. CASE ExitedAgain
  BY <1>12 DEF ExitedAgain
<1>13. CASE UNCHANGED vars
  BY <1>13 DEF vars, sessionVars, flags, saved, history
<1> QED
  BY <1>1, <1>2, <1>3, <1>4, <1>5, <1>6, <1>7, <1>8, <1>9, <1>10, <1>11, <1>12, <1>13 DEF Next

LEMMA CallbackStep ==
  ASSUME BaseInv, [Next]_vars
  PROVE  CallbackInv'
<1> USE DEF BaseInv, TypeOK, FlagsOK, CallbackInv
<1>1. CASE start
  BY <1>1 DEF start, Begin
<1>2. CASE stop
  BY <1>2 DEF stop, Ready, StopLater, saved
<1>3. CASE connectorStop
  BY <1>3 DEF connectorStop, WindUp, flags, saved, history
<1>4. CASE TimerExpires
  BY <1>4 DEF TimerExpires, sessionVars, flags, saved, history
<1>5. CASE TimerHandler
  BY <1>5 DEF TimerHandler, restart, CallBackup, TryAgain, GiveBack, Rerun, Pause, Begin, Ready, sessionVars
<1>6. CASE StartedTooLate
  BY <1>6 DEF StartedTooLate, saved
<1>7. CASE StartedFirst
  BY <1>7 DEF StartedFirst, Connect, flags, saved
<1>8. CASE CallbackReturns
  BY <1>8 DEF CallbackReturns, Forget, RunIfAsked, Ready, sessionVars
<1>9. CASE StartedAgain
  BY <1>9 DEF StartedAgain, Connect, RunIfAsked, saved
<1>10. CASE TcpError
  BY <1>10 DEF TcpError, WindUp, flags, saved, history
<1>11. CASE Exited
  BY <1>11 DEF Exited, Refuse, Fail, Stopped, Exit, restart, CallBackup, TryAgain, GiveBack, Rerun, Pause
<1>12. CASE ExitedAgain
  BY <1>12 DEF ExitedAgain
<1>13. CASE UNCHANGED vars
  BY <1>13 DEF vars, sessionVars, flags, saved, history
<1> QED
  BY <1>1, <1>2, <1>3, <1>4, <1>5, <1>6, <1>7, <1>8, <1>9, <1>10, <1>11, <1>12, <1>13 DEF Next

LEMMA SlotStep ==
  ASSUME "hasty" \notin Habits, WaitInv, [Next]_vars
  PROVE  SlotInv'
<1> USE DEF WaitInv, SlotInv, BaseInv, TypeOK, FlagsOK, TimerInv, Ready, Startable
<1>1. CASE start
  BY <1>1 DEF start, Begin
<1>2. CASE stop
  BY <1>2 DEF stop, Ready, StopLater, saved
<1>3. CASE connectorStop
  BY <1>3 DEF connectorStop, WindUp, flags, saved, history
<1>4. CASE TimerExpires
  BY <1>4 DEF TimerExpires, sessionVars, flags, saved, history
<1>5. CASE TimerHandler
  BY <1>5 DEF TimerHandler, restart, CallBackup, TryAgain, GiveBack, Rerun, Pause, Begin, Ready, sessionVars
<1>6. CASE StartedTooLate
  BY <1>6 DEF StartedTooLate, saved
<1>7. CASE StartedFirst
  BY <1>7 DEF StartedFirst, Connect, flags, saved
<1>8. CASE CallbackReturns
  BY <1>8 DEF CallbackReturns, Forget, RunIfAsked, Ready, sessionVars
<1>9. CASE StartedAgain
  BY <1>9 DEF StartedAgain, Connect, RunIfAsked, saved
<1>10. CASE TcpError
  BY <1>10 DEF TcpError, WindUp, flags, saved, history
<1>11. CASE Exited
  BY <1>11 DEF Exited, Refuse, Fail, Stopped, Exit, restart, CallBackup, TryAgain, GiveBack, Rerun, Pause
<1>12. CASE ExitedAgain
  BY <1>12 DEF ExitedAgain
<1>13. CASE UNCHANGED vars
  BY <1>13 DEF vars, sessionVars, flags, saved, history
<1> QED
  BY <1>1, <1>2, <1>3, <1>4, <1>5, <1>6, <1>7, <1>8, <1>9, <1>10, <1>11, <1>12, <1>13 DEF Next

LEMMA TimerStep ==
  ASSUME "hasty" \notin Habits, WaitInv, [Next]_vars
  PROVE  TimerInv'
<1> USE DEF WaitInv, SlotInv, BaseInv, TypeOK, FlagsOK, TimerInv, Startable
<1>1. CASE start
  BY <1>1 DEF start, Begin
<1>2. CASE stop
  BY <1>2 DEF stop, Ready, StopLater, saved
<1>3. CASE connectorStop
  BY <1>3 DEF connectorStop, WindUp, flags, saved, history
<1>4. CASE TimerExpires
  BY <1>4 DEF TimerExpires, sessionVars, flags, saved, history
<1>5. CASE TimerHandler
  BY <1>5 DEF TimerHandler, restart, CallBackup, TryAgain, GiveBack, Rerun, Pause, Begin, Ready, sessionVars
<1>6. CASE StartedTooLate
  BY <1>6 DEF StartedTooLate, saved
<1>7. CASE StartedFirst
  BY <1>7 DEF StartedFirst, Connect, flags, saved
<1>8. CASE CallbackReturns
  BY <1>8 DEF CallbackReturns, Forget, RunIfAsked, Ready, sessionVars
<1>9. CASE StartedAgain
  BY <1>9 DEF StartedAgain, Connect, RunIfAsked, saved
<1>10. CASE TcpError
  BY <1>10 DEF TcpError, WindUp, flags, saved, history
<1>11. CASE Exited
  BY <1>11 DEF Exited, Refuse, Fail, Stopped, Exit, restart, CallBackup, TryAgain, GiveBack, Rerun, Pause
<1>12. CASE ExitedAgain
  BY <1>12 DEF ExitedAgain
<1>13. CASE UNCHANGED vars
  BY <1>13 DEF vars, sessionVars, flags, saved, history
<1> QED
  BY <1>1, <1>2, <1>3, <1>4, <1>5, <1>6, <1>7, <1>8, <1>9, <1>10, <1>11, <1>12, <1>13 DEF Next

LEMMA RunStep ==
  ASSUME "hasty" \notin Habits, WaitInv, [Next]_vars
  PROVE  RunInv'
<1> USE DEF WaitInv, SlotInv, BaseInv, TypeOK, FlagsOK, TimerInv, RunInv, Ready, Startable
<1>1. CASE start
  BY <1>1 DEF start, Begin
<1>2. CASE stop
  BY <1>2 DEF stop, Ready, StopLater, saved
<1>3. CASE connectorStop
  BY <1>3 DEF connectorStop, WindUp, flags, saved, history
<1>4. CASE TimerExpires
  BY <1>4 DEF TimerExpires, sessionVars, flags, saved, history
<1>5. CASE TimerHandler
  BY <1>5 DEF TimerHandler, restart, CallBackup, TryAgain, GiveBack, Rerun, Pause, Begin, Ready, sessionVars
<1>6. CASE StartedTooLate
  BY <1>6 DEF StartedTooLate, saved
<1>7. CASE StartedFirst
  BY <1>7 DEF StartedFirst, Connect, flags, saved
<1>8. CASE CallbackReturns
  BY <1>8 DEF CallbackReturns, Forget, RunIfAsked, Ready, sessionVars
<1>9. CASE StartedAgain
  BY <1>9 DEF StartedAgain, Connect, RunIfAsked, saved
<1>10. CASE TcpError
  BY <1>10 DEF TcpError, WindUp, flags, saved, history
<1>11. CASE Exited
  BY <1>11 DEF Exited, Refuse, Fail, Stopped, Exit, restart, CallBackup, TryAgain, GiveBack, Rerun, Pause
<1>12. CASE ExitedAgain
  BY <1>12 DEF ExitedAgain
<1>13. CASE UNCHANGED vars
  BY <1>13 DEF vars, sessionVars, flags, saved, history
<1> QED
  BY <1>1, <1>2, <1>3, <1>4, <1>5, <1>6, <1>7, <1>8, <1>9, <1>10, <1>11, <1>12, <1>13 DEF Next

LEMMA SavedStep ==
  ASSUME Habits \cap {"hasty", "again"} = {}, KeeperInv, [Next]_vars
  PROVE  SavedInv'
<1> USE DEF KeeperInv, SavedInv, WaitInv, SlotInv, BaseInv, TypeOK, FlagsOK, TimerInv, Ready, Startable
<1>1. CASE start
  BY <1>1 DEF start, Begin
<1>2. CASE stop
  BY <1>2 DEF stop, Ready, StopLater, saved
<1>3. CASE connectorStop
  BY <1>3 DEF connectorStop, WindUp, flags, saved, history
<1>4. CASE TimerExpires
  BY <1>4 DEF TimerExpires, sessionVars, flags, saved, history
<1>5. CASE TimerHandler
  BY <1>5 DEF TimerHandler, restart, CallBackup, TryAgain, GiveBack, Rerun, Pause, Begin, Ready, sessionVars
<1>6. CASE StartedTooLate
  BY <1>6 DEF StartedTooLate, saved
<1>7. CASE StartedFirst
  BY <1>7 DEF StartedFirst, Connect, flags, saved
<1>8. CASE CallbackReturns
  BY <1>8 DEF CallbackReturns, Forget, RunIfAsked, Ready, sessionVars
<1>9. CASE StartedAgain
  BY <1>9 DEF StartedAgain, Connect, RunIfAsked, saved
<1>10. CASE TcpError
  BY <1>10 DEF TcpError, WindUp, flags, saved, history
<1>11. CASE Exited
  BY <1>11 DEF Exited, Refuse, Fail, Stopped, Exit, restart, CallBackup, TryAgain, GiveBack, Rerun, Pause
<1>12. CASE ExitedAgain
  BY <1>12 DEF ExitedAgain
<1>13. CASE UNCHANGED vars
  BY <1>13 DEF vars, sessionVars, flags, saved, history
<1> QED
  BY <1>1, <1>2, <1>3, <1>4, <1>5, <1>6, <1>7, <1>8, <1>9, <1>10, <1>11, <1>12, <1>13 DEF Next

-----------------------------------------------------------------------------
(* Theorems.                                                               *)

\* The invariant of every application.
THEOREM Base == Spec => []BaseInv
<1>1. Init => BaseInv
  BY InitBase
<1>2. BaseInv /\ [Next]_vars => BaseInv'
  BY TypeStep, CallbackStep DEF BaseInv
<1> QED
  BY <1>1, <1>2, PTL DEF Spec

\* Every state of the wrapper is well typed.
THEOREM TypeCorrect == Spec => []TypeOK
<1>1. BaseInv => TypeOK
  BY DEF BaseInv
<1> QED
  BY <1>1, Base, PTL

\* started() calls the callback at most once for a start(), whenever the
\* application starts and stops the wrapper.
THEOREM EstablishedOnceHolds == Spec => []EstablishedOnce
<1>1. BaseInv => EstablishedOnce
  BY DEF BaseInv, CallbackInv, EstablishedOnce
<1> QED
  BY <1>1, Base, PTL

\* The invariant of an application that waits for the end of a session.
THEOREM Waiting ==
  ASSUME "hasty" \notin Habits
  PROVE  Spec => []WaitInv
<1>1. Init => SlotInv /\ TimerInv /\ RunInv
  BY DEF Init, SessionInit, InitialStarted, SlotInv, TimerInv, RunInv
<1>2. WaitInv /\ [Next]_vars => WaitInv'
  BY TypeStep, CallbackStep, SlotStep, TimerStep, RunStep DEF WaitInv, BaseInv
<1>3. Init => WaitInv
  BY <1>1, InitBase DEF WaitInv
<1> QED
  BY <1>2, <1>3, PTL DEF Spec

\* The timer is never pending during an attempt, nor its handler queued.
THEOREM OneAttemptHolds ==
  ASSUME "hasty" \notin Habits
  PROVE  Spec => []OneAttempt
<1>1. WaitInv => OneAttempt
  BY DEF WaitInv, TimerInv, OneAttempt
<1> QED
  BY <1>1, Waiting, PTL

\* started() and restart() see to it that every connection is run, unless it
\* was lost while the first started callback had not returned.
THEOREM ConnectionIsRunUnlessLostHolds ==
  ASSUME "hasty" \notin Habits
  PROVE  Spec => []ConnectionIsRunUnlessLost
<1>1. WaitInv => ConnectionIsRunUnlessLost
  BY DEF WaitInv, RunInv, ConnectionIsRun, ConnectionIsRunUnlessLost
<1> QED
  BY <1>1, Waiting, PTL

\* The invariant of an application that starts the wrapper only when the exit
\* callback has returned.
THEOREM Keeping ==
  ASSUME Habits \cap {"hasty", "again"} = {}
  PROVE  Spec => []KeeperInv
<1>1. Init => SavedInv
  BY DEF Init, SessionInit, InitialStarted, SavedInv
<1>2. KeeperInv /\ [Next]_vars => SavedInv'
  BY SavedStep
<1>3. "hasty" \notin Habits
  OBVIOUS
<1>4. Spec => []WaitInv
  BY <1>3, Waiting
<1>5. WaitInv /\ SavedInv <=> KeeperInv
  BY DEF KeeperInv
<1> QED
  BY <1>1, <1>2, <1>4, <1>5, PTL DEF Spec

-----------------------------------------------------------------------------
(* The wrapper implements Keeper.                                          *)

\* Every step is one of the keeper, or is not seen.
LEMMA KeeperStep ==
  ASSUME Habits \cap {"hasty", "again"} = {}, KeeperInv, [Next]_vars
  PROVE  [K!KeeperNext]_(K!keeperVars)
<1> USE DEF KeeperInv, SavedInv, WaitInv, SlotInv, BaseInv, TypeOK, FlagsOK, CallbackInv,
            TimerInv, Ready, Startable,
            K!KeeperNext, K!keeperVars, K!TurnOn, K!Establish, K!Leave, K!Notify
<1>1. CASE start
  BY <1>1 DEF start, Begin
<1>2. CASE stop
  BY <1>2 DEF stop, Ready, StopLater, saved
<1>3. CASE connectorStop
  BY <1>3 DEF connectorStop, WindUp, flags, saved, history
<1>4. CASE TimerExpires
  BY <1>4 DEF TimerExpires, sessionVars, flags, saved, history
<1>5. CASE TimerHandler
  BY <1>5 DEF TimerHandler, restart, CallBackup, TryAgain, GiveBack, Rerun, Pause, Begin, Ready, sessionVars
<1>6. CASE StartedTooLate
  BY <1>6 DEF StartedTooLate, saved
<1>7. CASE StartedFirst
  BY <1>7 DEF StartedFirst, Connect, flags, saved
<1>8. CASE CallbackReturns
  BY <1>8 DEF CallbackReturns, Forget, RunIfAsked, Ready, sessionVars
<1>9. CASE StartedAgain
  BY <1>9 DEF StartedAgain, Connect, RunIfAsked, saved
<1>10. CASE TcpError
  BY <1>10 DEF TcpError, WindUp, flags, saved, history
<1>11. CASE Exited
  BY <1>11 DEF Exited, Refuse, Fail, Stopped, Exit, restart, CallBackup, TryAgain, GiveBack, Rerun, Pause
<1>12. CASE ExitedAgain
  BY <1>12 DEF ExitedAgain
<1>13. CASE UNCHANGED vars
  BY <1>13 DEF vars, sessionVars, flags, saved, history
<1> QED
  BY <1>1, <1>2, <1>3, <1>4, <1>5, <1>6, <1>7, <1>8, <1>9, <1>10, <1>11, <1>12, <1>13 DEF Next

\* Every behaviour of the wrapper is one of the abstract keeper: one session
\* from start() to stop(), one started callback and one exit callback.
THEOREM Refinement ==
  ASSUME Habits \cap {"hasty", "again"} = {}
  PROVE  Spec => ImplementsKeeper
<1>1. Init => K!KeeperInit
  BY DEF Init, InitialStarted, K!KeeperInit
<1>2. KeeperInv /\ [Next]_vars => [K!KeeperNext]_(K!keeperVars)
  BY KeeperStep
<1> QED
  BY <1>1, <1>2, Keeping, PTL DEF Spec, ImplementsKeeper, K!KeeperSpec

=============================================================================
