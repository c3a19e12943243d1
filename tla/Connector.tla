------------------------------ MODULE Connector -----------------------------
(***************************************************************************)
(* amqp::Connector (src/src/AmqpConnector.{hpp,cpp}): one connection to    *)
(* the broker and the transceivers that share it.                          *)
(*                                                                         *)
(* Everything runs on one thread, and most operations wait by running the  *)
(* event loop (run_one()) until a condition holds.  Whatever is dispatched *)
(* there - input from the broker, the function that stop() posts, a timer  *)
(* of the application that calls this object again - runs on top of the    *)
(* call that waits.  The variable `stack' holds the suspended calls, the   *)
(* innermost first; `rest' is the part of a loop over transceivers that    *)
(* has still to be visited.  Input is parsed by one read at a time, which  *)
(* is started again only when parse() has returned: what waits for an      *)
(* answer on top of parse() waits for ever.                                *)
(*                                                                         *)
(* The connection handler and the transceivers are the abstractions that   *)
(* AmqpConnectionHandler.tla and Transceiver.tla implement: the phases of  *)
(* Link and of TransceiverLifecycle.  The application may call from any    *)
(* handler that the loop dispatches and from callbacks under parse().      *)
(* m_amqpConnection is made and reset together with                        *)
(* m_connectionHandlerReady and is the same variable here.  Abstracted:    *)
(* addresses and names, send(), the two io_service::work sentinels,        *)
(* logging.                                                                *)
(***************************************************************************)
EXTENDS Naturals, Sequences

CONSTANTS
  Transceivers, \* the transceivers that may be created
  Habits,       \* what the application does beyond an orderly use, see below
  Faults,       \* "amqp": AMQP-CPP reports errors; "tcp": the socket fails
  MaxStarts,    \* bound on the calls of async_start() that take effect
  MaxStops,     \* bound on the calls of stop() that take effect
  MaxWaits      \* bound on the calls of open(), close() and run() that take effect

\* "again":  async_start() during an attempt to connect, or from the started
\*           callback of a connection that is gone.
\* "late":   open(), run() or close() after stop() or while the connection
\*           is being closed, and open() or run() while close() waits.
\* "nested": open(), run() or close() from a callback under parse().
ASSUME ParametersAssumption ==
  /\ Habits \subseteq {"again", "late", "nested"}
  /\ Faults \subseteq {"amqp", "tcp"}
  /\ MaxStarts \in Nat
  /\ MaxStops \in Nat
  /\ MaxWaits \in Nat

VARIABLES
  m_transceivers,           \* list of the transceivers
  m_exiting,                \* a regular stop closes the handler
  m_connectionHandlerReady, \* what ready() returns
  handler,   \* phase of m_connectionHandler, "none" before the first one
  amqpError, \* m_connectionHandler->amqp_error()
  phase,     \* phase of every transceiver
  stack,     \* suspended calls
  posted,    \* functions posted by stop() and not yet run
  starts,    \* history: calls of async_start() that took effect
  stops,     \* history: calls of stop() by the application that took effect
  waits,     \* history: calls of open(), close() and run() that took effect
  asked,     \* history: the application called stop() since async_start()
  nested,    \* history: a close began during a close since async_start()
  revived,   \* history: transceivers that stop() began anew, until they end or fail
  dangling,  \* history: a handler was destroyed with its own code pending
  exits,     \* history: calls of m_exitCb since async_start()
  exitCode   \* history: the code of the last one

own     == <<m_exiting, m_connectionHandlerReady>>
link    == <<handler, amqpError, nested, dangling>>
calls   == <<starts, stops, waits, asked>>
outcome == <<exits, exitCode>>
vars    == <<m_transceivers, own, link, phase, revived, stack, posted, calls,
             outcome>>

HandlerPhase == {"none", "down", "opening", "up", "closing"}
Phase        == {"ended", "starting", "ready", "stopping"}

\* Mutant: the loops of open() and run() do not ask is_running().
Mut_Settled == [await |-> {"ready"}, close |-> {"ended"}, stop |-> {"ended"}]

\* Loops over transceivers, and the phases in which they leave one: "await"
\* in open() and run(), "close" in close(), "stop" in the posted function.
Settled == [await |-> {"ready", "ended"}, close |-> {"ended"}, stop |-> {"ended"}]

\* Besides: parse(), the started callback, the loop of start(), and the loop
\* in which the handler waits for its socket before it calls onShutdown().
Kind  == DOMAIN Settled \cup {"parse", "started", "start", "wait"}
Frame == [kind: Kind, rest: Seq(Transceivers)]

FlagsOK ==
  /\ m_exiting \in BOOLEAN
  /\ m_connectionHandlerReady \in BOOLEAN
  /\ amqpError \in BOOLEAN
  /\ asked \in BOOLEAN
  /\ nested \in BOOLEAN
  /\ dangling \in BOOLEAN

\* The type invariant.
TypeOK ==
  /\ FlagsOK
  /\ m_transceivers \in Seq(Transceivers)
  /\ handler \in HandlerPhase
  /\ phase \in [Transceivers -> Phase]
  /\ revived \in SUBSET Transceivers
  /\ stack \in Seq(Frame)
  /\ posted \in Nat
  /\ starts \in Nat
  /\ stops \in Nat
  /\ waits \in Nat
  /\ exits \in Nat
  /\ exitCode \in {"none", "eNormal", "eBrokerConnectError", "eAmqpError"}

\* Mutant: m_connectionHandler is a plain pointer that is not initialised.
Mut_InitialHandler == "uninitialised"

InitialHandler == "none"

Init ==
  /\ m_transceivers = <<>>
  /\ m_exiting = FALSE
  /\ m_connectionHandlerReady = FALSE
  /\ handler = InitialHandler
  /\ amqpError = FALSE
  /\ phase = [t \in Transceivers |-> "ended"]
  /\ revived = {}
  /\ stack = <<>>
  /\ posted = 0
  /\ starts = 0
  /\ stops = 0
  /\ waits = 0
  /\ asked = FALSE
  /\ nested = FALSE
  /\ dangling = FALSE
  /\ exits = 0
  /\ exitCode = "none"

-----------------------------------------------------------------------------
(* The stack of suspended calls.                                           *)

Elements(s) == {s[i] : i \in DOMAIN s}
Listed      == Elements(m_transceivers)
Running     == {t \in Listed : phase[t] # "ended"}

Top(kind)        == stack # <<>> /\ Head(stack).kind = kind
Suspended(kind)  == \E i \in DOMAIN stack : stack[i].kind = kind
Push(kind, rest) == stack' = <<[kind |-> kind, rest |-> rest]>> \o stack
Pop              == stack' = Tail(stack)

\* The innermost call is a loop whose condition still holds.
Spinning ==
  \/ Top("wait") /\ handler = "closing"
  \/ Top("start") /\ handler \in {"opening", "closing"}
  \/ /\ stack # <<>>
     /\ Head(stack).rest # <<>>
     /\ phase[Head(Head(stack).rest)] \notin Settled[Head(stack).kind]

\* The event loop can dispatch a handler.
Dispatching == stack = <<>> \/ Spinning

\* The application can call: from a handler of its own, or from a callback.
Calling ==
  \/ Dispatching
  \/ Top("started")
  \/ Top("parse") /\ handler \in {"up", "closing"}

\* An orderly application makes no call that waits from under parse().
CanWait ==
  /\ Calling
  /\ Top("parse") => "nested" \in Habits

\* An orderly application starts and closes transceivers of a connection that
\* is up and that it has not stopped, and starts none while it waits for the
\* end of one: close() would sleep through that end.
Timely   == (handler = "up" /\ ~asked) \/ "late" \in Habits
Openable == Timely /\ (Suspended("close") => "late" \in Habits)

-----------------------------------------------------------------------------
(* What several operations share.                                          *)

\* Transceiver::start().
Started(ts) ==
  /\ phase' = [t \in Transceivers |-> IF t \in ts THEN "starting" ELSE phase[t]]
  /\ UNCHANGED revived

\* Mutant: StopTransit has no entry for eReady.
Mut_Stopped(ts) ==
  /\ phase' = [t \in Transceivers |->
                 IF t \in ts /\ phase[t] \in {"starting", "ready"} THEN "starting" ELSE phase[t]]
  /\ UNCHANGED revived

\* Transceiver::stop().  It ends one that has not opened its channel, and begins
\* one anew that is opening a second channel (eRecreateChannel): that one goes
\* on to become ready.
Stopped(ts) ==
  LET starting == {t \in ts : phase[t] = "starting"} IN
  \E ended, anew \in SUBSET starting :
    /\ ended \cap anew = {}
    /\ phase' = [t \in Transceivers |->
                   IF t \in ended THEN "ended"
                   ELSE IF t \in ts \ anew /\ phase[t] \in {"starting", "ready"}
                   THEN "stopping" ELSE phase[t]]
    /\ revived' = (revived \ ts) \cup anew

\* Mutant: eAmqpError without drop().
Mut_Dropped == UNCHANGED <<phase, revived>>

\* Transceiver::drop() of all.
Dropped ==
  /\ phase' = [t \in Transceivers |-> IF t \in Listed THEN "ended" ELSE phase[t]]
  /\ revived' = revived \ Listed

\* Mutant: stop() does not post the function.
Mut_StopAll == Stopped(Listed) /\ UNCHANGED posted

\* stop() when ready(): every transceiver, then the posted function.
StopAll == Stopped(Listed) /\ posted' = posted + 1

Exit(code) ==
  /\ m_connectionHandlerReady' = FALSE
  /\ exits' = exits + 1
  /\ exitCode' = code

\* The callback of the handler whose connection is gone or was never there.
onShutdown ==
  /\ \/ /\ m_exiting
        /\ Exit("eNormal")
        /\ UNCHANGED <<phase, revived, posted>>
     \/ /\ ~m_exiting
        /\ ~m_connectionHandlerReady
        /\ Exit("eBrokerConnectError")
        /\ UNCHANGED <<phase, revived, posted>>
     \/ /\ ~m_exiting
        /\ m_connectionHandlerReady
        /\ amqpError
        /\ Dropped
        /\ Exit("eAmqpError")
        /\ UNCHANGED posted
     \/ /\ ~m_exiting
        /\ m_connectionHandlerReady
        /\ ~amqpError
        /\ StopAll
        /\ UNCHANGED <<m_connectionHandlerReady, outcome>>
  /\ UNCHANGED m_exiting

\* The handler shuts its socket down and waits in its loop.
BeginClose ==
  /\ handler' = "closing"
  /\ nested' = (nested \/ handler = "closing")
  /\ UNCHANGED dangling

-----------------------------------------------------------------------------
(* Calls by the application.                                               *)

transceiver(t) ==
  /\ Calling
  /\ t \notin Listed
  /\ m_transceivers' = <<t>> \o m_transceivers
  /\ UNCHANGED <<own, link, phase, revived, stack, posted, calls, outcome>>

\* Only of a transceiver that has ended and that no loop has still to visit.
remove(t) ==
  /\ Calling
  /\ t \in Listed
  /\ phase[t] = "ended"
  /\ \A i \in DOMAIN stack : t \notin Elements(stack[i].rest)
  /\ \E i \in DOMAIN m_transceivers :
       /\ m_transceivers[i] = t
       /\ m_transceivers' = SubSeq(m_transceivers, 1, i - 1)
                              \o SubSeq(m_transceivers, i + 1, Len(m_transceivers))
  /\ UNCHANGED <<own, link, phase, revived, stack, posted, calls, outcome>>

\* open(), close() and run() end in such a loop.
Wait(kind, ts) ==
  /\ waits < MaxWaits
  /\ waits' = waits + 1
  /\ Push(kind, ts)
  /\ UNCHANGED <<m_transceivers, own, link, posted, starts, stops, asked, outcome>>

open(t) ==
  /\ CanWait
  /\ Openable
  /\ t \in Listed \ Running
  /\ m_connectionHandlerReady
  /\ Started({t})
  /\ Wait("await", <<t>>)

close(t) ==
  /\ CanWait
  /\ Timely
  /\ t \in Running
  /\ Stopped({t})
  /\ Wait("close", <<t>>)

run ==
  /\ CanWait
  /\ Openable
  /\ m_connectionHandlerReady
  /\ Started(Listed \ Running)
  /\ Wait("await", m_transceivers)

\* Mutant: async_start() does not ask whether there is a connection.
Mut_NotStarted == TRUE

NotStarted == ~m_connectionHandlerReady

\* Mutant: async_start() does not clear m_exiting.
Mut_ForgetStop == UNCHANGED m_exiting

ForgetStop == m_exiting' = FALSE

\* The new handler replaces the old one, whose destructor closes it: an attempt
\* that is not complete ends in onShutdown().  A destroyed handler leaves its
\* resolve or connect, and its frames on the stack, with a pointer to nothing.
\* Functions of stop() run before whatever the application queues after them.
Replace ==
  /\ NotStarted
  /\ starts < MaxStarts
  /\ posted = 0
  /\ handler = "opening" \/ Top("started") => "again" \in Habits
  /\ ForgetStop
  /\ m_connectionHandlerReady' = FALSE
  /\ handler' = "opening"
  /\ amqpError' = FALSE
  /\ nested' = FALSE
  /\ dangling' = (handler = "opening" \/ Suspended("wait")
                                      \/ Suspended("parse") \/ Suspended("started"))
  /\ \/ handler = "opening" /\ exits' = 1 /\ exitCode' = "eBrokerConnectError"
     \/ handler # "opening" /\ exits' = 0 /\ exitCode' = "none"
  /\ starts' = starts + 1
  /\ asked' = FALSE
  /\ UNCHANGED <<m_transceivers, phase, revived, posted, stops, waits>>

async_start == Calling /\ Replace /\ UNCHANGED stack

start == CanWait /\ Replace /\ Push("start", <<>>)

stop ==
  /\ Calling
  /\ m_connectionHandlerReady
  /\ stops < MaxStops
  /\ StopAll
  /\ stops' = stops + 1
  /\ asked' = TRUE
  /\ UNCHANGED <<m_transceivers, own, link, stack, starts, waits, outcome>>

-----------------------------------------------------------------------------
(* The handler: its connection comes up, input, failures.                  *)

onConnected == m_connectionHandlerReady' = TRUE /\ UNCHANGED m_exiting

Connected ==
  /\ Dispatching
  /\ handler = "opening"
  /\ handler' = "up"
  /\ onConnected
  /\ Push("started", <<>>)
  /\ UNCHANGED <<m_transceivers, amqpError, nested, dangling, phase, revived, posted,
                 calls, outcome>>

NotConnected ==
  /\ Dispatching
  /\ handler = "opening"
  /\ handler' = "down"
  /\ onShutdown
  /\ UNCHANGED <<m_transceivers, amqpError, nested, dangling, stack, calls>>

\* A chunk of input, also one that arrived before the socket was shut down.
Input ==
  /\ Dispatching
  /\ handler \in {"up", "closing"}
  /\ ~Suspended("parse")
  /\ Push("parse", <<>>)
  /\ UNCHANGED <<m_transceivers, own, link, phase, revived, posted, calls, outcome>>

\* An answer or an error for a transceiver is in the input.
Answer(t) ==
  /\ Top("parse")
  /\ handler \in {"up", "closing"}
  /\ phase[t] # "ended"
  /\ \E p \in {"ready", "stopping", "ended"} :
       /\ p = "ready" => phase[t] = "starting"
       /\ p = "stopping" => phase[t] \in {"starting", "ready"}
       /\ phase' = [phase EXCEPT ![t] = p]
       /\ revived' = IF p = "ready" THEN revived ELSE revived \ {t}
  /\ UNCHANGED <<m_transceivers, own, link, stack, posted, calls, outcome>>

\* The started callback or parse() returns.
CallbackReturns ==
  /\ Top("started") \/ Top("parse")
  /\ Pop
  /\ UNCHANGED <<m_transceivers, own, link, phase, revived, posted, calls, outcome>>

\* Mutant: ConnectionHandler::onError() does not set m_amqpError.
Mut_Blame == UNCHANGED amqpError

Blame == amqpError' = TRUE

AmqpError ==
  /\ "amqp" \in Faults
  /\ Top("parse")
  /\ handler \in {"up", "closing"}
  /\ Blame
  /\ BeginClose
  /\ Push("wait", <<>>)
  /\ UNCHANGED <<m_transceivers, own, phase, revived, posted, calls, outcome>>

\* A read or a write fails.  Neither AMQP-CPP nor the transceivers are told.
TcpError ==
  /\ "tcp" \in Faults
  /\ Dispatching
  /\ handler = "up"
  /\ BeginClose
  /\ Push("wait", <<>>)
  /\ UNCHANGED <<m_transceivers, own, amqpError, phase, revived, posted, calls, outcome>>

\* Both operations on the socket have completed: the handler's loop ends.
FinishClose ==
  /\ Top("wait")
  /\ handler' = "down"
  /\ Pop
  /\ onShutdown
  /\ UNCHANGED <<m_transceivers, amqpError, nested, dangling, calls>>

-----------------------------------------------------------------------------
(* The loops, and the function that stop() posts.                          *)

Advance ==
  /\ stack # <<>>
  /\ ~Spinning
  /\ \/ /\ Head(stack).rest # <<>>
        /\ stack' = <<[Head(stack) EXCEPT !.rest = Tail(@)]>> \o Tail(stack)
     \/ /\ Head(stack).rest = <<>>
        /\ Head(stack).kind \in {"await", "close", "start"}
        /\ Pop
  /\ UNCHANGED <<m_transceivers, own, link, phase, revived, posted, calls, outcome>>

\* The loop of the posted function.
Stopping == m_transceivers

RunPosted ==
  /\ Dispatching
  /\ posted > 0
  /\ posted' = posted - 1
  /\ Push("stop", Stopping)
  /\ UNCHANGED <<m_transceivers, own, link, phase, revived, calls, outcome>>

\* Mutant: the posted function does not ask whether the exit callback was called.
Mut_Unreported == TRUE

\* "handler's shutdown callback will not called"
Unreported == m_connectionHandlerReady

\* The posted function behind its loop.  Nothing follows the handler's stop(),
\* so the function's frame gives way to the handler's loop.
PostedEnds ==
  /\ Top("stop")
  /\ Head(stack).rest = <<>>
  /\ \/ /\ handler = "down"
        /\ Unreported
        /\ Exit("eNormal")
        /\ Pop
        /\ UNCHANGED <<m_exiting, link>>
     \/ /\ handler = "down"
        /\ ~Unreported
        /\ Pop
        /\ UNCHANGED <<own, link, outcome>>
     \/ /\ handler # "down"
        /\ m_exiting' = TRUE
        /\ BeginClose
        /\ stack' = <<[kind |-> "wait", rest |-> <<>>]>> \o Tail(stack)
        /\ UNCHANGED <<amqpError, m_connectionHandlerReady, outcome>>
  /\ UNCHANGED <<m_transceivers, phase, revived, posted, calls>>

-----------------------------------------------------------------------------

\* After an access to a destroyed handler nothing more is known.
Next ==
  /\ ~dangling
  /\ \/ \E t \in Transceivers :
          transceiver(t) \/ remove(t) \/ open(t) \/ close(t) \/ Answer(t)
     \/ run
     \/ async_start
     \/ start
     \/ stop
     \/ Connected
     \/ NotConnected
     \/ Input
     \/ CallbackReturns
     \/ AmqpError
     \/ TcpError
     \/ FinishClose
     \/ Advance
     \/ RunPosted
     \/ PostedEnds

Spec == Init /\ [][Next]_vars

\* What the innermost suspended call does when it can.
Return == CallbackReturns \/ Advance \/ PostedEnds

\* The broker answers: input comes as long as a transceiver waits for it, and
\* its request is not passed over in every chunk.
AwaitedInput == Running # {} /\ Input
Settle(t) ==
  /\ phase[t] \in {"starting", "stopping"}
  /\ Answer(t)
  /\ phase'[t] \in {"ready", "ended"}

\* The thread runs; asio dispatches what is posted and completes what was
\* started, also when input keeps interrupting; a socket that is shut down has
\* no more than a little input left.
Fairness ==
  /\ WF_vars(Return)
  /\ WF_vars(Connected \/ NotConnected)
  /\ SF_vars(FinishClose)
  /\ SF_vars(RunPosted)
  /\ SF_vars(AwaitedInput)
  /\ \A t \in Transceivers : SF_vars(Settle(t))

FairSpec == Spec /\ Fairness

-----------------------------------------------------------------------------
(* Safety.                                                                 *)

\* AmqpConnector.hpp:220-222: when ready() has become false every transceiver
\* has stopped and the handler is not connected.  An application that follows
\* the documentation destroys its transceivers then.
NotReadyMeansStopped ==
  ~m_connectionHandlerReady => Running = {} /\ handler # "up"

\* The exit callback runs once for a call of async_start(), unless a close of
\* the handler began while it was waiting in another one.
ExitOnceUnlessNested == ~nested => exits <= 1

\* AmqpConnector.hpp:218-219: the exit callback is called when the connection
\* has been closed.
ExitOnce == exits <= 1

\* AmqpConnector.hpp:241-243: before eAmqpError is reported every transceiver is
\* dropped, and none runs until the next start.
DroppedOnError == exitCode = "eAmqpError" => Running = {}

\* An orderly application never replaces a handler whose code is suspended or
\* whose socket operations are outstanding.
NoDangling == ~dangling

\* AmqpConnector.hpp:239-243: eNormal is the code of a regular close, eAmqpError
\* that of an error while working with the broker.
NormalMeansStopped == exitCode = "eNormal" => asked

\* AmqpConnector.hpp:188-189: eBrokerConnectError reports an attempt that failed.
RefusedMeansOver == exitCode = "eBrokerConnectError" => handler # "opening"

-----------------------------------------------------------------------------
(* Refinement and composition.                                             *)

SessionPhase ==
  IF m_connectionHandlerReady
  THEN IF asked \/ handler # "up" THEN "stopping" ELSE "up"
  ELSE IF handler = "opening" THEN "connecting" ELSE "idle"

S == INSTANCE Session WITH session <- SessionPhase

\* The connector implements the abstract session that its owner relies on
\* (AmqpConnector.hpp:32-37, 239-243), up to the first close of the handler that begins while
\* another one waits (AmqpConnectionHandler.cpp:219).
ImplementsSessionUnlessNested ==
  S!SessionInit /\ [][nested' \/ S!SessionNext]_(S!sessionVars)

H == INSTANCE Link WITH
  phase <- IF handler = "none" THEN "down" ELSE handler,
  queue <- <<>>, submitted <- 0, wire <- 0

\* The connector opens a link that is down and closes one that is not: it never
\* replaces the handler of a connection by that of an attempt.
HandlerFollowsLink == H!LinkSpec

L(t) == INSTANCE TransceiverLifecycle WITH
  phase <- phase[t], exits <- IF phase[t] = "ended" THEN 1 ELSE 0

\* Whatever calls and answers are interleaved, a transceiver goes through the
\* phases that Transceiver.tla implements.
TransceiversFollowLifecycle ==
  [][\A t \in Transceivers : [L(t)!LifeNext]_(phase[t])]_phase

-----------------------------------------------------------------------------
(* Liveness.                                                               *)

\* stop() came just before an error of AMQP: the posted function waits for its
\* transceivers in the loop of the handler's close, above parse().
Raced ==
  /\ Running # {}
  /\ \E i, j \in DOMAIN stack :
       i < j /\ stack[i].kind = "stop" /\ stack[j].kind = "wait"

\* AmqpConnector.hpp:218-222: what stop() began ends, with the exit callback.
StopCompletes == m_connectionHandlerReady /\ asked ~> ~m_connectionHandlerReady

\* A transceiver is at work that was in eRecreateChannel when stop() was called
\* and that stop() has therefore begun anew (AmqpTransceiver.cpp:151).
Revived == revived # {}

\* What stop() began ends with the exit callback, with two exceptions: the
\* posted function (AmqpConnector.cpp:153) has run into an error of AMQP as Raced
\* says, or it waits for a transceiver that its stop() has begun anew and that
\* works on for ever.
StopCompletesUnlessRacedOrRevived ==
  m_connectionHandlerReady /\ asked
    ~> ~m_connectionHandlerReady \/ Raced \/ []Revived

\* AmqpConnector.hpp:239-243: a connection that breaks is reported.
BreakIsReported == handler \in {"closing", "down"} ~> ~m_connectionHandlerReady

\* A connection that breaks is reported (onShutdown, AmqpConnector.cpp:237), unless
\* the report waits below a posted function as Raced says.
BreakIsReportedUnlessRaced ==
  handler \in {"closing", "down"} ~> ~m_connectionHandlerReady \/ Raced

\* open(), close(), run(), start() and the posted function return.
CallsReturn == stack # <<>> ~> stack = <<>>

\* Every call that waits in a loop over run_one() returns (AmqpConnector.cpp:55, 67,
\* 110, 134, 158), unless it waits below a posted function as Raced says, or for
\* a transceiver that its stop() has begun anew and that works on for ever.
CallsReturnUnlessRacedOrRevived ==
  stack # <<>> ~> stack = <<>> \/ Raced \/ []Revived

=============================================================================
