# Formal model of amqpasio

TLA+ modules, TLC configurations and TLAPS proofs for amqpasio, the wrapper of
AMQP-CPP on boost::asio in `src/`.  Paths are relative to the repository
(`src/src/...` in PROJECT.json); line numbers are those of the modelled commit.

## 1. Inventory

The library is single-threaded: the application runs one `io_service`, every
operation starts an asynchronous request or installs a callback, and the
callbacks run state machines.  Two things make it hard.  Several methods *spin
the event loop from inside a callback* (`run_one()` in a loop), so any handler
may run in the middle of any such method.  And callbacks carry no identity but
`this`: whether an answer still means anything is told from `m_state`.

| Component | State it keeps | Operations | Talks to |
|---|---|---|---|
| `ConnectionHandler` | `m_state`, buffers, `m_connection`, flags of the outstanding read and write | `start`, `stop`, `onData`, `onError`, `onClosed`, completions of resolve, connect, read, write | the socket; AMQP-CPP (`parse()` calls back); the Connector (`m_connectedCb`, `m_shutdownCb`) |
| `Transceiver` | `m_state`, `m_channel`, queue name, `m_queueExist`, consumer tag, exit code | `start`, `stop`, `drop`, `send`, answers of the broker | an AMQP channel; the application (`m_onExit`, `m_onMessage`) |
| `Connector` | list of transceivers, handler, AMQP connection, `m_exiting`, `m_connectionHandlerReady` | `transceiver`, `open`, `close`, `remove`, `async_start`, `start`, `run`, `stop`, `onConnected`, `onShutdown` | owns the other two; the application |
| `AutoReconnect` | `m_started`, `m_needStop`, `m_rerun`, saved callback, timer | `start`, `stop`, `started`, `restart` | wraps a Connector |
| `JsonConverter` | none | `ConvertToJson`, `ConvertFromJson` | RapidJSON |

What is hard, and what makes each correct:

- **ConnectionHandler.**  A close waits in `while (m_readReq || m_writeReq)
  m_service.run_one()` (AmqpConnectionHandler.cpp:219), from a user call, from
  a completion handler, or from below `parse()`, which is itself below
  `onRead()`.  During the wait input is still parsed, output still accepted and
  closes still begun.  Correct: one operation per direction at a time, nothing
  used after it was cleared, output in order, no stall, a close that ends,
  nothing left of an old connection but an opening that `stop()` interrupted,
  one notification.
- **Transceiver.**  A dozen requests in sequence, each with a success and an
  error path; `stop()` in the middle of any; channels replaced while they have
  answers outstanding.  Correct: ready means ready, the broker is left as it
  was found, one exit callback, no null pointer, always an end.
- **Connector.**  Nested loops over `is_running()`, a posted function that
  closes and may run in any of them, `onShutdown()` from four situations.
  Correct: the exit callback once and with the right code, no loop without an
  end, no transceiver left running, no handler destroyed in use.
- **AutoReconnect.**  Races of `stop()` with the timer, with an attempt in
  progress and with its own callbacks; a callback slot that two owners swap.
  Correct: reconnects until stopped, one attempt at a time, every connection
  run, the saved exit callback exactly once per `start()`.
- **JsonConverter.**  The output document is null unless a JSON message parsed.

PROJECT.json lists the hazards one by one, at the line where each bites.

## 2. Plan

1. `Link`, `AmqpConnectionHandler`, its runs and its proofs - done.
2. `TransceiverLifecycle`, `Transceiver` and its runs - done.
3. `Session`, `Connector` and its runs - done.
4. `Keeper`, `AutoReconnect` and its runs - done.
5. `JsonConverter` - done.
6. `AutoReconnect_proofs`, `Connector_proofs`: every safety property of the runs
   and both refinements - done.
7. `Transceiver_proofs`: types, pointers, unguarded callbacks, and the lifecycle
   of a receiver - done.
8. `TransceiverBroker_proofs`: readiness, deliveries and what is left in the
   broker - done.
9. To do: the connector's theorems with the habits they do not need to exclude
   (section 6.6), and `BindingUndone` with slow channels but no other client.

The components are stacked by their abstract specifications: the handler
implements `Link` and the transceiver `TransceiverLifecycle`, and `Connector` is
composed of machines that follow exactly these; up to nested closes it
implements `Session`, and
`AutoReconnect` extends that module, so its connector is the abstract one.

## 3. Modules

| Module | What it is |
|---|---|
| `Link` | abstract: opening and closing, and an output stream in order |
| `AmqpConnectionHandler` | the connection handler |
| `MCConnectionHandler` | its instance for TLC |
| `AmqpConnectionHandler_proofs` | inductive invariant, safety, refinement |
| `TransceiverLifecycle` | abstract: ended, starting, ready, stopping, one exit |
| `Transceiver` | the transceiver, its channels and the queue in the broker |
| `MCTransceiver` | its instance for TLC |
| `Transceiver_proofs` | the machine and its channels: invariant, lifecycle |
| `TransceiverBroker_proofs` | the machine and the broker: readiness, tidying up |
| `Session` | abstract: idle, connecting, up, stopping, one exit per session |
| `Connector` | the connector over a handler and transceivers |
| `MCConnector` | its instance for TLC |
| `Connector_proofs` | invariants for every and for an orderly application, refinement |
| `Keeper` | abstract: keeps a session from start to stop, notifies once |
| `AutoReconnect` | the wrapper over an abstract session |
| `MCAutoReconnect` | its instance for TLC |
| `AutoReconnect_proofs` | invariants of the wrapper, refinement |
| `JsonConverter` | the two conversions and an application that uses them |

Operators named `Mut_...` stand before the definition they are a broken variant
of; no specification uses them.  PROJECT.json pairs each with the property that
detects it.

### 3.1 AmqpConnectionHandler

Variables with a source name are the members of the class.  `stack` holds the
C++ frames of the object that are suspended with more to do: `"shutdown"`, a
close in its wait loop, and `"read"`, an `onRead()` inside `parse()`.  Only the
innermost frame can go on.  A step is taken by

- the event loop, when `Dispatching`: no frame, a close that still has to wait,
  or an application callback under `parse()` that calls one of the Connector's
  methods that spin the loop;
- AMQP-CPP inside `parse()`, when `Parsing`;
- a frame that returns: `FinishShutdown`, `Parsed`.

The state machine's entry into a state is an operator (`BeginShutdown`,
`StartConnect`, `NotConnected`) used in the action of the handler that causes
it.  `resolving` and `connecting` hold the numbers of the `start()` calls whose
operation is outstanding, since `stop()` cancels neither.  `reads` and `writes`
count what asio really has outstanding, against the flags that the code trusts.
`m_inBuf` says whether there is input that was not consumed.
A buffer is its number on its connection.  `expected()`, `maxFrame()` and how
many frames a `parse()` consumes are a choice: after input `onRead()` either
reads on or parses, and a parse calls back any number of times and leaves any
part of the input.

`StoppedIsQuiet` says what is left when the owner is told that a connection has
ended: no read, no write, no buffered input or output, no AMQP connection.  An
`async_resolve` or `async_connect` may be left, in one case: the wait of a close
is for reads and writes only, so a `stop()` in `eResolving` or `eConnecting`
leaves the one that is outstanding (`abandoned` records the number of the
attempt).  Its completion can move a later attempt (`OwnAttempt`, section 5),
which then has openings outstanding behind its back as well, so all that can be
said is that none is outstanding in `eNotConnected` unless some attempt up to
that one was abandoned.

A call of `start()` from a callback under a suspended frame is left out: the
Connector calls it on a fresh handler from `async_start()` only.

### 3.2 Transceiver

Each state issues a request when it is entered; `EnterX(chs)` is that entry,
with the channels `chs` as the callback leaves them, and a chain of states that
fall through (`eShutdown` to `eUnbindQueue` to `eCloseChannel`) is a chain of
these operators.  `onX` actions are the success callbacks, `onRequestError`,
`onConsumerError` and `onChannelError` the error callbacks.  What is
outstanding is kept per channel in `chan`, by the request and hence by the
closures that wait for it, because those closures do not know their channel.
`stoppedIn` is history: the state in which the last `stop()` that had an effect
found the machine.
The two history variables of the broker, `queue` and `bound`, are what is to be
cleaned up; the exchange is declared with autodelete and is not tracked.

External behaviour assumed (AMQP-CPP at least 3.0.0, CMakeLists.txt:43):

- answers on one channel come in the order of the requests;
- `onReady()` comes later than its installation and once;
- a failed channel reports first to its outstanding requests in order, then to
  its consumer, then to `Channel::onError()`, and nothing else happens in
  between; a request on a failed channel fails before anything else;
- a channel that is dropped or replaced is closed behind its outstanding
  requests, whose callbacks still run;
- a channel fails at its opening only from the start or with its connection;
- a destroyed connection silences its channels.

`Interference` selects what the broker and others do beyond that:
`othersDeclare` (another client declares the queue), `checkRefused` (the
passive declaration of an existing queue fails), `slowChannels` (channels are
served independently; without it, a channel that was dropped is served before
the current one).

### 3.3 Connector

Most methods of the connector wait by running the event loop, so `stack` holds
the calls that are suspended, the innermost first: `"await"` (`open()`,
`run()`), `"close"`, `"start"`, `"stop"` (the function that `stop()` posts),
`"started"` (the started callback), `"parse"` (`onRead()` inside AMQP-CPP) and
`"wait"` (the handler's close).  `rest` is what a loop over transceivers has
still to visit; `Advance` is a loop whose condition has become false.  The event
loop dispatches something - input, the posted function, a completion, a timer
or signal of the application - exactly when the stack is empty or its innermost
call is in such a loop: `Dispatching`.  Everything else is what the code does in
one go, exit callbacks included.  Two facts of the environment make the nesting
dangerous and are in the model: there is one read at a time, started again only
when `parse()` has returned (`Input` needs that no `"parse"` is suspended), and
the loop of a close returns control to the close that it is in only when all
calls on top of it have returned.

`handler` is a phase of `Link`, `phase[t]` a phase of `TransceiverLifecycle`;
`HandlerFollowsLink` and `TransceiversFollowLifecycle` check that the connector
moves them only as those specifications allow, which the detailed modules
implement.  The exception is taken from there too: a handler may report the end
of nested closes twice, and in `Connector` each of them calls `onShutdown`.
`Stopped` is `Transceiver::stop()` with its defect: of the transceivers that are
starting, some end at once (no channel yet), some go to the shutdown, and some -
those in `eRecreateChannel`, see `StopSticks` in section 5 - begin anew and go
on to become ready.  `revived` is the set of these, until they end or fail;
`Revived` says that there is one.  Safety and the refinements hold with them;
what waits for their end does not come to its own, hence the exception
`[]Revived` in the liveness properties.

What the application does is split in two.  The orderly one opens and closes
transceivers of a connection that is up and not being stopped, waits for
nothing from under `parse()`, and calls `async_start()` when no attempt is
going on.  `Habits` adds what the documentation does not forbid: `"again"`,
`"late"`, `"nested"`.  `Faults` adds errors that AMQP-CPP reports and errors of
TCP.  Two contracts are guards whatever the habits: `remove()` only of a
transceiver that has ended and that no suspended loop has still to visit, and
`Replace` needs `posted = 0`, because what an application queues after `stop()`
runs after the posted function.

`asked`, `nested`, `revived`, `dangling`, `exits`, `exitCode` are history.  `dangling` says
that a handler was destroyed with its frames or operations pending; nothing is
modelled after that (the outcome of such an access is arbitrary), and the runs
ask whether it can come to it.

### 3.4 AutoReconnect

`session` of `Session` is the connector; `m_exitCb` is whose exit callback it
has, the application's or `restart()`.  `restart(code, timer)` is the body of the
method, called by `Exited` (the connector ends) and by an attempt that is
replaced.  `m_timer` distinguishes a timer that is armed, which `stop()` cancels,
from one whose handler is queued, which it does not.  The started callback calls
`run()`, as the examples do, and is not atomic (`StartedFirst`,
`CallbackReturns`): the connector may exit, and the application may call
`stop()`, in between.  Another connection cannot come up in between, because the
wait in `run()` ends with the transceivers, a second before the timer.  `Habits`
are `"hasty"` (start before the end of the last session), `"again"` (start from
the exit callback) and `"outside"` (stopping the connector itself); `Faults` is
the eNormal that TCP causes.  `Garbage` is what a flag would hold that the
constructor left out; only a mutant uses it.

### 3.5 JsonConverter

`ConvertToJson` and `ConvertFromJson` are operators over messages that consist
of a content type and a document or garbage.

## 4. Runs

| Run | Configuration | Shows |
|---|---|---|
| `handler` | 2 starts, 3 buffers, 2 chunks of input, 3 frames below a nested stop | all properties of the handler, with liveness and refinement |
| `handler_own_attempt` | same | violation: a stale completion moves the machine |
| `transceiver` | both roles, no interference, 2 starts, 2 stops | readiness, own messages only, tidying up, liveness |
| `receiver_hostile` | receiver, all interference, 2 starts, 2 stops | safety that holds whatever the broker does, and the lifecycle |
| `transceiver_stop_sticks` | receiver, 1 start, 1 stop | violation: stop restarts |
| `connector` | orderly, AMQP errors, 2 starts, 1 stop, 2 waiting calls | liveness: stops complete, losses are reported, calls return |
| `connector_faults` | orderly, AMQP and TCP errors, 2 starts, 2 stops, 3 waiting calls | safety; what a second exit needs; refinement of `Session` |
| `connector_hostile` | all habits and faults, 2 starts, 2 stops, 2 waiting calls | what holds whatever happens, composition |
| `connector_tcp_stop` | orderly, TCP errors | violation: a loss that is not reported |
| `auto_reconnect` | `"outside"`, 3 starts | all properties of the wrapper, with liveness and refinement of `Keeper` |
| `auto_reconnect_hostile` | all habits and faults, 3 starts | the started callback runs once |
| `auto_reconnect_silent_stop` | no habits, no faults | violation: no exit callback |

Further configurations, not listed in PROJECT.json.  Each checks one property
with the module named and TLC finds it violated; section 5 says why.

| Configuration | Module | Property |
|---|---|---|
| `HandlerNotifiedOnce.cfg` | `MCConnectionHandler` | `NotifiedOnce`: two notifications of one end |
| `SenderExitOnce.cfg` | `MCTransceiver` | `ExitOnce`: two exits of a sender |
| `ReceiverCrowded.cfg` | `MCTransceiver` | `ExistingQueueSurvives`: removes a queue of others |
| `ReceiverConsumeError.cfg` | `MCTransceiver` | `CleanAfterConsumeError`: queue left behind |
| `ReceiverSlow.cfg` | `MCTransceiver` | `ReadyIsComplete`: ready without a consumer |
| `ConnectorExitOnce.cfg` | `MCConnector` | `ExitOnce`: two exits |
| `ConnectorTcpNormal.cfg` | `MCConnector` | `NormalMeansStopped`: a loss reported as eNormal |
| `ConnectorAgain.cfg` | `MCConnector` | `RefusedMeansOver`: a refusal for an attempt that goes on |
| `ConnectorLate.cfg` | `MCConnector` | `StopCompletes`: a transceiver opened after stop() |
| `ConnectorLateRunning.cfg` | `MCConnector` | `NotReadyMeansStopped`: a transceiver survives |
| `ConnectorStopRace.cfg` | `MCConnector` | `StopCompletes`: an error between stop() and its function |
| `ConnectorNested.cfg` | `MCConnector` | `CallsReturn`: run() never returns |
| `ConnectorRevived.cfg` | `MCConnector` | `StopCompletes`: stop() waits for a transceiver that it has begun anew |
| `AutoReconnectRecursion.cfg` | `MCAutoReconnect` | `NoRecursion`: endless recursion |
| `AutoReconnectGivesUp.cfg` | `MCAutoReconnect` | `TriesUntilStopped`: no new attempt |
| `AutoReconnectNotRun.cfg` | `MCAutoReconnect` | `ConnectionIsRun`: a connection that is not run |
| `AutoReconnectRunAfterStop.cfg` | `MCAutoReconnect` | `NoRunAfterStop`: run after stop |
| `AutoReconnectAgain.cfg` | `MCAutoReconnect` | `StopNotifiesUnlessPaused`: the second end is silent |
| `JsonReused.cfg` | `JsonConverter` | `ResultIsOfMessage`: a document of the message before |

Bounds.  Two starts are what a stale completion or answer needs: one to issue
it, one to receive it.  Three buffers give a queue with one being written, one
waiting and one arriving.  Two chunks let input arrive during a close that a
first chunk caused.  Three frames are a close inside a parse inside a close,
the shortest nesting that notifies twice; `stop()` itself is the only caller
that is bounded, so deeper stacks are reached by AMQP-CPP's calls.  Three
channels are the current one, one just replaced and one of an earlier run; if
all are in use no further channel is opened until one is served, which only
delays.  Two stops are a stop and one that must do nothing, or that meets the
machine restarted by the first.

Connector: two transceivers are one that a loop waits for and one that it has
still to visit, or that is in another phase; they are all alike.  Two starts are
what a leftover (`m_exiting`, a posted function, a handler) needs.  `MaxWaits`
bounds the calls of `open()`, `close()` and `run()` and with them the depth of
the stack: two give a `close()` inside a `run()`, three a call after either.
Two stops are two posted functions, the second of which runs inside the first.
The run with liveness, `connector`, has one stop and two waiting calls to keep
the temporal check small; with three of them it passes as well.
AutoReconnect: three starts allow a start during the session of the one before
and one after it; everything else is finite by itself.

`CHECK_DEADLOCK FALSE`: when the bounds are
used up and everything is down, the system has stopped as it should.

Fairness.  Handler: weak fairness of the frames that can return and of the
completions.  The thread runs, `parse()` returns, a socket that was shut down
completes its operations, and resolving and connecting end; nothing is assumed
of `start`, `stop`, `onData`, or the broker's input.  Transceiver: weak
fairness, per channel, of "the broker answers, the channel fails or AMQP-CPP
reports a failure", and of `drop()` after an error of the connection, which
`Connector::onShutdown()` calls (AmqpConnector.cpp:237-242).  An error of the
TCP connection that AMQP-CPP does not hear of is outside this assumption: the
Connector then calls `stop()` and waits, see run `connector_tcp_stop`.

Connector: weak fairness of the innermost call that can return and of an attempt
to connect that succeeds or fails; strong fairness of the end of the handler's
wait, of the posted function, of input while a transceiver waits for it, and of
the answer that each waits for.  Strong, because each of them is disabled while
another handler that the loop dispatched is on the stack, and comes again: asio
runs what is queued in its order, so none is passed over for ever.  The broker's
part (`AwaitedInput`, `Settle`) is what the transceiver's runs show of it.
Nothing is assumed of the application or of failures.  AutoReconnect: the timer
expires, handlers are dispatched, the started callback returns, attempts end
(the handler's `AttemptSettles`) and a connector that is stopped exits
(`StopCompletesUnlessRacedOrRevived`); the last holds with the exceptions of
section 5.

## 5. Findings

Each is a run, or a further configuration of section 4, that ends in a
violation.  The properties named `...Unless...` name what they except, and the
runs of them that pass show that within their bounds, for the applications and
the faults they allow, nothing else causes it.

- `NotifiedOnce`: a close that begins inside the wait loop of another makes the
  shutdown callback run twice (AmqpConnectionHandler.cpp:219).
  `NotifiedOnceUnlessNested` says that nothing else does, and is proved.
- `OwnAttempt`: `stop()` then `start()`: the first attempt's completion is taken
  for the second's (AmqpConnectionHandler.cpp:138, 162).
- `StopSticks`: `stop()` in `eRecreateChannel` reads a missing entry of
  `StopTransit` and starts over (AmqpTransceiver.cpp:151).
- `ConnectorRevived`: such a transceiver becomes ready after `Connector::stop()`
  or `close()`, whose loops (AmqpConnector.cpp:67, 156) wait for it for ever: no
  exit callback.  `StopCompletesUnlessRacedOrRevived` and
  `CallsReturnUnlessRacedOrRevived` except it.
- `ExitOnce`: a sender's `onError` closure of `eReady` is still installed while
  its channel is closed (AmqpTransceiver.cpp:418).  A receiver has one exit per
  start: `ImplementsLifecycle`.
- `ExistingQueueSurvives` with another client: the queue that appeared between
  check and declaration is removed (AmqpTransceiver.cpp:319).
- `CleanAfterConsumeError`: a failed consume leaves the new queue
  (AmqpTransceiver.cpp:399).
- `ReadyIsComplete` with slow channels: an answer of an earlier run makes the
  machine ready (AmqpTransceiver.cpp:374).

- `ConnectorExitOnce`: the posted function of `stop()`, or of a second
  `stop()`, runs in the loop of a close that is under way and closes again
  (AmqpConnector.cpp:153).  `ExitOnceUnlessNested` and
  `ImplementsSessionUnlessNested` say that nothing else does.
- `connector_tcp_stop`, `ConnectorTcpNormal`: a failed read or write is handled
  by `stop()`: transceivers wait for ever on a socket that is closed, or, if none
  is running, the loss is reported as a normal end (AmqpConnector.cpp:156, 251).
- `ConnectorStopRace`: an AMQP error between `stop()` and its posted function:
  the function runs in the loop of the handler's close, above `parse()`, and waits
  there for transceivers that only the end of that close would drop
  (AmqpConnector.cpp:156).  `Raced` is this situation; that without it a loss is
  reported, and without it and `Revived` a stop completes and calls return, is
  checked by `connector`.
- `ConnectorLate`, `ConnectorLateRunning`: `open()` and `run()` look at
  `m_connectionHandlerReady` only, which stays true until the exit
  (AmqpConnector.cpp:52, 116, 220).
- `ConnectorAgain`: `async_start()` during an attempt (AmqpConnector.cpp:95).
- `ConnectorNested`: waiting below `parse()` (AmqpConnector.cpp:134).
- `AutoReconnectRecursion`, `AutoReconnectAgain`: what `start()` saves is
  `restart()` itself, or is cleared at once (AutoReconnect.cpp:37, 87).
- `AutoReconnectGivesUp`: eNormal after a TCP error (AutoReconnect.cpp:93).
- `AutoReconnectNotRun`, `AutoReconnectRunAfterStop`: `m_rerun` outlives,
  or does not survive, the started callback (AutoReconnect.cpp:74).
- `auto_reconnect_silent_stop`: `stop()` in the pause (AutoReconnect.cpp:49).
- `JsonReused`: the function and its comment differ on a document that is used again (AmqpJsonConverter.cpp:17).

`OwnDeliveries` (a message is handed over with the channel it came on) is checked
with channels that are served in turn; with `slowChannels` it fails for the
reason that `ReceiverSlow.cfg` shows.

`BindingUndone` holds with one exception that it names: `stop()` in
`eBindQueue` goes to `eRemoveQueue`, which does nothing for a queue that
existed before, so a binding that succeeded meanwhile stays.  A stop in any
other state is not excepted (`stoppedIn`), whatever queue it meets.

`NoRecursion` is the subject of `AutoReconnectRecursion.cfg` only: for an
application that starts the wrapper again after the exit callback it says no
more than `if (m_started) return`.

## 6. Proofs

Every safety invariant and every action property that a passing run checks is
proved, and so are the four refinements (`Link`, `TransceiverLifecycle`,
`Session`, `Keeper`), for all values of the constants: any number of channels,
transceivers, starts, stops, waiting calls and suspended frames.  The only
assumptions on the constants are those the modules declare (the bounds are
natural numbers, `NoChannel` is no channel, `Garbage` is no Boolean, the sets of habits, faults and kinds
of interference are subsets of the ones named).  Where a theorem assumes more -
what the application does not do, or what the broker does not do - the
assumption is one that a run of the property makes (but for
`HandlerFollowsLink`, which `connector_hostile` checks without it), and the table
says what makes the property
fail without it: a configuration of section 4, or a habit or an interference
with which TLC finds a counterexample (two transceivers, two starts, two stops,
two waiting calls, all faults).

| Theorem | Needs | Fails without it |
|---|---|---|
| handler: all | nothing | |
| transceiver: `TypeOK`, `NothingNull`, `UnguardedAreCurrent`, `CleanAfterBindError` | nothing | |
| transceiver: `ImplementsLifecycle`, `ExitOnce` | receivers only | `SenderExitOnce.cfg` |
| transceiver: `ReadyIsComplete`, `OwnDeliveries` | channels served in turn | `ReceiverSlow.cfg` |
| transceiver: `BindingUndone` | channels served in turn | together with `"othersDeclare"` |
| transceiver: `ExistingQueueSurvives` | no `"othersDeclare"`, no `"checkRefused"` | `ReceiverCrowded.cfg` for the first, the same with `"checkRefused"` for the second |
| connector: `TypeOK`, `DroppedOnError`, `TransceiversFollowLifecycle` | nothing | |
| connector: `NoDangling` | no `"again"`, no `"late"` | either |
| connector: `NotReadyMeansStopped` | the same | `"late"`: `ConnectorLateRunning.cfg` |
| connector: `ImplementsSessionUnlessNested` | the same | `"again"`, as in `ConnectorAgain.cfg` |
| connector: `ExitOnceUnlessNested`, `HandlerFollowsLink` | the same | no counterexample in small instances |
| wrapper: `TypeOK`, `EstablishedOnce` | nothing | |
| wrapper: `OneAttempt`, `ConnectionIsRunUnlessLost` | no `"hasty"` | `"hasty"` |
| wrapper: `ImplementsKeeper` | no `"hasty"`, no `"again"` | either; `"again"` as in `AutoReconnectAgain.cfg` |

An invariant is seldom inductive alone.  In each module the proof is: a
stronger invariant, that the initial states satisfy it, that each action keeps
it (one lemma per action or group of actions, one step per conjunct it can
disturb), and that it implies the property.

### 6.1 AmqpConnectionHandler_proofs

`IInv` adds to the properties what they lean on:

- `FramesInv`: which frames can be suspended in which state.  A suspended close
  means `eShutdown`, or that an inner close has already finished; there is at
  most one `"read"` frame, and while there is one no read is outstanding.
- `QuietInv`, `UseInv`: what is cleared before the socket is connected and
  after a close; what an outstanding operation needs.
- `QueueInv`: the output queue is the interval of the numbers after `wire`.
- `BusyInv`: a connection that is ready has a read outstanding or in progress,
  and a write if it has output.
- `NotifyInv`: how many notifications are behind and ahead, from the frames.
- `OpenInv`: until a `stop()` interrupts an opening, what is outstanding belongs
  to the attempt that waits for it; afterwards the attempts before the first
  that was interrupted still have nothing outstanding.

Invariants about `stack` and `m_outBufs` rest on lemmas about pushing and
popping sequences.  The refinement uses `IInv` where the abstract link needs to
know that the queue is empty at the end of a close and when it starts.

### 6.2 Transceiver_proofs

`ChannelInv` says what can be outstanding on all the channels, also those that
were replaced, and holds whatever the broker and other clients do:

- `LastInv`: a request of the shutdown (the four with unguarded callbacks and
  the two openings before them) is outstanding at most once, on the current
  channel, in the state that issued it.  It is why those callbacks need no test:
  such a channel leaves `m_channel` only in the callback of this very request,
  and nothing else can happen once the channel has failed.
- `ClosureInv`: the closures of `onError()` of the shutdown go with their
  request; that of a sender in `eReady` stays, in `eCloseChannel` too.
- `RoleInv`: a sender never gets to the states of a queue.

The lemmas are about four ways to touch the channels - ask, drop, open anew,
take the oldest request - and about the entries into the states; an action is
then one of these entries from channels that shrank.  For a receiver `ClosureInv`
leaves no second way to the end, which gives the refinement and `ExitOnce`.

### 6.3 TransceiverBroker_proofs

`BrokerInv`, for all constants: a request of the start that can still succeed is
on the current channel, in the state that issued it or in the `eCloseChannel`
that a stop went to, and no error has been met (`StageInv`); what stands before
it is an opening at most (`ShapeInv`); the exit code fits the state
(`CodeInv`); and what the machine knows of its queue is so in the broker
(`QueueInv`).  The order of the conjuncts is that of the argument: `ShapeInv` is
what makes a channel empty when a declaration is answered, `QueueInv` needs to
know that the answer belongs to this run.

On it stand three more:

- `SurviveInv`: a receiver that did not see an existing queue is on a connection
  that has failed, so that nothing it asks for can still succeed.
- `TurnInv`: if channels are served in turn, an answer on the current channel
  means that every other one is done; they stay so until the next channel is
  opened, so each later answer is the machine's own.
- `BindInv`: the states in which the first run may be while its queue is bound
  or a request to bind can still succeed.  The states of the clean-up hold none
  on their channel and, by turns, none elsewhere when they are answered.

### 6.4 Connector_proofs

`BaseInv` (types, `ListInv`: only transceivers of the list run, and only loops
have something to visit; `DropInv`: nothing runs after `eAmqpError`) holds for
every application.  `SessionInv` is the invariant of an orderly one, which may
wait below `parse()`: an attempt begins on an empty stack with nothing left of
the session before (`AttemptInv`); once the posted function of `stop()` is under
way, what runs is what it has still to visit (`StopInv`); and as long as no close
began during a close, one handler's loop is on the stack while it closes and
none when the owner has been told (`ExitInv`).  That `Replace` finds an empty
stack (`ReplaceAlone`) is the heart of it: without a connection and with nothing
running no loop spins, so nothing can call.  `NoDangling` follows, and with it
that the guard `~dangling` of `Next` cuts off nothing for such an application.

### 6.5 AutoReconnect_proofs

`BaseInv` (types, and that the started callback and its frame say the same)
holds for every application.  `WaitInv` adds, for one that does not start the
wrapper before the last session has ended, that the connector's slot holds
`restart()` whenever a session is going on and the saved slot never does
(`SlotInv`), that the timer is armed between attempts only (`TimerInv`), and
which connections are run (`RunInv`).  `KeeperInv` adds what is saved in every
phase of the abstract keeper (`SavedInv`).

### 6.6 What only TLC checks

- Liveness, in every module: it is out of the prover's reach.
- `HandlerFollowsLink` and `ExitOnceUnlessNested` for an application that calls
  `async_start()` or `open()` at the wrong time, `NotReadyMeansStopped` and
  `ImplementsSessionUnlessNested` for one with only the harmless of the two
  habits: a stale function of `stop()` may then be on the stack during the next
  attempt, and why it cannot end there is an argument about which loop waits for
  which transceiver that is not made yet.  The first is in run
  `connector_hostile`.
- `BindingUndone` with slow channels and no other client, where the clean-up
  removes the queue before the old request to bind is served.
- `JsonConverter`, a handful of cases that TLC enumerates.
- The findings of section 5: each is one behaviour, which a run exhibits.

## 7. Not modelled

- The content of messages, and `send()`: it tests `eReady` (or `ready()`) and
  publishes, which changes no state of the machines; messages that the broker
  returns go straight to a callback.
- The lifetime of objects beyond what is named above: a connector that is
  destroyed before its posted function runs, an AutoReconnect before its timer,
  an envelope's buffer before the envelope.
- What an application does inside an exit callback of a connector or of a
  transceiver (for AutoReconnect, calling `start()` there is modelled).
- Exceptions out of application callbacks, threads (the library is used from
  one), the `io_service::work` sentinels, logging.
- The examples and the build files; the examples give the habits of an
  application.
