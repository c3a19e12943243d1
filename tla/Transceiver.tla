----------------------------- MODULE Transceiver ----------------------------
(***************************************************************************)
(* amqp::Transceiver (src/src/AmqpTransceiver.{hpp,cpp}): the state        *)
(* machine that prepares an AMQP channel for sending and receiving and     *)
(* tidies it up.  Every state issues a request on the current channel and  *)
(* moves on in the callback of the answer.  The callbacks capture only     *)
(* `this': none of them knows the channel or the start() it belongs to;    *)
(* most compare m_state with the state that issued the request, those of   *)
(* the shutdown states do not.                                             *)
(*                                                                         *)
(* AMQP-CPP and the broker are external and modelled from their use here:  *)
(* requests on a channel are answered in order; a channel that fails first *)
(* calls onError of its outstanding requests in order, then of its         *)
(* consumer, then its own; a request on a failed channel fails at once; a  *)
(* channel that is dropped or replaced is closed behind its outstanding    *)
(* requests, whose callbacks still run; a connection that is destroyed     *)
(* takes its channels with it in silence.                                  *)
(*                                                                         *)
(* Abstracted: names and texts (m_error), the exchange beyond its          *)
(* declaration, the contents of messages.  send() tests m_state = eReady   *)
(* and publishes on m_channel, which changes nothing here.                 *)
(***************************************************************************)
EXTENDS Naturals, Sequences

CONSTANTS
  Channels,     \* identities of AMQP channels that exist at a time
  NoChannel,    \* m_channel is null
  Roles,        \* the values of m_listener to consider
  Interference, \* what else may happen in the broker, see below
  MaxStarts,    \* bound on the calls of start() that take effect
  MaxStops      \* bound on the calls of stop() per start()

ASSUME ChannelsAssumption == NoChannel \notin Channels

ASSUME ParametersAssumption ==
  /\ Roles \subseteq BOOLEAN
  /\ Interference \subseteq {"othersDeclare", "checkRefused", "slowChannels"}
  /\ MaxStarts \in Nat
  /\ MaxStops \in Nat

VARIABLES
  m_listener,    \* the instance receives messages
  named,         \* m_queue is not empty
  m_state,       \* state of the machine
  m_connection,  \* the pointer to the AMQP::Connection is set
  m_channel,     \* the current channel, or NoChannel
  m_queueExist,  \* the queue was there before this instance declared it
  m_recvQueue,   \* the name of the queue is known
  m_consumerTag, \* the channel whose consumer's tag is held, or NoChannel
  m_ec,          \* exit code
  chan,          \* AMQP-CPP: what is outstanding on every channel
  connUp,        \* AMQP-CPP: the connection works
  queue,         \* broker: "absent", "created" (here) or "existing"
  bound,         \* broker: the queue is bound to the exchange
  starts,        \* history: calls of start() that took effect
  stops,         \* history: calls of stop() since then
  stoppedIn,     \* history: m_state at the last of them, eEnd before the first
  exits          \* history: calls of m_onExit since then

config  == <<m_listener, named>>
memory  == <<m_connection, m_channel, m_queueExist, m_recvQueue, m_consumerTag>>
broker  == <<queue, bound>>
history == <<starts, stops, stoppedIn, exits>>
vars    == <<config, m_state, memory, m_ec, chan, connUp, broker, history>>

Starting == {"eCreateChannel", "eCheckQueue", "eRecreateChannel",
             "eCreateExchange", "eCreateQueue", "eBindQueue", "eCreateConsumer"}
Stopping == {"eShutdown", "eUnbindQueue", "eRemoveQueue", "eCloseChannel"}
State    == Starting \cup {"eReady"} \cup Stopping \cup {"eEnd"}

ExitCode == {"eNoError", "eCreateChannelError", "eCreateExchangeError",
             "eCreateQueueError", "eBindQueueError", "eCreateConsumerError",
             "eConsumerCancelError", "eUnbindQueueError", "eRemoveQueueError",
             "eCloseChannelError", "eChannelAbruptlyClosedError", "eDrop"}

\* Requests whose callbacks test m_state, by the state that issues them; the
\* opening of a channel is one of them.  "discard" closes a channel that the
\* transceiver holds no more and has no callbacks.
Openings  == {"openCreate", "openRecreate", "openUnbind", "openRemove"}
Guarded   == Openings \cup {"checkQueue", "declareExchange", "declareQueue",
                            "bindQueue", "consume"}
Unguarded == {"cancel", "unbindQueue", "removeQueue", "close"}
Request   == Guarded \cup Unguarded \cup {"discard"}

\* The closures that Channel::onError() installs, "none" for nullptr.
OnError == {"none", "create", "recreate", "unbind", "remove", "ready"}

\* The state that opens a channel with such a closure.
OpenedIn == [create |-> "eCreateChannel", recreate |-> "eRecreateChannel",
             unbind |-> "eUnbindQueue", remove |-> "eRemoveQueue"]

Channel == [pending: Seq(Request), \* unanswered requests, oldest first
            consumer: BOOLEAN,     \* a consumer is registered
            onError: OnError,
            broken: BOOLEAN]       \* failed or closed

FlagsOK ==
  /\ m_listener \in BOOLEAN
  /\ named \in BOOLEAN
  /\ m_connection \in BOOLEAN
  /\ m_queueExist \in BOOLEAN
  /\ m_recvQueue \in BOOLEAN
  /\ connUp \in BOOLEAN
  /\ bound \in BOOLEAN

TypeOK ==
  /\ FlagsOK
  /\ m_state \in State
  /\ m_channel \in Channels \cup {NoChannel}
  /\ m_consumerTag \in Channels \cup {NoChannel}
  /\ m_ec \in ExitCode
  /\ chan \in [Channels -> Channel]
  /\ queue \in {"absent", "created", "existing"}
  /\ starts \in Nat
  /\ stops \in Nat
  /\ stoppedIn \in State
  /\ exits \in Nat

Idle == [pending |-> <<>>, consumer |-> FALSE, onError |-> "none", broken |-> TRUE]

\* Mutant: m_state is missing from the initialisers of the constructor.
Mut_InitialState == "eMax"

InitialState == "eEnd"

\* The constructor, and a broker with or without the queue.
Init ==
  /\ m_listener \in Roles
  /\ named \in BOOLEAN
  /\ m_state = InitialState
  /\ m_connection = FALSE
  /\ m_channel = NoChannel
  /\ m_queueExist = FALSE
  /\ m_recvQueue = FALSE
  /\ m_consumerTag = NoChannel
  /\ m_ec = "eNoError"
  /\ chan = [c \in Channels |-> Idle]
  /\ connUp = TRUE
  /\ queue \in {"absent", "existing"}
  /\ queue = "existing" => named
  /\ bound = FALSE
  /\ starts = 0
  /\ stops = 0
  /\ stoppedIn = "eEnd"
  /\ exits = 0

-----------------------------------------------------------------------------
(* Channels.                                                               *)

\* The destructor of the last reference to a channel closes it.
Dropped(r) ==
  IF r.broken THEN r ELSE [r EXCEPT !.pending = Append(@, "discard")]

Released(chs) ==
  IF m_channel = NoChannel THEN chs ELSE [chs EXCEPT ![m_channel] = Dropped(@)]

\* A request on a failed channel fails before anything else is reported.
Asked(r, op) ==
  [r EXCEPT !.pending = IF r.broken THEN <<op>> \o @ ELSE Append(@, op)]

Ask(chs, op) == [chs EXCEPT ![m_channel] = Asked(@, op)]

\* m_channel->onError().
Install(chs, closure) == [chs EXCEPT ![m_channel].onError = closure]

Spent(r)       == r.pending = <<>> /\ ~r.consumer /\ r.onError = "none"
Available(chs) == {c \in Channels \ {m_channel} : Spent(chs[c])}

\* Nothing else runs before a failed channel has reported to everyone.
Quiet == \A c \in Channels : chan[c].broken => Spent(chan[c])

-----------------------------------------------------------------------------
(* Entry into the states: an assignment to m_state and the call of         *)
(* StateMachine(), with the channels as the callback leaves them.          *)

Keep        == UNCHANGED <<m_connection, m_queueExist, m_recvQueue,
                           m_consumerTag, exits, m_ec>>
Fault(code) == m_ec' = code /\ UNCHANGED <<m_connection, m_queueExist,
                                          m_recvQueue, m_consumerTag, exits>>

Enter(state, chs) ==
  /\ m_state' = state
  /\ chan' = chs
  /\ UNCHANGED m_channel

\* A new channel takes the place of m_channel.  It may fail from the start,
\* and does so on a failed connection.
Reopen(state, chs, op, closure) ==
  \E c \in Available(chs), failed \in BOOLEAN :
    /\ failed \/ connUp
    /\ m_state' = state
    /\ m_channel' = c
    /\ chan' = [Released(chs) EXCEPT ![c] =
                  [pending |-> <<op>>, consumer |-> FALSE,
                   onError |-> closure, broken |-> failed]]

\* Mutant: m_channel.reset() is missing.
Mut_End ==
  /\ m_state' = "eEnd"
  /\ m_connection' = FALSE
  /\ m_recvQueue' = FALSE
  /\ m_consumerTag' = NoChannel
  /\ m_queueExist' = FALSE
  /\ UNCHANGED m_channel
  /\ exits' = exits + 1

End ==
  /\ m_state' = "eEnd"
  /\ m_connection' = FALSE
  /\ m_recvQueue' = FALSE
  /\ m_consumerTag' = NoChannel
  /\ m_queueExist' = FALSE
  /\ m_channel' = NoChannel
  /\ exits' = exits + 1

EnterEnd(chs) == End /\ chan' = Released(chs)

\* Mutant: m_state = eCloseChannel without the call of StateMachine().
Mut_EnterCloseChannel(chs) == Enter("eCloseChannel", chs)

EnterCloseChannel(chs) == Enter("eCloseChannel", Ask(chs, "close"))

\* Mutant: the test of m_queueExist is inverted.
Mut_EnterRemoveQueue(chs) ==
  IF ~m_queueExist
  THEN EnterCloseChannel(chs)
  ELSE Reopen("eRemoveQueue", chs, "openRemove", "remove")

\* Mutant: no test of m_queueExist.
Mut_EnterRemoveAnyQueue(chs) ==
  Reopen("eRemoveQueue", chs, "openRemove", "remove")

EnterRemoveQueue(chs) ==
  IF m_queueExist
  THEN EnterCloseChannel(chs)
  ELSE Reopen("eRemoveQueue", chs, "openRemove", "remove")

\* Mutant: a queue that existed before is not unbound.
Mut_EnterUnbindQueue(chs) ==
  IF m_recvQueue /\ ~m_queueExist
  THEN Reopen("eUnbindQueue", chs, "openUnbind", "unbind")
  ELSE EnterCloseChannel(chs)

EnterUnbindQueue(chs) ==
  IF m_recvQueue
  THEN Reopen("eUnbindQueue", chs, "openUnbind", "unbind")
  ELSE EnterCloseChannel(chs)

\* Mutant: the machine goes on without the answer to cancel().
Mut_EnterShutdown(chs) ==
  IF ~m_listener THEN EnterCloseChannel(chs)
  ELSE IF m_consumerTag = NoChannel THEN EnterUnbindQueue(chs)
  ELSE EnterUnbindQueue(Ask(chs, "cancel"))

EnterShutdown(chs) ==
  IF ~m_listener THEN EnterCloseChannel(chs)
  ELSE IF m_consumerTag = NoChannel THEN EnterUnbindQueue(chs)
  ELSE Enter("eShutdown", Ask(chs, "cancel"))

\* Mutant: a sender in eReady installs no onError().
Mut_EnterReady(chs) == Enter("eReady", chs)

EnterReady(chs) ==
  Enter("eReady", IF m_listener THEN chs ELSE Install(chs, "ready"))

EnterCreateConsumer(chs) == Enter("eCreateConsumer", Ask(chs, "consume"))

EnterBindQueue(chs) == Enter("eBindQueue", Ask(chs, "bindQueue"))

\* Mutant: m_state = eBindQueue without the call of StateMachine().
Mut_EnterCreateQueue(chs) ==
  IF m_queueExist
  THEN Enter("eBindQueue", chs)
  ELSE Enter("eCreateQueue", Ask(chs, "declareQueue"))

EnterCreateQueue(chs) ==
  IF m_queueExist
  THEN EnterBindQueue(chs)
  ELSE Enter("eCreateQueue", Ask(chs, "declareQueue"))

EnterCreateExchange(chs) == Enter("eCreateExchange", Ask(chs, "declareExchange"))

EnterRecreateChannel(chs) ==
  Reopen("eRecreateChannel", chs, "openRecreate", "recreate")

EnterCheckQueue(chs) ==
  IF named
  THEN Enter("eCheckQueue", Ask(chs, "checkQueue"))
  ELSE EnterCreateExchange(chs)

EnterCreateChannel(chs) ==
  Reopen("eCreateChannel", chs, "openCreate", "create")

-----------------------------------------------------------------------------
(* Calls by the Connector.                                                 *)

\* A call in any other state does nothing.  `queue' and `bound' tell what this
\* run does to the broker; a queue with a name outlives the run before it.
start(connection) ==
  /\ Quiet
  /\ starts < MaxStarts
  /\ m_state = "eEnd"
  /\ starts' = starts + 1
  /\ stops' = 0
  /\ stoppedIn' = "eEnd"
  /\ \/ /\ connection
        /\ m_connection' = TRUE
        /\ EnterCreateChannel(chan)
        /\ m_ec' = "eNoError"
        /\ exits' = 0
        /\ UNCHANGED <<m_queueExist, m_recvQueue, m_consumerTag>>
     \/ /\ ~connection
        /\ m_ec' = "eCreateChannelError"
        /\ exits' = 1
        /\ UNCHANGED <<m_state, memory, chan>>
  /\ queue' = IF named /\ queue # "absent" THEN "existing" ELSE "absent"
  /\ bound' = FALSE
  /\ UNCHANGED <<config, connUp>>

\* Mutant: eReady has no entry in StopTransit.
Mut_StopTransit ==
  [s \in Starting \cup {"eReady"} |->
     CASE s \in {"eCreateExchange", "eCheckQueue", "eCreateQueue"} -> "eCloseChannel"
       [] s = "eBindQueue" -> "eRemoveQueue"
       [] s = "eCreateConsumer" -> "eUnbindQueue"
       [] OTHER -> "eCreateChannel"]

\* eRecreateChannel has no entry in StopTransit, and operator[] inserts 0,
\* which is eCreateChannel.
StopTransit ==
  [s \in Starting \cup {"eReady"} |->
     CASE s = "eCreateChannel" -> "eEnd"
       [] s \in {"eCreateExchange", "eCheckQueue", "eCreateQueue"} -> "eCloseChannel"
       [] s = "eBindQueue" -> "eRemoveQueue"
       [] s = "eCreateConsumer" -> "eUnbindQueue"
       [] s = "eReady" -> "eShutdown"
       [] s = "eRecreateChannel" -> "eCreateChannel"]

stop ==
  /\ Quiet
  /\ stops < MaxStops
  /\ m_state \in DOMAIN StopTransit
  /\ stops' = stops + 1
  /\ stoppedIn' = m_state
  /\ LET next == StopTransit[m_state] IN
     \/ next = "eEnd" /\ EnterEnd(chan) /\ UNCHANGED m_ec
     \/ next = "eCloseChannel" /\ EnterCloseChannel(chan) /\ Keep
     \/ next = "eRemoveQueue" /\ EnterRemoveQueue(chan) /\ Keep
     \/ next = "eUnbindQueue" /\ EnterUnbindQueue(chan) /\ Keep
     \/ next = "eShutdown" /\ EnterShutdown(chan) /\ Keep
     \/ next = "eCreateChannel" /\ EnterCreateChannel(chan) /\ Keep
  /\ UNCHANGED <<config, connUp, broker, starts>>

\* After an error of the connection, which is then destroyed with all its
\* channels; the next start() gets a new one.
drop ==
  /\ ~connUp
  /\ connUp' = TRUE
  /\ \/ m_state = "eEnd" /\ UNCHANGED <<m_state, memory, m_ec, exits>>
     \/ m_state # "eEnd" /\ End /\ m_ec' = "eDrop"
  /\ chan' = [c \in Channels |-> Idle]
  /\ UNCHANGED <<config, broker, starts, stops, stoppedIn>>

-----------------------------------------------------------------------------
(* Answers of the broker: the onReady and onSuccess callbacks.             *)

\* Channels are served independently by "slowChannels"; without it a channel
\* that was dropped or replaced is served before the current one.
InTurn(c) ==
  \/ "slowChannels" \in Interference
  \/ c # m_channel
  \/ \A d \in Channels \ {c} : Spent(chan[d])

Answers(c, op) ==
  /\ Quiet
  /\ connUp
  /\ InTurn(c)
  /\ ~chan[c].broken
  /\ chan[c].pending # <<>>
  /\ Head(chan[c].pending) = op

Popped(c) == [chan EXCEPT ![c].pending = Tail(@)]

Ignored(chs) == chan' = chs /\ UNCHANGED <<m_state, memory, exits, m_ec>>

\* A callback that returns at once unless the machine is in `state'.
In(state, c, action) ==
  IF m_state = state THEN action ELSE Ignored(Popped(c))

\* "drop unnecessary callback"
Ready(c) == Install(Popped(c), "none")

onReady(c) ==
  /\ \/ /\ Answers(c, "openCreate")
        /\ In("eCreateChannel", c,
              Keep /\ IF m_listener THEN EnterCheckQueue(Ready(c))
                                    ELSE EnterCreateExchange(Ready(c)))
     \/ /\ Answers(c, "openRecreate")
        /\ In("eRecreateChannel", c, Keep /\ EnterCreateExchange(Ready(c)))
     \/ /\ Answers(c, "openUnbind")
        /\ In("eUnbindQueue", c,
              Keep /\ Enter("eUnbindQueue", Ask(Ready(c), "unbindQueue")))
     \/ /\ Answers(c, "openRemove")
        /\ In("eRemoveQueue", c,
              Keep /\ Enter("eRemoveQueue", Ask(Ready(c), "removeQueue")))
  /\ UNCHANGED <<config, connUp, broker, starts, stops, stoppedIn>>

onQueueChecked(c) ==
  /\ Answers(c, "checkQueue")
  /\ queue # "absent"
  /\ In("eCheckQueue", c,
        /\ m_queueExist' = TRUE
        /\ m_recvQueue' = TRUE
        /\ EnterCreateExchange(Popped(c))
        /\ UNCHANGED <<m_connection, m_consumerTag, exits, m_ec>>)
  /\ UNCHANGED <<config, connUp, broker, starts, stops, stoppedIn>>

onExchangeDeclared(c) ==
  /\ Answers(c, "declareExchange")
  /\ In("eCreateExchange", c,
        Keep /\ IF m_listener THEN EnterCreateQueue(Popped(c))
                              ELSE EnterReady(Popped(c)))
  /\ UNCHANGED <<config, connUp, broker, starts, stops, stoppedIn>>

\* Declaring a queue that is there opens it.
onQueueDeclared(c) ==
  /\ Answers(c, "declareQueue")
  /\ In("eCreateQueue", c,
        /\ m_recvQueue' = TRUE
        /\ EnterBindQueue(Popped(c))
        /\ UNCHANGED <<m_connection, m_queueExist, m_consumerTag, exits, m_ec>>)
  /\ queue' = IF queue = "absent" THEN "created" ELSE queue
  /\ UNCHANGED <<config, connUp, bound, starts, stops, stoppedIn>>

onQueueBound(c) ==
  /\ Answers(c, "bindQueue")
  /\ queue # "absent"
  /\ In("eBindQueue", c, Keep /\ EnterCreateConsumer(Popped(c)))
  /\ bound' = TRUE
  /\ UNCHANGED <<config, connUp, queue, starts, stops, stoppedIn>>

onConsuming(c) ==
  /\ Answers(c, "consume")
  /\ queue # "absent"
  /\ LET chs == [Popped(c) EXCEPT ![c].consumer = TRUE] IN
     IF m_state = "eCreateConsumer"
     THEN /\ m_consumerTag' = c
          /\ EnterReady(chs)
          /\ UNCHANGED <<m_connection, m_queueExist, m_recvQueue, exits, m_ec>>
     ELSE Ignored(chs)
  /\ UNCHANGED <<config, connUp, broker, starts, stops, stoppedIn>>

\* Mutant: the messages of any consumer are passed on.
Mut_Received == {c \in Channels : chan[c].consumer /\ ~chan[c].broken}

\* The channels whose messages the application gets, always with m_channel to
\* acknowledge them on; a delivery itself changes no state.
Received ==
  {c \in Channels : m_state = "eReady" /\ chan[c].consumer /\ ~chan[c].broken}

\* m_state is not tested, only that the tag is still the one that was cancelled.
onCancelled(c) ==
  /\ Answers(c, "cancel")
  /\ LET chs == [Popped(c) EXCEPT ![c].consumer = FALSE] IN
     IF m_consumerTag = c
     THEN Keep /\ EnterUnbindQueue(chs)
     ELSE Ignored(chs)
  /\ UNCHANGED <<config, connUp, broker, starts, stops, stoppedIn>>

onQueueUnbound(c) ==
  /\ Answers(c, "unbindQueue")
  /\ EnterCloseChannel(Popped(c))
  /\ Keep
  /\ bound' = FALSE
  /\ UNCHANGED <<config, connUp, queue, starts, stops, stoppedIn>>

onQueueRemoved(c) ==
  /\ Answers(c, "removeQueue")
  /\ EnterCloseChannel(Popped(c))
  /\ Keep
  /\ queue' = "absent"
  /\ bound' = FALSE
  /\ UNCHANGED <<config, connUp, starts, stops, stoppedIn>>

\* A channel that was closed reports nothing more.
onChannelClosed(c) ==
  /\ \/ Answers(c, "close") /\ EnterEnd([chan EXCEPT ![c] = Idle]) /\ UNCHANGED m_ec
     \/ Answers(c, "discard") /\ Ignored([chan EXCEPT ![c] = Idle])
  /\ UNCHANGED <<config, connUp, broker, starts, stops, stoppedIn>>

-----------------------------------------------------------------------------
(* Failures: the onError callbacks.                                        *)

Fails(c, op) ==
  /\ chan[c].broken
  /\ chan[c].pending # <<>>
  /\ Head(chan[c].pending) = op

FirstFault(code) == IF m_ec = "eNoError" THEN code ELSE m_ec

\* consume().onError(), for the request and for the registered consumer.
ConsumerError(chs) ==
  \/ /\ m_state = "eCreateConsumer"
     /\ Fault("eCreateConsumerError")
     /\ EnterUnbindQueue(chs)
  \/ /\ m_state = "eReady"
     /\ m_ec' = "eChannelAbruptlyClosedError"
     /\ EnterEnd(chs)
  \/ /\ m_state \notin {"eCreateConsumer", "eReady"}
     /\ Ignored(chs)

\* The oldest request of a failed channel is told; the opening of a channel
\* has no callback of its own.
onRequestError(c) ==
  /\ \/ /\ \E op \in Openings \cup {"discard"} : Fails(c, op)
        /\ Ignored(Popped(c))
     \/ /\ Fails(c, "checkQueue")
        /\ In("eCheckQueue", c, Keep /\ EnterRecreateChannel(Popped(c)))
     \/ /\ Fails(c, "declareExchange")
        /\ In("eCreateExchange", c,
              Fault("eCreateExchangeError") /\ EnterCloseChannel(Popped(c)))
     \/ /\ Fails(c, "declareQueue")
        /\ In("eCreateQueue", c,
              Fault("eCreateQueueError") /\ EnterCloseChannel(Popped(c)))
     \/ /\ Fails(c, "bindQueue")
        /\ In("eBindQueue", c,
              Fault("eBindQueueError") /\ EnterRemoveQueue(Popped(c)))
     \/ /\ Fails(c, "consume")
        /\ ConsumerError(Popped(c))
     \/ /\ Fails(c, "cancel")
        /\ Fault("eConsumerCancelError")
        /\ EnterUnbindQueue(Popped(c))
     \/ /\ Fails(c, "unbindQueue")
        /\ EnterEnd(Popped(c))
        /\ m_ec' = FirstFault("eUnbindQueueError")
     \/ /\ Fails(c, "removeQueue")
        /\ EnterEnd(Popped(c))
        /\ m_ec' = FirstFault("eRemoveQueueError")
     \/ /\ Fails(c, "close")
        /\ EnterEnd(Popped(c))
        /\ m_ec' = FirstFault("eCloseChannelError")
  /\ UNCHANGED <<config, connUp, broker, starts, stops, stoppedIn>>

onConsumerError(c) ==
  /\ chan[c].broken
  /\ chan[c].pending = <<>>
  /\ chan[c].consumer
  /\ ConsumerError([chan EXCEPT ![c].consumer = FALSE])
  /\ UNCHANGED <<config, connUp, broker, starts, stops, stoppedIn>>

\* Channel::onError(); the closure of a sender in eReady does not test m_state.
onChannelError(c) ==
  /\ chan[c].broken
  /\ chan[c].pending = <<>>
  /\ ~chan[c].consumer
  /\ LET closure == chan[c].onError
         chs == [chan EXCEPT ![c].onError = "none"]
     IN  \/ /\ closure \in DOMAIN OpenedIn
           /\ IF m_state = OpenedIn[closure]
              THEN m_ec' = "eCreateChannelError" /\ EnterEnd(chs)
              ELSE Ignored(chs)
        \/ /\ closure = "ready"
           /\ m_ec' = "eChannelAbruptlyClosedError"
           /\ EnterEnd(chs)
  /\ UNCHANGED <<config, connUp, broker, starts, stops, stoppedIn>>

-----------------------------------------------------------------------------
(* The environment.                                                        *)

\* The broker closes a channel that is open, for its oldest request or for a
\* message that was published or acknowledged on it.  The check of a queue
\* that exists fails only by "checkRefused".
BreakChannel(c) ==
  /\ Quiet
  /\ connUp
  /\ ~chan[c].broken
  /\ InTurn(c)
  /\ \A op \in Openings : ~Answers(c, op)
  /\ Answers(c, "checkQueue") /\ queue # "absent" => "checkRefused" \in Interference
  /\ chan' = [chan EXCEPT ![c].broken = TRUE]
  /\ UNCHANGED <<config, m_state, memory, m_ec, connUp, broker, history>>

\* AMQP-CPP reports an error of the connection.
BreakConnection ==
  /\ Quiet
  /\ connUp
  /\ m_state # "eEnd" \/ \E c \in Channels : ~Spent(chan[c])
  /\ connUp' = FALSE
  /\ chan' = [c \in Channels |-> [chan[c] EXCEPT !.broken = TRUE]]
  /\ UNCHANGED <<config, m_state, memory, m_ec, broker, history>>

\* Another client declares the queue.
OthersDeclare ==
  /\ "othersDeclare" \in Interference
  /\ named
  /\ queue = "absent"
  /\ queue' = "existing"
  /\ UNCHANGED <<config, m_state, memory, m_ec, chan, connUp, bound, history>>

-----------------------------------------------------------------------------

Success(c) ==
  \/ onReady(c)
  \/ onQueueChecked(c)
  \/ onExchangeDeclared(c)
  \/ onQueueDeclared(c)
  \/ onQueueBound(c)
  \/ onConsuming(c)
  \/ onCancelled(c)
  \/ onQueueUnbound(c)
  \/ onQueueRemoved(c)
  \/ onChannelClosed(c)

Report(c) == onRequestError(c) \/ onConsumerError(c) \/ onChannelError(c)

Next ==
  \/ \E connection \in BOOLEAN : start(connection)
  \/ stop
  \/ drop
  \/ \E c \in Channels : Success(c) \/ Report(c) \/ BreakChannel(c)
  \/ BreakConnection
  \/ OthersDeclare

Spec == Init /\ [][Next]_vars

\* The broker answers or closes the channel, AMQP-CPP reports what fails, and
\* the Connector drops its transceivers after an error of the connection.
Fairness ==
  /\ \A c \in Channels : WF_vars(Success(c) \/ Report(c) \/ BreakChannel(c))
  /\ WF_vars(drop)

FairSpec == Spec /\ Fairness

-----------------------------------------------------------------------------
(* Safety.                                                                 *)

\* Every state but eEnd uses m_channel and m_connection without a test.
NothingNull ==
  /\ m_state = "eEnd" <=> m_channel = NoChannel
  /\ m_state = "eEnd" <=> ~m_connection

\* The callbacks that do not test m_state need not: a request with such a
\* callback is outstanding only on the current channel and only in the state
\* that issued it.
IssuedIn == [cancel |-> "eShutdown", unbindQueue |-> "eUnbindQueue",
             removeQueue |-> "eRemoveQueue", close |-> "eCloseChannel"]

UnguardedAreCurrent ==
  \A c \in Channels : \A i \in DOMAIN chan[c].pending :
    LET op == chan[c].pending[i] IN
    op \in Unguarded => c = m_channel /\ m_state = IssuedIn[op]

\* A transceiver that calls itself ready is: a receiver has its consumer, its
\* tag and its queue bound in the broker, a sender learns of a failure.
ReadyIsComplete ==
  m_state = "eReady" =>
    IF m_listener
    THEN /\ m_recvQueue
         /\ m_consumerTag = m_channel
         /\ chan[m_channel].consumer
         /\ queue # "absent" /\ bound
    ELSE chan[m_channel].onError = "ready"

\* onReceived() hands a message over with m_channel and the delivery tag of the
\* channel it came on: they belong together only if it is the same channel.
OwnDeliveries == Received \subseteq {m_channel}

\* m_onExit is called once for a start().
ExitOnce == exits <= 1

\* When the machine goes on to close its channel after an error with its
\* queue, the queue it created itself has been removed.
RemovedAfter(code) ==
  m_state = "eCloseChannel" /\ m_ec = code => queue # "created"

CleanAfterBindError    == RemovedAfter("eBindQueueError")
CleanAfterConsumeError == RemovedAfter("eCreateConsumerError")

\* When the machine goes on to close its channel, after whatever error and
\* whatever stop(), it has undone its binding.  There is one exception: a stop()
\* that came in eBindQueue, while it was binding a queue of someone else.  Only
\* for the first run: such a stop() leaves the request to bind behind, and the
\* broker may serve it when the next run has begun.
BindingUndone ==
  starts = 1 /\ m_state = "eCloseChannel" /\ bound
    => m_queueExist /\ stoppedIn = "eBindQueue"

\* A machine that was stopped does not become ready.
StopSticks == stops > 0 => m_state # "eReady"

\* "leaves a queue that existed before as it was"
ExistingQueueSurvives ==
  [][queue = "existing" => queue' = "existing"]_vars

-----------------------------------------------------------------------------
(* Liveness.                                                               *)

StartSettles == m_state \in Starting ~> m_state \notin Starting

ShutdownEnds == m_state \in Stopping ~> m_state = "eEnd"

-----------------------------------------------------------------------------
(* Refinement.                                                             *)

Phase ==
  CASE m_state = "eEnd" -> "ended"
    [] m_state \in Starting -> "starting"
    [] m_state = "eReady" -> "ready"
    [] m_state \in Stopping -> "stopping"

Life == INSTANCE TransceiverLifecycle WITH phase <- Phase

ImplementsLifecycle == Life!LifeSpec

=============================================================================
