----------------------- MODULE AmqpConnectionHandler ------------------------
(***************************************************************************)
(* amqp::ConnectionHandler (src/src/AmqpConnectionHandler.{hpp,cpp}): the  *)
(* TCP connection to the broker as a state machine driven by completion    *)
(* handlers of boost::asio and by callbacks of AMQP-CPP.                   *)
(*                                                                         *)
(* Everything runs on one thread.  What makes it hard is that the object   *)
(* re-enters itself: closing a connection spins the event loop from inside *)
(* StateMachine() until both socket operations have completed, and parsing *)
(* input calls back into onData(), onError() and onClosed().  The C++      *)
(* frames of this object that are suspended in such a call are the         *)
(* variable `stack', its head the innermost frame.                         *)
(*                                                                         *)
(* Abstracted: contents and sizes of buffers (a buffer is its number on    *)
(* the connection), texts of errors, logging, and the exceptions of        *)
(* socket.shutdown()/close(), which the code swallows.                     *)
(***************************************************************************)
EXTENDS Naturals, Sequences

CONSTANTS
  MaxStarts, \* bound on the calls of start()
  MaxBufs,   \* bound on the buffers submitted on one connection
  MaxChunks, \* bound on the chunks of input that wait in the socket
  MaxDepth   \* bound on the frames below a nested stop()

ASSUME BoundsAssumption ==
  /\ MaxStarts \in Nat
  /\ MaxBufs \in Nat
  /\ MaxChunks \in Nat
  /\ MaxDepth \in Nat

VARIABLES
  m_state,      \* state of the machine
  m_amqpError,  \* onError() was called since start()
  m_connection, \* the pointer to the AMQP::Connection is set
  m_readReq,    \* an asynchronous read was started
  m_writeReq,   \* an asynchronous write was started
  m_inBuf,      \* input was received and not consumed
  m_outBufs,    \* queue of output buffers
  stack,        \* suspended frames of this object, innermost first
  resolving,    \* asio: start() calls whose async_resolve is outstanding
  connecting,   \* asio: start() calls whose async_connect is outstanding
  reads,        \* asio: outstanding async_read_some operations
  writes,       \* asio: outstanding async_write operations
  chunks,       \* asio: chunks of input received and not read
  attempt,      \* history: calls of start() that took effect
  shutdowns,    \* history: calls of m_shutdownCb since start()
  nested,       \* history: since start(), a close began during a close
  abandoned,    \* history: start() calls that stop() ended while opening
  submitted,    \* history: buffers queued on this connection
  wire          \* history: last buffer completely written

object  == <<m_state, m_amqpError, m_connection, m_readReq, m_writeReq,
             m_inBuf, m_outBufs>>
opening == <<resolving, connecting>>
io      == <<reads, writes, chunks>>
history == <<attempt, shutdowns, nested, abandoned, submitted, wire>>
vars    == <<object, stack, opening, io, history>>

State == {"eNotConnected", "eResolving", "eConnecting",
          "eReceiverInit", "eReady", "eShutdown"}

\* The wait loop of a close, and a call of AMQP::Connection::parse().
Frame == {"shutdown", "read"}

FlagsOK ==
  /\ m_amqpError \in BOOLEAN
  /\ m_connection \in BOOLEAN
  /\ m_readReq \in BOOLEAN
  /\ m_writeReq \in BOOLEAN
  /\ m_inBuf \in BOOLEAN
  /\ nested \in BOOLEAN

\* The type invariant.
TypeOK ==
  /\ m_state \in State
  /\ FlagsOK
  /\ m_outBufs \in Seq(Nat)
  /\ stack \in Seq(Frame)
  /\ resolving \in SUBSET Nat
  /\ connecting \in SUBSET Nat
  /\ reads \in Nat
  /\ writes \in Nat
  /\ chunks \in Nat
  /\ attempt \in Nat
  /\ abandoned \in SUBSET (1 .. attempt)
  /\ shutdowns \in Nat
  /\ submitted \in Nat
  /\ wire \in Nat

\* The constructor.
Constructed(state) ==
  /\ m_state = state
  /\ m_amqpError = FALSE
  /\ m_connection = FALSE
  /\ m_readReq = FALSE
  /\ m_writeReq = FALSE
  /\ m_inBuf = FALSE
  /\ m_outBufs = <<>>

\* Mutant: m_state is missing from the initialisers of the constructor.
Mut_InitialState == "uninitialised"

InitialState == "eNotConnected"

Init ==
  /\ Constructed(InitialState)
  /\ stack = <<>>
  /\ resolving = {}
  /\ connecting = {}
  /\ reads = 0
  /\ writes = 0
  /\ chunks = 0
  /\ attempt = 0
  /\ shutdowns = 0
  /\ nested = FALSE
  /\ abandoned = {}
  /\ submitted = 0
  /\ wire = 0

-----------------------------------------------------------------------------

\* Mutant: >= for > in connected().
Mut_connected == m_state \in {"eConnecting", "eReceiverInit", "eReady", "eShutdown"}

connected == m_state \in {"eReceiverInit", "eReady", "eShutdown"}

\* Mutant: the wait loop of a close forgets the write.
Mut_Waiting == m_readReq

\* The condition of the wait loop of a close.
Waiting == m_readReq \/ m_writeReq

\* The states of start(), which wait for async_resolve and async_connect.
Opening == {"eResolving", "eConnecting"}

Parsing == stack # <<>> /\ Head(stack) = "read"
Closing == stack # <<>> /\ Head(stack) = "shutdown"

\* The event loop can dispatch a handler: no frame of the object is on the
\* stack, or the innermost one spins the loop - a close that still waits, or
\* an application callback under parse() that calls run(), open() or close().
Dispatching == stack = <<>> \/ Parsing \/ (Closing /\ Waiting)

\* m_state = eShutdown; StateMachine(), up to the first test of the wait loop.
BeginShutdown ==
  /\ m_state' = "eShutdown"
  /\ stack' = <<"shutdown">> \o stack
  /\ nested' = (nested \/ m_state = "eShutdown")

\* m_state = eNotConnected; StateMachine(): the shutdown callback.
NotConnected ==
  /\ m_state' = "eNotConnected"
  /\ shutdowns' = shutdowns + 1

\* Mutant: m_state = eConnecting without the call of StateMachine().
Mut_StartConnect ==
  /\ m_state' = "eConnecting"
  /\ UNCHANGED connecting

\* m_state = eConnecting; StateMachine().
StartConnect ==
  /\ m_state' = "eConnecting"
  /\ connecting' = connecting \cup {attempt}

\* Mutant: onRead() does not clear m_readReq.
Mut_ReadDone == UNCHANGED m_readReq /\ reads' = reads - 1

\* async_read_some(), and the first statement of its completion handler.
StartRead == m_readReq' = TRUE /\ reads' = reads + 1
ReadDone  == m_readReq' = FALSE /\ reads' = reads - 1

\* Mutant: onData() writes without a look at m_writeReq.
Mut_StartWrite == m_writeReq' = TRUE /\ writes' = writes + 1

\* async_write(), unless one is outstanding.
StartWrite ==
  /\ m_writeReq' = TRUE
  /\ writes' = IF m_writeReq THEN writes ELSE writes + 1

\* Mutant: onWrite() leaves the next buffer to the next onData().
Mut_WriteNext(rest) == m_writeReq' = FALSE /\ writes' = writes - 1

\* The end of onWrite(): the next buffer, if there is one.
WriteNext(rest) ==
  /\ m_writeReq' = (rest # <<>>)
  /\ writes' = IF rest # <<>> THEN writes ELSE writes - 1

\* Mutants: the queue is not emptied when the connection is closed; the input
\* buffer is not replaced.
Mut_KeepOutput == m_inBuf' = FALSE /\ UNCHANGED m_outBufs /\ submitted' = 0 /\ wire' = 0
Mut_KeepInput  == UNCHANGED m_inBuf /\ m_outBufs' = <<>> /\ submitted' = 0 /\ wire' = 0

\* When a close ends, a new input buffer replaces the old one, and what was
\* not written is lost.
ClearBuffers ==
  /\ m_inBuf' = FALSE
  /\ m_outBufs' = <<>>
  /\ submitted' = 0
  /\ wire' = 0

\* Mutant: the completion handlers of start() do not test the state.
Mut_Expected(state) == TRUE

\* The test at the head of the completion handlers of start().
Expected(state) == m_state = state

-----------------------------------------------------------------------------
(* Calls by the owner of the handler.                                      *)

\* A call in any other state returns at once.
start ==
  /\ stack = <<>>
  /\ attempt < MaxStarts
  /\ m_state = "eNotConnected"
  /\ m_amqpError' = FALSE
  /\ m_state' = "eResolving"
  /\ attempt' = attempt + 1
  /\ resolving' = resolving \cup {attempt'}
  /\ shutdowns' = 0
  /\ nested' = FALSE
  /\ UNCHANGED <<m_connection, m_readReq, m_writeReq, m_inBuf, m_outBufs,
                 stack, connecting, io, abandoned, submitted, wire>>

stop ==
  /\ Dispatching
  /\ Len(stack) < MaxDepth
  /\ m_state # "eNotConnected"
  /\ BeginShutdown
  /\ abandoned' = IF m_state \in Opening THEN abandoned \cup {attempt} ELSE abandoned
  /\ UNCHANGED <<m_amqpError, m_connection, m_readReq, m_writeReq, m_inBuf,
                 m_outBufs, opening, io, attempt, shutdowns, submitted, wire>>

\* The wait loop finds both flags cleared: the rest of case eShutdown.
FinishShutdown ==
  /\ Closing
  /\ ~Waiting
  /\ NotConnected
  /\ ClearBuffers
  /\ m_connection' = FALSE
  /\ stack' = Tail(stack)
  /\ chunks' = 0
  /\ UNCHANGED <<m_amqpError, m_readReq, m_writeReq, opening, reads, writes,
                 attempt, nested, abandoned>>

-----------------------------------------------------------------------------
(* Completion of async_resolve and async_connect of the a-th start().  The *)
(* handlers do not know which start() they belong to, and stop() cancels   *)
(* neither operation.                                                      *)

ResolveDone(a) ==
  /\ Dispatching
  /\ a \in resolving
  /\ resolving' = resolving \ {a}
  /\ \/ ~Expected("eResolving") /\ UNCHANGED <<m_state, connecting, shutdowns>>
     \/ Expected("eResolving") /\ NotConnected /\ UNCHANGED connecting
     \/ Expected("eResolving") /\ StartConnect /\ UNCHANGED shutdowns
  /\ UNCHANGED <<m_amqpError, m_connection, m_readReq, m_writeReq, m_inBuf,
                 m_outBufs, stack, io, attempt, nested, abandoned, submitted, wire>>

ConnectDone(a) ==
  /\ Dispatching
  /\ a \in connecting
  /\ connecting' = connecting \ {a}
  /\ \/ ~Expected("eConnecting") /\ UNCHANGED <<m_state, shutdowns>>
     \/ Expected("eConnecting") /\ NotConnected
     \/ Expected("eConnecting") /\ m_state' = "eReceiverInit" /\ UNCHANGED shutdowns
  /\ UNCHANGED <<m_amqpError, m_connection, m_readReq, m_writeReq, m_inBuf,
                 m_outBufs, stack, resolving, io, attempt, nested, abandoned,
                 submitted, wire>>

-----------------------------------------------------------------------------
(* Calls by AMQP-CPP.  onData() comes from parse() and from whatever the   *)
(* application does; onError() and onClosed() come from parse() only.      *)
(* A call without a connection returns at once.                            *)

onData ==
  /\ Dispatching
  /\ submitted < MaxBufs
  /\ connected
  /\ m_connection' = TRUE
  /\ IF m_state = "eReceiverInit"
     THEN m_state' = "eReady" /\ StartRead
     ELSE UNCHANGED <<m_state, m_readReq, reads>>
  /\ submitted' = submitted + 1
  /\ m_outBufs' = Append(m_outBufs, submitted')
  /\ StartWrite
  /\ UNCHANGED <<m_amqpError, m_inBuf, stack, opening, chunks, attempt,
                 shutdowns, nested, abandoned, wire>>

onError ==
  /\ Parsing
  /\ connected
  /\ m_connection' = TRUE
  /\ m_amqpError' = TRUE
  /\ BeginShutdown
  /\ UNCHANGED <<m_readReq, m_writeReq, m_inBuf, m_outBufs, opening, io,
                 attempt, shutdowns, abandoned, submitted, wire>>

onClosed ==
  /\ Parsing
  /\ connected
  /\ m_connection' = TRUE
  /\ BeginShutdown
  /\ UNCHANGED <<m_amqpError, m_readReq, m_writeReq, m_inBuf, m_outBufs,
                 opening, io, attempt, shutdowns, abandoned, submitted, wire>>

-----------------------------------------------------------------------------
(* Completion of the socket operations.                                    *)

\* The broker sends; nothing more arrives once the socket is shut down.
Arrive ==
  /\ m_state \in {"eReceiverInit", "eReady"}
  /\ chunks < MaxChunks
  /\ chunks' = chunks + 1
  /\ UNCHANGED <<object, stack, opening, reads, writes, history>>

\* A failed operation closes the connection, unless it is being closed.
ShutdownOnError ==
  IF connected /\ m_state # "eShutdown"
  THEN BeginShutdown
  ELSE UNCHANGED <<m_state, stack, nested>>

\* Input that arrived before the socket was shut down is still delivered and
\* parsed, also in state eShutdown.  With less than AMQP-CPP expects, the next
\* read is started at once; otherwise parse() is called.
onRead ==
  /\ Dispatching
  /\ reads > 0
  /\ \/ /\ ReadDone
        /\ ShutdownOnError
        /\ UNCHANGED <<chunks, m_inBuf>>
     \/ /\ chunks > 0
        /\ chunks' = chunks - 1
        /\ m_inBuf' = TRUE
        /\ \/ connected /\ UNCHANGED <<m_readReq, reads, stack>>
           \/ /\ connected
              /\ ReadDone
              /\ stack' = <<"read">> \o stack
        /\ UNCHANGED <<m_state, nested>>
  /\ UNCHANGED <<m_amqpError, m_connection, m_writeReq, m_outBufs, opening,
                 writes, attempt, shutdowns, abandoned, submitted, wire>>

\* Mutant: no test after parse() has returned.
Mut_ResumeRead == StartRead /\ m_inBuf' \in BOOLEAN

\* "If broker unexpectedly close connection, this object already cleared."
\* Otherwise what parse() has used is consumed, all of the buffer or a part.
ResumeRead ==
  IF connected
  THEN StartRead /\ m_inBuf' \in BOOLEAN
  ELSE UNCHANGED <<m_readReq, reads, m_inBuf>>

\* parse() returns and the rest of onRead() runs.  More complete frames in the
\* buffer mean another parse(), which is a stutter here.
Parsed ==
  /\ Parsing
  /\ stack' = Tail(stack)
  /\ ResumeRead
  /\ UNCHANGED <<m_state, m_amqpError, m_connection, m_writeReq, m_outBufs,
                 opening, writes, chunks, history>>

\* async_write completes when all of the front buffer has been written.
onWrite ==
  /\ Dispatching
  /\ writes > 0
  /\ \/ /\ m_writeReq' = FALSE
        /\ writes' = writes - 1
        /\ ShutdownOnError
        /\ UNCHANGED <<m_outBufs, wire>>
     \/ /\ connected
        /\ wire' = Head(m_outBufs)
        /\ m_outBufs' = Tail(m_outBufs)
        /\ WriteNext(m_outBufs')
        /\ UNCHANGED <<m_state, stack, nested>>
  /\ UNCHANGED <<m_amqpError, m_connection, m_readReq, m_inBuf, opening, reads,
                 chunks, attempt, shutdowns, abandoned, submitted>>

-----------------------------------------------------------------------------

Opened == \E a \in 1 .. MaxStarts : ResolveDone(a) \/ ConnectDone(a)

Next ==
  \/ start
  \/ stop
  \/ FinishShutdown
  \/ Opened
  \/ onData
  \/ onError
  \/ onClosed
  \/ Arrive
  \/ onRead
  \/ Parsed
  \/ onWrite

Spec == Init /\ [][Next]_vars

\* The thread runs: a frame that can return does, and asio completes what was
\* started on the socket or before it.
Fairness ==
  /\ WF_vars(FinishShutdown)
  /\ WF_vars(Parsed)
  /\ WF_vars(onRead)
  /\ WF_vars(onWrite)
  /\ WF_vars(Opened)

FairSpec == Spec /\ Fairness

-----------------------------------------------------------------------------
(* Safety.                                                                 *)

\* At most one asynchronous read and one asynchronous write are outstanding,
\* and the flags that start(), stop() and the wait loop rely on say so: two
\* overlapping async_write calls would mix the bytes of two AMQP frames.
OneOperation ==
  /\ reads = IF m_readReq THEN 1 ELSE 0
  /\ writes = IF m_writeReq THEN 1 ELSE 0

\* A completion handler finds what it dereferences without a test: onRead()
\* the AMQP connection, also after parse() has called back, and onWrite() the
\* front of the output queue.
NoDanglingUse ==
  /\ (reads > 0 \/ (Parsing /\ connected)) => m_connection
  /\ writes > 0 => connected /\ m_outBufs # <<>>

\* What goes to the socket is what onData() was given, in that order, without
\* a gap or a repetition: the queue holds exactly the buffers after `wire'.
WireOrder ==
  m_outBufs = [i \in 1 .. (submitted - wire) |-> wire + i]

\* A connection in use is never deaf and never silent: a read is outstanding
\* or its handler is running, and a queued buffer has its write outstanding.
NeverStalls ==
  m_state = "eReady" =>
    /\ m_readReq \/ \E i \in DOMAIN stack : stack[i] = "read"
    /\ m_outBufs # <<>> => m_writeReq

\* In the state in which m_shutdownCb is called, no read and no write is
\* outstanding on the socket, and no input, no output and no AMQP connection of
\* the old connection is left to leak into a new one.  Nor is the resolver or
\* the socket still opening a connection, with one exception: stop() waits only
\* for reads and writes, so that what it finds opening goes on, and its
\* completion can set off more of it for a later start() (see OwnAttempt).
StoppedIsQuiet ==
  m_state = "eNotConnected" =>
    /\ reads = 0 /\ writes = 0
    /\ ~m_inBuf /\ m_outBufs = <<>>
    /\ ~m_connection
    /\ \A a \in resolving \cup connecting : \E b \in abandoned : b <= a

\* The owner is told of the end of every attempt, and told twice only if a
\* close began while another one was waiting in its loop.
NotifiedOnceUnlessNested ==
  /\ m_state = "eNotConnected" /\ attempt > 0 => shutdowns > 0
  /\ ~nested => shutdowns <= 1

\* The callback of the header ("called after the state machine has finished")
\* runs once for a start().  The code breaks it: see the README.
NotifiedOnce == shutdowns <= 1

\* "Instances can be reused": the completion of an operation of an earlier
\* start() leaves the state machine alone.  The code breaks it.
OwnAttempt ==
  [][\A a \in (resolving \ resolving') \cup (connecting \ connecting') :
       a # attempt => m_state' = m_state]_vars

-----------------------------------------------------------------------------
(* Liveness.                                                               *)

\* A close ends: the nested event loop does not wait forever.
ShutdownCompletes == m_state = "eShutdown" ~> m_state = "eNotConnected"

\* An attempt to connect ends in a connection, a failure or a stop.
AttemptSettles ==
  m_state \in Opening ~> m_state \notin Opening

-----------------------------------------------------------------------------
(* Refinement.                                                             *)

Phase ==
  CASE m_state = "eNotConnected" -> "down"
    [] m_state \in Opening -> "opening"
    [] m_state \in {"eReceiverInit", "eReady"} -> "up"
    [] OTHER -> "closing"

L == INSTANCE Link WITH phase <- Phase, queue <- m_outBufs

\* The handler implements the abstract link.
ImplementsLink == L!LinkSpec

=============================================================================
