-------------------- MODULE AmqpConnectionHandler_proofs ---------------------
(***************************************************************************)
(* Proofs about AmqpConnectionHandler, for every value of the bounds: its  *)
(* safety invariants, from the inductive invariant IInv, and that it       *)
(* implements Link.                                                        *)
(***************************************************************************)
EXTENDS AmqpConnectionHandler, TLAPS

OnStack(s, f) == \E i \in DOMAIN s : s[i] = f
Once(s, f)    == \A i, j \in DOMAIN s : s[i] = f /\ s[j] = f => i = j

\* While a call of parse() is suspended no read is outstanding, so that there
\* is never a second one; and nothing is opened while a frame is suspended.
FramesInv ==
  /\ Once(stack, "read")
  /\ OnStack(stack, "read") => ~m_readReq
  /\ stack # <<>> => m_state \in {"eReady", "eShutdown", "eNotConnected"}
  /\ OnStack(stack, "shutdown") => m_state \in {"eShutdown", "eNotConnected"}

\* Without a TCP connection the socket, the queue and the counters are idle;
\* before the first data from AMQP-CPP no read is outstanding.
QuietInv ==
  /\ ~connected =>
       /\ ~m_readReq /\ ~m_writeReq
       /\ m_outBufs = <<>> /\ submitted = 0 /\ wire = 0
       /\ ~m_inBuf /\ ~m_connection
  /\ m_state = "eReceiverInit" => ~m_readReq

\* What the completion handlers dereference is there.
UseInv ==
  /\ m_readReq => m_connection
  /\ OnStack(stack, "read") /\ connected => m_connection
  /\ m_writeReq => m_outBufs # <<>>

\* WireOrder, in the form in which Append and Tail preserve it.
QueueInv ==
  /\ Len(m_outBufs) = submitted - wire
  /\ \A i \in 1 .. Len(m_outBufs) : m_outBufs[i] = wire + i

BusyInv ==
  m_state = "eReady" =>
    /\ m_readReq \/ OnStack(stack, "read")
    /\ m_outBufs # <<>> => m_writeReq

\* Without a close inside a close, the frame of the close that is running is
\* the only one, and it is gone once the owner has been told.
NotifyInv ==
  /\ m_state = "eNotConnected" /\ attempt > 0 => shutdowns > 0
  /\ ~nested =>
       /\ Once(stack, "shutdown")
       /\ shutdowns <= 1
       /\ m_state # "eNotConnected" => shutdowns = 0
       /\ m_state = "eNotConnected" => ~OnStack(stack, "shutdown")

\* Until stop() ends an attempt that is opening, what is outstanding belongs to
\* the attempt that waits for it; from then on the attempts before that one
\* still have nothing outstanding.
OpenInv ==
  /\ m_state # "eNotConnected" => attempt > 0
  /\ abandoned = {} =>
       /\ resolving = IF m_state = "eResolving" THEN {attempt} ELSE {}
       /\ connecting = IF m_state = "eConnecting" THEN {attempt} ELSE {}
  /\ abandoned # {} =>
       \A a \in resolving \cup connecting : \E b \in abandoned : b <= a

IInv ==
  /\ TypeOK
  /\ OneOperation
  /\ FramesInv
  /\ QuietInv
  /\ UseInv
  /\ QueueInv
  /\ BusyInv
  /\ NotifyInv
  /\ OpenInv

-----------------------------------------------------------------------------
(* The stack of frames.                                                    *)

LEMMA EmptyStack ==
  ASSUME NEW f
  PROVE  ~OnStack(<<>>, f) /\ Once(<<>>, f)
BY DEF OnStack, Once

\* Suspending a frame: what is on the stack afterwards.
LEMMA PushFrame ==
  ASSUME NEW s \in Seq(Frame), NEW f \in Frame
  PROVE  /\ <<f>> \o s \in Seq(Frame)
         /\ <<f>> \o s # <<>>
         /\ Head(<<f>> \o s) = f
         /\ \A g \in Frame : OnStack(<<f>> \o s, g) <=> g = f \/ OnStack(s, g)
         /\ \A g \in Frame : Once(s, g) /\ (g = f => ~OnStack(s, g))
                              => Once(<<f>> \o s, g)
<1> DEFINE t == <<f>> \o s
<1>1. /\ t \in Seq(Frame)
      /\ Len(t) = Len(s) + 1
      /\ t[1] = f
      /\ \A i \in 1 .. Len(s) : t[i + 1] = s[i]
  OBVIOUS
<1>2. /\ DOMAIN t = 1 .. Len(s) + 1
      /\ DOMAIN s = 1 .. Len(s)
      /\ Len(s) \in Nat
  BY <1>1
<1>3. t # <<>> /\ Head(t) = f
  BY <1>1
<1> HIDE DEF t
<1>4. \A i \in DOMAIN t : i = 1 \/ (i - 1 \in DOMAIN s /\ t[i] = s[i - 1])
  BY <1>1, <1>2
<1>5. ASSUME NEW g \in Frame
      PROVE  OnStack(t, g) <=> g = f \/ OnStack(s, g)
  <2>1. \A i \in DOMAIN s : i + 1 \in DOMAIN t /\ t[i + 1] = s[i]
    BY <1>1, <1>2
  <2>2. 1 \in DOMAIN t /\ t[1] = f
    BY <1>1, <1>2
  <2>3. OnStack(t, g) => g = f \/ OnStack(s, g)
    BY <1>4, <2>2 DEF OnStack
  <2>4. g = f => OnStack(t, g)
    BY <2>2 DEF OnStack
  <2>5. OnStack(s, g) => OnStack(t, g)
    <3>1. SUFFICES ASSUME NEW i \in DOMAIN s, s[i] = g
                   PROVE  OnStack(t, g)
      BY DEF OnStack
    <3>2. i + 1 \in DOMAIN t /\ t[i + 1] = g
      BY <2>1, <3>1
    <3> QED
      BY <3>2 DEF OnStack
  <2> QED
    BY <2>3, <2>4, <2>5
<1>6. ASSUME NEW g \in Frame, Once(s, g), g = f => ~OnStack(s, g)
      PROVE  Once(t, g)
  BY <1>1, <1>2, <1>4, <1>6 DEF OnStack, Once
<1> QED
  BY <1>1, <1>3, <1>5, <1>6 DEF t

\* Returning from the innermost frame: what is left on the stack.
LEMMA PopFrame ==
  ASSUME NEW s \in Seq(Frame), s # <<>>
  PROVE  /\ Tail(s) \in Seq(Frame)
         /\ OnStack(s, Head(s))
         /\ \A g \in Frame : OnStack(Tail(s), g) => OnStack(s, g)
         /\ \A g \in Frame : Once(s, g) => Once(Tail(s), g)
         /\ \A g \in Frame : Once(s, g) /\ Head(s) = g => ~OnStack(Tail(s), g)
<1> DEFINE t == Tail(s)
<1>1. /\ t \in Seq(Frame)
      /\ DOMAIN t = 1 .. Len(s) - 1
      /\ DOMAIN s = 1 .. Len(s)
      /\ Len(s) \in Nat \ {0}
      /\ Head(s) = s[1]
      /\ \A i \in 1 .. Len(s) - 1 : t[i] = s[i + 1]
  OBVIOUS
<1> HIDE DEF t
<1>2. \A i \in DOMAIN t : i + 1 \in DOMAIN s /\ t[i] = s[i + 1] /\ i + 1 # 1
  BY <1>1
<1>3. OnStack(s, Head(s))
  BY <1>1 DEF OnStack
<1>4. ASSUME NEW g \in Frame
      PROVE  OnStack(t, g) => OnStack(s, g)
  BY <1>2 DEF OnStack
<1>5. ASSUME NEW g \in Frame, Once(s, g)
      PROVE  Once(t, g)
  BY <1>1, <1>2, <1>5 DEF Once
<1>6. ASSUME NEW g \in Frame, Once(s, g), Head(s) = g
      PROVE  ~OnStack(t, g)
  BY <1>1, <1>2, <1>6 DEF Once, OnStack
<1> QED
  BY <1>1, <1>3, <1>4, <1>5, <1>6 DEF t

-----------------------------------------------------------------------------
(* IInv is inductive.                                                      *)

LEMMA InitIInv == Init => IInv
<1> SUFFICES ASSUME Init PROVE IInv
  OBVIOUS
<1>1. TypeOK
  <2>1. FlagsOK
    BY DEF Init, Constructed, FlagsOK
  <2> QED
    BY <2>1 DEF Init, Constructed, InitialState, TypeOK, State
<1> QED
  BY <1>1, EmptyStack
  DEF Init, Constructed, InitialState, IInv, OneOperation, FramesInv, QuietInv,
      UseInv, QueueInv, BusyInv, NotifyInv, OpenInv, connected

LEMMA StartStep == IInv /\ start => IInv'
<1> SUFFICES ASSUME IInv, start PROVE IInv'
  OBVIOUS
<1> USE DEF IInv, start, opening, io
<1>1. TypeOK'
  <2>1. FlagsOK'
    BY DEF TypeOK, FlagsOK
  <2> QED
    BY <2>1 DEF TypeOK, State
<1>2. OneOperation'
  BY DEF OneOperation, TypeOK, State, QuietInv
<1>3. FramesInv'
  BY EmptyStack DEF FramesInv, TypeOK, State
<1>4. QuietInv'
  BY DEF QuietInv, TypeOK, State, FramesInv, connected
<1>5. UseInv'
  BY EmptyStack DEF UseInv, QuietInv, TypeOK, State, FramesInv, connected
<1>6. QueueInv'
  BY DEF QueueInv, QuietInv, TypeOK
<1>7. BusyInv'
  BY DEF BusyInv, FramesInv, TypeOK, State
<1>8. NotifyInv'
  BY EmptyStack DEF NotifyInv, FramesInv, QuietInv, TypeOK, State, connected
<1>9. OpenInv'
  <2>1. attempt \in Nat /\ attempt' = attempt + 1 /\ abandoned' = abandoned
        /\ resolving' = resolving \cup {attempt'} /\ connecting' = connecting
        /\ m_state = "eNotConnected" /\ m_state' = "eResolving"
    BY DEF TypeOK
  <2>2. CASE abandoned = {}
    BY <2>1, <2>2 DEF OpenInv
  <2>3. CASE abandoned # {}
    <3>1. PICK b \in abandoned : TRUE
      BY <2>3
    <3>2. b \in 1 .. attempt
      BY <3>1 DEF TypeOK
    <3>3. b \in abandoned' /\ b <= attempt'
      BY <2>1, <3>1, <3>2
    <3>4. \A a \in resolving \cup connecting : \E c \in abandoned : c <= a
      BY <2>3 DEF OpenInv
    <3>5. \A a \in resolving' \cup connecting' : \E c \in abandoned' : c <= a
      BY <2>1, <3>3, <3>4
    <3>6. attempt' > 0
      BY <2>1
    <3> QED
      BY <2>1, <2>3, <3>5, <3>6 DEF OpenInv
  <2> QED
    BY <2>2, <2>3
<1> QED
  BY <1>1, <1>2, <1>3, <1>4, <1>5, <1>6, <1>7, <1>8, <1>9

LEMMA ArriveStep == IInv /\ Arrive => IInv'
<1> SUFFICES ASSUME IInv, Arrive PROVE IInv'
  OBVIOUS
<1> USE DEF IInv, Arrive, object, opening, history
<1>1. TypeOK'
  <2>1. FlagsOK'
    BY DEF TypeOK, FlagsOK
  <2> QED
    BY <2>1 DEF TypeOK, State
<1>2. OneOperation'
  BY DEF OneOperation, TypeOK, State, QuietInv
<1>3. FramesInv'
  BY EmptyStack DEF FramesInv, TypeOK, State
<1>4. QuietInv'
  BY DEF QuietInv, TypeOK, State, FramesInv, connected
<1>5. UseInv'
  BY EmptyStack DEF UseInv, QuietInv, TypeOK, State, FramesInv, connected
<1>6. QueueInv'
  BY DEF QueueInv, QuietInv, TypeOK
<1>7. BusyInv'
  BY DEF BusyInv, FramesInv, TypeOK, State
<1>8. NotifyInv'
  BY EmptyStack DEF NotifyInv, FramesInv, QuietInv, TypeOK, State, connected
<1>9. OpenInv'
  BY DEF OpenInv
<1> QED
  BY <1>1, <1>2, <1>3, <1>4, <1>5, <1>6, <1>7, <1>8, <1>9

LEMMA ResolveDoneStep == ASSUME NEW a, IInv, ResolveDone(a) PROVE IInv'
<1> USE DEF IInv, ResolveDone, Expected, NotConnected, StartConnect, io
<1>1. TypeOK'
  <2>1. FlagsOK'
    BY DEF TypeOK, FlagsOK
  <2>2. resolving' \in SUBSET Nat /\ connecting' \in SUBSET Nat
    BY DEF TypeOK
  <2> QED
    BY <2>1, <2>2 DEF TypeOK, State
<1>2. OneOperation'
  BY DEF OneOperation, TypeOK, State, QuietInv
<1>3. FramesInv'
  BY EmptyStack DEF FramesInv, TypeOK, State
<1>4. QuietInv'
  BY DEF QuietInv, TypeOK, State, FramesInv, connected
<1>5. UseInv'
  BY EmptyStack DEF UseInv, QuietInv, TypeOK, State, FramesInv, connected
<1>6. QueueInv'
  BY DEF QueueInv, QuietInv, TypeOK
<1>7. BusyInv'
  BY DEF BusyInv, FramesInv, TypeOK, State
<1>8. NotifyInv'
  BY EmptyStack DEF NotifyInv, FramesInv, QuietInv, TypeOK, State, connected
<1>9. OpenInv'
  <2>1. CASE abandoned = {}
    BY <2>1 DEF OpenInv
  <2>2. CASE abandoned # {}
    <3>1. PICK b \in abandoned : TRUE
      BY <2>2
    <3>2. b <= attempt
      BY <3>1 DEF TypeOK
    <3>3. \A c \in resolving \cup connecting : \E d \in abandoned : d <= c
      BY <2>2 DEF OpenInv
    <3>4. resolving' \cup connecting' \subseteq resolving \cup connecting \cup {attempt}
      OBVIOUS
    <3>5. \A c \in resolving' \cup connecting' : \E d \in abandoned' : d <= c
      BY <3>1, <3>2, <3>3, <3>4
    <3> QED
      BY <2>2, <3>5 DEF OpenInv
  <2> QED
    BY <2>1, <2>2
<1> QED
  BY <1>1, <1>2, <1>3, <1>4, <1>5, <1>6, <1>7, <1>8, <1>9

LEMMA ConnectDoneStep == ASSUME NEW a, IInv, ConnectDone(a) PROVE IInv'
<1> USE DEF IInv, ConnectDone, Expected, NotConnected, io
<1>1. TypeOK'
  <2>1. FlagsOK'
    BY DEF TypeOK, FlagsOK
  <2> QED
    BY <2>1 DEF TypeOK, State
<1>2. OneOperation'
  BY DEF OneOperation, TypeOK, State, QuietInv
<1>3. FramesInv'
  BY EmptyStack DEF FramesInv, TypeOK, State
<1>4. QuietInv'
  BY DEF QuietInv, TypeOK, State, FramesInv, connected
<1>5. UseInv'
  BY EmptyStack DEF UseInv, QuietInv, TypeOK, State, FramesInv, connected
<1>6. QueueInv'
  BY DEF QueueInv, QuietInv, TypeOK
<1>7. BusyInv'
  BY DEF BusyInv, FramesInv, TypeOK, State
<1>8. NotifyInv'
  BY EmptyStack DEF NotifyInv, FramesInv, QuietInv, TypeOK, State, connected
<1>9. OpenInv'
  <2>1. CASE abandoned = {}
    BY <2>1 DEF OpenInv
  <2>2. CASE abandoned # {}
    BY <2>2 DEF OpenInv
  <2> QED
    BY <2>1, <2>2
<1> QED
  BY <1>1, <1>2, <1>3, <1>4, <1>5, <1>6, <1>7, <1>8, <1>9

\* What BeginShutdown does to the stack.
LEMMA CloseFrame ==
  ASSUME TypeOK, BeginShutdown
  PROVE  /\ stack' \in Seq(Frame)
         /\ stack' # <<>>
         /\ OnStack(stack', "read") <=> OnStack(stack, "read")
         /\ Once(stack, "read") => Once(stack', "read")
         /\ ~OnStack(stack, "shutdown") => Once(stack', "shutdown")
<1>1. /\ stack \in Seq(Frame)
      /\ stack' = <<"shutdown">> \o stack
      /\ "shutdown" \in Frame
      /\ "read" \in Frame
  BY DEF TypeOK, BeginShutdown, Frame
<1> DEFINE t == <<"shutdown">> \o stack
<1>2. /\ t \in Seq(Frame)
      /\ t # <<>>
      /\ \A g \in Frame : OnStack(t, g) <=> g = "shutdown" \/ OnStack(stack, g)
      /\ \A g \in Frame :
           Once(stack, g) /\ (g = "shutdown" => ~OnStack(stack, g)) => Once(t, g)
  BY <1>1, PushFrame
<1> HIDE DEF t
<1>3. stack' = t
  BY <1>1 DEF t
<1>4. ~OnStack(stack, "shutdown") => Once(stack, "shutdown")
  BY DEF OnStack, Once
<1> QED
  BY <1>1, <1>2, <1>3, <1>4

\* The start of a close preserves IInv; onError() and onClosed() also set
\* the connection, and onRead() and onWrite() have cleared their flag.
LEMMA BeginShutdownStep ==
  ASSUME IInv, BeginShutdown, m_state # "eNotConnected",
         m_amqpError' \in BOOLEAN,
         m_connection' \in BOOLEAN, m_connection => m_connection',
         UNCHANGED <<m_inBuf, m_outBufs, opening, chunks, attempt, shutdowns,
                     submitted, wire>>,
         \/ UNCHANGED abandoned /\ m_state \notin Opening
         \/ abandoned' = abandoned \cup {attempt},
         \/ UNCHANGED <<m_readReq, reads>>
         \/ ReadDone /\ reads > 0,
         \/ UNCHANGED <<m_writeReq, writes>>
         \/ m_writeReq' = FALSE /\ writes' = writes - 1 /\ writes > 0
  PROVE  IInv'
<1> USE DEF IInv, opening, ReadDone
<1>1. m_state' = "eShutdown" /\ nested' = (nested \/ m_state = "eShutdown")
  BY DEF BeginShutdown
<1>2. reads' \in Nat /\ writes' \in Nat
  BY DEF TypeOK
<1>3. FlagsOK'
  BY <1>1 DEF TypeOK, FlagsOK
<1>4. TypeOK'
  <2>1. attempt \in 1 .. attempt /\ attempt' = attempt
    BY DEF TypeOK, OpenInv
  <2>2. abandoned' \in SUBSET (1 .. attempt')
    BY <2>1 DEF TypeOK
  <2> QED
    BY <1>1, <1>2, <1>3, <2>2, CloseFrame DEF TypeOK, State
<1>5. OneOperation'
  BY DEF OneOperation, TypeOK
<1>6. FramesInv'
  BY <1>1, CloseFrame DEF FramesInv
<1>7. QuietInv'
  BY <1>1 DEF QuietInv, connected
<1>8. UseInv'
  <2>1. OnStack(stack, "read") => m_connection
    BY EmptyStack DEF UseInv, connected, FramesInv
  <2> QED
    BY <1>1, <2>1, CloseFrame DEF UseInv
<1>9. QueueInv'
  BY DEF QueueInv
<1>10. BusyInv'
  BY <1>1 DEF BusyInv
<1>11. NotifyInv'
  BY <1>1, CloseFrame DEF NotifyInv, FramesInv
<1>12. OpenInv'
  <2>1. CASE UNCHANGED abandoned /\ m_state \notin Opening
    BY <1>1, <2>1 DEF OpenInv, Opening
  <2>2. CASE abandoned' = abandoned \cup {attempt}
    <3>1. attempt > 0 /\ abandoned' # {}
      BY <2>2 DEF OpenInv
    <3>2. attempt \in Nat /\ abandoned \subseteq abandoned' /\ attempt \in abandoned'
      BY <2>2 DEF TypeOK
    <3>3. \A a \in resolving \cup connecting : a = attempt \/ \E b \in abandoned : b <= a
      BY DEF OpenInv
    <3>4. \A a \in resolving \cup connecting : \E b \in abandoned' : b <= a
      BY <3>2, <3>3
    <3> QED
      BY <3>1, <3>4 DEF OpenInv
  <2> QED
    BY <2>1, <2>2
<1> QED
  BY <1>4, <1>5, <1>6, <1>7, <1>8, <1>9, <1>10, <1>11, <1>12

LEMMA StopStep == IInv /\ stop => IInv'
<1> SUFFICES ASSUME IInv, stop PROVE IInv'
  OBVIOUS
<1>1. m_amqpError \in BOOLEAN /\ m_connection \in BOOLEAN
  BY DEF IInv, TypeOK, FlagsOK
<1> QED
  BY <1>1, BeginShutdownStep DEF stop, io, IInv, TypeOK, State

LEMMA OnErrorStep == IInv /\ onError => IInv'
<1> SUFFICES ASSUME IInv, onError PROVE IInv'
  OBVIOUS
<1>1. m_amqpError' \in BOOLEAN /\ m_connection' \in BOOLEAN /\ m_connection'
  BY DEF onError
<1>2. m_state # "eNotConnected" /\ m_state \notin Opening
  BY DEF onError, connected, Opening
<1> QED
  BY <1>1, <1>2, BeginShutdownStep DEF onError, io

LEMMA OnClosedStep == IInv /\ onClosed => IInv'
<1> SUFFICES ASSUME IInv, onClosed PROVE IInv'
  OBVIOUS
<1>1. m_amqpError' \in BOOLEAN /\ m_connection' \in BOOLEAN /\ m_connection'
  BY DEF onClosed, IInv, TypeOK, FlagsOK
<1>2. m_state # "eNotConnected" /\ m_state \notin Opening
  BY DEF onClosed, connected, Opening
<1> QED
  BY <1>1, <1>2, BeginShutdownStep DEF onClosed, io

\* When a close ends, the wait loop has seen both flags cleared, so that
\* nothing is outstanding on the socket.
LEMMA FinishShutdownStep == IInv /\ FinishShutdown => IInv'
<1> SUFFICES ASSUME IInv, FinishShutdown PROVE IInv'
  OBVIOUS
<1> USE DEF IInv, FinishShutdown, NotConnected, ClearBuffers, Closing, Waiting,
            opening
<1>1. /\ stack \in Seq(Frame) /\ stack # <<>> /\ Head(stack) = "shutdown"
      /\ stack' = Tail(stack)
      /\ "read" \in Frame /\ "shutdown" \in Frame
  BY DEF TypeOK, Frame
<1>2. /\ stack' \in Seq(Frame)
      /\ OnStack(stack, "shutdown")
      /\ OnStack(stack', "read") => OnStack(stack, "read")
      /\ Once(stack, "read") => Once(stack', "read")
      /\ Once(stack, "shutdown") => Once(stack', "shutdown")
      /\ Once(stack, "shutdown") => ~OnStack(stack', "shutdown")
  BY <1>1, PopFrame
<1>3. TypeOK'
  <2>1. FlagsOK'
    BY DEF TypeOK, FlagsOK
  <2> QED
    BY <1>2, <2>1 DEF TypeOK, State
<1>4. OneOperation'
  BY DEF OneOperation
<1>5. FramesInv'
  BY <1>2 DEF FramesInv
<1>6. QuietInv'
  BY DEF QuietInv
<1>7. UseInv'
  BY DEF UseInv, connected
<1>8. QueueInv'
  BY DEF QueueInv
<1>9. BusyInv'
  BY DEF BusyInv
<1>10. NotifyInv'
  BY <1>2 DEF NotifyInv, TypeOK, FramesInv
<1>11. OpenInv'
  BY <1>2 DEF OpenInv, FramesInv
<1> QED
  BY <1>3, <1>4, <1>5, <1>6, <1>7, <1>8, <1>9, <1>10, <1>11

LEMMA OnDataStep == IInv /\ onData => IInv'
<1> SUFFICES ASSUME IInv, onData PROVE IInv'
  OBVIOUS
<1> USE DEF IInv, onData, StartRead, StartWrite, opening
<1>1. /\ m_outBufs \in Seq(Nat) /\ submitted' = submitted + 1
      /\ submitted' \in Nat
      /\ m_outBufs' = Append(m_outBufs, submitted')
  BY DEF TypeOK
<1>2. /\ m_outBufs' \in Seq(Nat) /\ m_outBufs' # <<>>
      /\ Len(m_outBufs') = Len(m_outBufs) + 1
      /\ \A i \in 1 .. Len(m_outBufs) : m_outBufs'[i] = m_outBufs[i]
      /\ m_outBufs'[Len(m_outBufs) + 1] = submitted'
  BY <1>1
<1>3. TypeOK'
  <2>1. FlagsOK'
    BY DEF TypeOK, FlagsOK
  <2> QED
    BY <1>1, <1>2, <2>1 DEF TypeOK, State
<1>4. OneOperation'
  BY DEF OneOperation, QuietInv, TypeOK
<1>5. FramesInv'
  BY EmptyStack DEF FramesInv, connected
<1>6. QuietInv'
  BY DEF QuietInv, connected
<1>7. UseInv'
  BY <1>2 DEF UseInv
<1>8. QueueInv'
  <2>1. /\ Len(m_outBufs) \in Nat /\ wire \in Nat /\ submitted \in Nat
        /\ Len(m_outBufs) = submitted - wire /\ wire' = wire
        /\ \A i \in 1 .. Len(m_outBufs) : m_outBufs[i] = wire + i
    BY DEF TypeOK, QueueInv
  <2>2. ASSUME NEW i \in 1 .. Len(m_outBufs')
        PROVE  m_outBufs'[i] = wire' + i
    <3>1. CASE i \in 1 .. Len(m_outBufs)
      BY <1>2, <2>1, <3>1
    <3>2. CASE i = Len(m_outBufs) + 1
      BY <1>1, <1>2, <2>1, <3>2
    <3> QED
      BY <1>2, <2>1, <3>1, <3>2
  <2> QED
    BY <1>1, <1>2, <2>1, <2>2 DEF QueueInv
<1>9. BusyInv'
  BY DEF BusyInv
<1>10. NotifyInv'
  BY DEF NotifyInv, connected
<1>11. OpenInv'
  BY DEF OpenInv, connected
<1> QED
  BY <1>3, <1>4, <1>5, <1>6, <1>7, <1>8, <1>9, <1>10, <1>11

\* What the call of parse() does to the stack.
LEMMA ParseFrame ==
  ASSUME TypeOK, stack' = <<"read">> \o stack
  PROVE  /\ stack' \in Seq(Frame)
         /\ stack' # <<>>
         /\ OnStack(stack', "read")
         /\ ~OnStack(stack, "read") => Once(stack', "read")
         /\ OnStack(stack', "shutdown") <=> OnStack(stack, "shutdown")
         /\ Once(stack, "shutdown") => Once(stack', "shutdown")
<1>1. stack \in Seq(Frame) /\ "shutdown" \in Frame /\ "read" \in Frame
  BY DEF TypeOK, Frame
<1> DEFINE t == <<"read">> \o stack
<1>2. /\ t \in Seq(Frame)
      /\ t # <<>>
      /\ \A g \in Frame : OnStack(t, g) <=> g = "read" \/ OnStack(stack, g)
      /\ \A g \in Frame :
           Once(stack, g) /\ (g = "read" => ~OnStack(stack, g)) => Once(t, g)
  BY <1>1, PushFrame
<1> HIDE DEF t
<1>3. stack' = t
  BY DEF t
<1>4. ~OnStack(stack, "read") => Once(stack, "read")
  BY DEF OnStack, Once
<1> QED
  BY <1>1, <1>2, <1>3, <1>4

\* A read completes: with an error, with too little input, or with enough for
\* a call of parse(), which suspends the frame of onRead().
LEMMA OnReadStep == IInv /\ onRead => IInv'
<1> SUFFICES ASSUME IInv, onRead PROVE IInv'
  OBVIOUS
<1>1. m_readReq /\ m_state \in {"eReady", "eShutdown"} /\ m_connection
      /\ m_state \notin Opening
  BY DEF IInv, TypeOK, State, onRead, OneOperation, QuietInv, UseInv, connected, Opening
<1>2. m_amqpError \in BOOLEAN /\ m_connection \in BOOLEAN
  BY DEF IInv, TypeOK, FlagsOK
<1>3. CASE ReadDone /\ BeginShutdown /\ UNCHANGED <<chunks, m_inBuf>>
  BY <1>1, <1>2, <1>3, BeginShutdownStep DEF onRead, io, opening
<1>4. CASE /\ m_state = "eShutdown"
           /\ ReadDone
           /\ UNCHANGED <<m_state, stack, nested, chunks, m_inBuf>>
  <2> USE <1>4 DEF IInv, ReadDone, onRead, opening
  <2>1. FlagsOK'
    BY DEF TypeOK, FlagsOK
  <2>2. reads' = 0
    BY <1>1 DEF OneOperation
  <2>3. TypeOK'
    BY <2>1, <2>2 DEF TypeOK
  <2>4. OneOperation'
    BY <2>2 DEF OneOperation
  <2>5. FramesInv' /\ QuietInv' /\ UseInv'
    BY DEF FramesInv, QuietInv, UseInv, connected
  <2>6. QueueInv' /\ BusyInv' /\ NotifyInv' /\ OpenInv'
    BY DEF QueueInv, BusyInv, NotifyInv, OpenInv
  <2> QED
    BY <2>3, <2>4, <2>5, <2>6
<1>5. CASE /\ UNCHANGED <<m_state, stack, nested, m_readReq, reads>>
           /\ chunks > 0 /\ chunks' = chunks - 1 /\ m_inBuf' = TRUE
  <2> USE <1>5 DEF IInv, onRead, opening
  <2>1. FlagsOK'
    BY DEF TypeOK, FlagsOK
  <2>2. chunks' \in Nat
    BY DEF TypeOK
  <2>3. TypeOK'
    BY <2>1, <2>2 DEF TypeOK
  <2>4. OneOperation' /\ FramesInv' /\ QuietInv' /\ UseInv'
    BY DEF OneOperation, FramesInv, QuietInv, UseInv, connected
  <2>5. QueueInv' /\ BusyInv' /\ NotifyInv' /\ OpenInv'
    BY DEF QueueInv, BusyInv, NotifyInv, OpenInv
  <2> QED
    BY <2>3, <2>4, <2>5
<1>6. CASE /\ ReadDone /\ stack' = <<"read">> \o stack
           /\ UNCHANGED <<m_state, nested>>
           /\ chunks > 0 /\ chunks' = chunks - 1 /\ m_inBuf' = TRUE
  <2> USE <1>6 DEF IInv, ReadDone, onRead, opening
  <2>1. FlagsOK'
    BY DEF TypeOK, FlagsOK
  <2>2. reads' = 0 /\ chunks' \in Nat
    BY <1>1 DEF OneOperation, TypeOK
  <2>3. ~OnStack(stack, "read")
    BY <1>1 DEF FramesInv
  <2>4. TypeOK'
    BY <2>1, <2>2, ParseFrame DEF TypeOK
  <2>5. OneOperation'
    BY <2>2 DEF OneOperation
  <2>6. FramesInv'
    BY <1>1, <2>3, ParseFrame DEF FramesInv
  <2>7. QuietInv' /\ UseInv'
    BY <1>1 DEF QuietInv, UseInv, connected
  <2>8. QueueInv'
    BY DEF QueueInv
  <2>9. BusyInv'
    BY ParseFrame DEF BusyInv
  <2>10. NotifyInv'
    BY ParseFrame DEF NotifyInv
  <2>11. OpenInv'
    BY DEF OpenInv
  <2> QED
    BY <2>4, <2>5, <2>6, <2>7, <2>8, <2>9, <2>10, <2>11
<1> QED
  BY <1>1, <1>3, <1>4, <1>5, <1>6 DEF onRead, ShutdownOnError, connected

\* parse() returns: its frame was the only one, so the new read is the first.
LEMMA ParsedStep == IInv /\ Parsed => IInv'
<1> SUFFICES ASSUME IInv, Parsed PROVE IInv'
  OBVIOUS
<1> USE DEF IInv, Parsed, opening, history, ResumeRead, StartRead
<1>1. /\ stack \in Seq(Frame) /\ stack # <<>> /\ Head(stack) = "read"
      /\ stack' = Tail(stack)
      /\ "read" \in Frame /\ "shutdown" \in Frame
  BY DEF TypeOK, Frame, Parsing
<1>2. /\ stack' \in Seq(Frame)
      /\ OnStack(stack, "read")
      /\ Once(stack, "read") => Once(stack', "read") /\ ~OnStack(stack', "read")
      /\ OnStack(stack', "shutdown") => OnStack(stack, "shutdown")
      /\ Once(stack, "shutdown") => Once(stack', "shutdown")
  BY <1>1, PopFrame
<1>3. ~m_readReq /\ reads = 0
  BY <1>2 DEF FramesInv, OneOperation
<1>4. TypeOK'
  <2>1. FlagsOK'
    BY DEF TypeOK, FlagsOK
  <2> QED
    BY <1>2, <1>3, <2>1 DEF TypeOK, State
<1>5. OneOperation'
  BY <1>3 DEF OneOperation
<1>6. FramesInv'
  BY <1>1, <1>2 DEF FramesInv
<1>7. QuietInv'
  BY <1>1 DEF QuietInv, FramesInv, connected
<1>8. UseInv'
  BY <1>2, <1>3 DEF UseInv, FramesInv, connected
<1>9. QueueInv'
  BY DEF QueueInv
<1>10. BusyInv'
  BY DEF BusyInv, connected
<1>11. NotifyInv'
  BY <1>2 DEF NotifyInv
<1>12. OpenInv'
  BY DEF OpenInv
<1> QED
  BY <1>4, <1>5, <1>6, <1>7, <1>8, <1>9, <1>10, <1>11, <1>12

\* What the success branch of onWrite() does to the queue.
LEMMA PopBuffer ==
  ASSUME TypeOK, QueueInv, m_outBufs # <<>>, m_outBufs' = Tail(m_outBufs),
         wire' = Head(m_outBufs), submitted' = submitted
  PROVE  m_outBufs' \in Seq(Nat) /\ wire' \in Nat /\ QueueInv'
<1>1. /\ m_outBufs \in Seq(Nat) /\ Len(m_outBufs) \in Nat \ {0}
      /\ wire \in Nat /\ submitted \in Nat
  BY DEF TypeOK
<1>2. /\ m_outBufs' \in Seq(Nat)
      /\ Len(m_outBufs') = Len(m_outBufs) - 1
      /\ \A i \in 1 .. Len(m_outBufs) - 1 : m_outBufs'[i] = m_outBufs[i + 1]
      /\ wire' = m_outBufs[1]
  BY <1>1
<1>3. wire' = wire + 1
  BY <1>1, <1>2 DEF QueueInv
<1>4. ASSUME NEW i \in 1 .. Len(m_outBufs')
      PROVE  m_outBufs'[i] = wire' + i
  <2>1. i \in 1 .. Len(m_outBufs) - 1 /\ i + 1 \in 1 .. Len(m_outBufs)
    BY <1>1, <1>2
  <2>2. m_outBufs[i + 1] = wire + (i + 1)
    BY <2>1 DEF QueueInv
  <2> QED
    BY <1>1, <1>2, <1>3, <2>1, <2>2
<1> QED
  BY <1>1, <1>2, <1>3, <1>4 DEF QueueInv

LEMMA OnWriteStep == IInv /\ onWrite => IInv'
<1> SUFFICES ASSUME IInv, onWrite PROVE IInv'
  OBVIOUS
<1>1. m_writeReq /\ connected /\ m_state # "eNotConnected"
      /\ m_state \notin Opening
  BY DEF IInv, TypeOK, State, onWrite, OneOperation, QuietInv, connected, Opening
<1>2. m_amqpError \in BOOLEAN /\ m_connection \in BOOLEAN
  BY DEF IInv, TypeOK, FlagsOK
<1>3. CASE /\ m_writeReq' = FALSE /\ writes' = writes - 1
           /\ BeginShutdown /\ UNCHANGED <<m_outBufs, wire>>
  BY <1>1, <1>2, <1>3, BeginShutdownStep DEF onWrite
<1>4. CASE /\ m_state = "eShutdown"
           /\ m_writeReq' = FALSE /\ writes' = writes - 1
           /\ UNCHANGED <<m_state, stack, nested, m_outBufs, wire>>
  <2> USE <1>4 DEF IInv, onWrite, opening
  <2>1. FlagsOK'
    BY DEF TypeOK, FlagsOK
  <2>2. writes' = 0
    BY <1>1 DEF OneOperation
  <2>3. TypeOK'
    BY <2>1, <2>2 DEF TypeOK
  <2>4. OneOperation'
    BY <2>2 DEF OneOperation
  <2>5. FramesInv' /\ QuietInv' /\ UseInv'
    BY DEF FramesInv, QuietInv, UseInv, connected
  <2>6. QueueInv' /\ BusyInv' /\ NotifyInv' /\ OpenInv'
    BY DEF QueueInv, BusyInv, NotifyInv, OpenInv
  <2> QED
    BY <2>3, <2>4, <2>5, <2>6
<1>5. CASE /\ wire' = Head(m_outBufs) /\ m_outBufs' = Tail(m_outBufs)
           /\ WriteNext(m_outBufs')
           /\ UNCHANGED <<m_state, stack, nested>>
  <2> USE <1>5 DEF IInv, onWrite, opening, WriteNext
  <2>1. m_outBufs' \in Seq(Nat) /\ wire' \in Nat /\ QueueInv'
    BY <1>1, PopBuffer DEF UseInv
  <2>2. FlagsOK'
    BY DEF TypeOK, FlagsOK
  <2>3. writes = 1
    BY <1>1 DEF OneOperation
  <2>4. TypeOK'
    <3>1. writes' \in Nat
      BY <2>3
    <3>2. abandoned' \in SUBSET (1 .. attempt')
      BY DEF TypeOK
    <3> QED
      BY <2>1, <2>2, <3>1, <3>2 DEF TypeOK
  <2>5. OneOperation'
    <3>1. m_writeReq' <=> m_outBufs' # <<>>
      OBVIOUS
    <3>2. writes' = IF m_outBufs' # <<>> THEN 1 ELSE 0
      BY <2>3
    <3>3. reads' = IF m_readReq' THEN 1 ELSE 0
      BY DEF OneOperation
    <3> QED
      BY <3>1, <3>2, <3>3 DEF OneOperation
  <2>6. FramesInv' /\ UseInv'
    BY DEF FramesInv, UseInv, connected
  <2>7. QuietInv'
    BY <1>1 DEF QuietInv, connected
  <2>8. BusyInv' /\ NotifyInv' /\ OpenInv'
    BY DEF BusyInv, NotifyInv, OpenInv
  <2> QED
    BY <2>1, <2>4, <2>5, <2>6, <2>7, <2>8
<1> QED
  BY <1>1, <1>3, <1>4, <1>5 DEF onWrite, ShutdownOnError

LEMMA StutterStep == IInv /\ UNCHANGED vars => IInv'
<1> SUFFICES ASSUME IInv, UNCHANGED vars PROVE IInv'
  OBVIOUS
<1> USE DEF IInv, vars, object, opening, io, history
<1>1. TypeOK' /\ OneOperation'
  BY DEF TypeOK, FlagsOK, OneOperation
<1>2. FramesInv' /\ QuietInv' /\ UseInv'
  BY DEF FramesInv, QuietInv, UseInv, connected
<1>3. QueueInv' /\ BusyInv' /\ NotifyInv' /\ OpenInv'
  BY DEF QueueInv, BusyInv, NotifyInv, OpenInv
<1> QED
  BY <1>1, <1>2, <1>3

\* The inductive invariant of the connection handler.
THEOREM Invariance == Spec => []IInv
<1>1. IInv /\ [Next]_vars => IInv'
  BY StartStep, StopStep, FinishShutdownStep, ResolveDoneStep, ConnectDoneStep,
     OnDataStep, OnErrorStep, OnClosedStep, ArriveStep, OnReadStep, ParsedStep,
     OnWriteStep, StutterStep
  DEF Next, Opened
<1> QED
  BY InitIInv, <1>1, PTL DEF Spec

-----------------------------------------------------------------------------
(* The properties of the handler.                                          *)

\* Every state the handler reaches is well typed.
THEOREM TypeCorrect == Spec => []TypeOK
<1>1. IInv => TypeOK
  BY DEF IInv
<1> QED
  BY <1>1, Invariance, PTL

\* onData(), onRead() and onWrite() never have two operations of one kind
\* outstanding on the socket, and the flags the wait loop tests are exact.
THEOREM OneOperationHolds == Spec => []OneOperation
<1>1. IInv => OneOperation
  BY DEF IInv
<1> QED
  BY <1>1, Invariance, PTL

\* onRead() and onWrite() never dereference a connection that was reset or the
\* front of an empty queue, whatever called back or nested before them.
THEOREM NoDanglingUseHolds == Spec => []NoDanglingUse
<1>1. IInv => NoDanglingUse
  <2> SUFFICES ASSUME IInv PROVE NoDanglingUse
    OBVIOUS
  <2>1. stack \in Seq(Frame)
    BY DEF IInv, TypeOK
  <2>2. Parsing => OnStack(stack, "read")
    BY <2>1, PopFrame DEF Parsing
  <2>3. reads > 0 => m_readReq
    BY DEF IInv, OneOperation
  <2>4. writes > 0 => m_writeReq
    BY DEF IInv, OneOperation
  <2> QED
    BY <2>2, <2>3, <2>4 DEF IInv, UseInv, QuietInv, NoDanglingUse
<1> QED
  BY <1>1, Invariance, PTL

\* The bytes of onData() reach the socket in order, complete and once.
THEOREM WireOrderHolds == Spec => []WireOrder
<1>1. IInv => WireOrder
  <2> SUFFICES ASSUME IInv PROVE WireOrder
    OBVIOUS
  <2>1. /\ m_outBufs \in Seq(Nat)
        /\ Len(m_outBufs) = submitted - wire
        /\ \A i \in 1 .. Len(m_outBufs) : m_outBufs[i] = wire + i
    BY DEF IInv, TypeOK, QueueInv
  <2>2. m_outBufs = [i \in 1 .. Len(m_outBufs) |-> m_outBufs[i]]
    BY <2>1
  <2> QED
    BY <2>1, <2>2 DEF WireOrder
<1> QED
  BY <1>1, Invariance, PTL

\* A connection in use always has a read outstanding or running, and a write
\* outstanding whenever its queue is not empty.
THEOREM NeverStallsHolds == Spec => []NeverStalls
<1>1. IInv => NeverStalls
  BY DEF IInv, BusyInv, NeverStalls, OnStack
<1> QED
  BY <1>1, Invariance, PTL

\* When m_shutdownCb runs, no read or write is outstanding, the buffers and the
\* pointer to the AMQP connection are cleared, and nothing is being opened, but
\* for what follows from a stop() that came while it was.
THEOREM StoppedIsQuietHolds == Spec => []StoppedIsQuiet
<1>1. IInv => StoppedIsQuiet
  BY DEF IInv, OneOperation, QuietInv, OpenInv, StoppedIsQuiet, connected
<1> QED
  BY <1>1, Invariance, PTL

\* m_shutdownCb runs once for a start() unless a close nests in a close.
THEOREM NotifiedOnceUnlessNestedHolds == Spec => []NotifiedOnceUnlessNested
<1>1. IInv => NotifiedOnceUnlessNested
  BY DEF IInv, NotifyInv, NotifiedOnceUnlessNested
<1> QED
  BY <1>1, Invariance, PTL

-----------------------------------------------------------------------------
(* The handler implements Link.                                            *)

LEMMA InitLink == Init => L!LinkInit
BY DEF Init, Constructed, InitialState, L!LinkInit, Phase, Opening

LEMMA LinkStep == IInv /\ [Next]_vars => [L!LinkNext]_(L!linkVars)
<1> SUFFICES ASSUME IInv, [Next]_vars PROVE [L!LinkNext]_(L!linkVars)
  OBVIOUS
<1> USE DEF L!linkVars, L!stream, Phase, Opening
<1>1. CASE start
  BY <1>1 DEF start, L!LinkNext, L!Open
<1>2. ASSUME BeginShutdown, m_state # "eNotConnected",
             UNCHANGED <<m_outBufs, submitted, wire>>
      PROVE  [L!LinkNext]_(L!linkVars)
  BY <1>2 DEF BeginShutdown, L!LinkNext, L!Close, IInv, TypeOK, State
<1>3. CASE stop
  BY <1>2, <1>3 DEF stop
<1>4. CASE onError
  BY <1>2, <1>4 DEF onError, connected
<1>5. CASE onClosed
  BY <1>2, <1>5 DEF onClosed, connected
<1>6. CASE FinishShutdown
  <2>1. OnStack(stack, "shutdown")
    BY <1>6, PopFrame DEF IInv, TypeOK, FinishShutdown, Closing
  <2>2. m_state \in {"eShutdown", "eNotConnected"}
    BY <2>1 DEF IInv, FramesInv
  <2>3. m_state = "eNotConnected" => m_outBufs = <<>> /\ submitted = 0 /\ wire = 0
    BY DEF IInv, QuietInv, connected
  <2> QED
    BY <1>6, <2>2, <2>3
    DEF FinishShutdown, NotConnected, ClearBuffers, L!LinkNext, L!Down
<1>7. ASSUME NEW a \in 1 .. MaxStarts, ResolveDone(a)
      PROVE  [L!LinkNext]_(L!linkVars)
  BY <1>7 DEF ResolveDone, Expected, NotConnected, StartConnect, L!LinkNext, L!Fail
<1>8. ASSUME NEW a \in 1 .. MaxStarts, ConnectDone(a)
      PROVE  [L!LinkNext]_(L!linkVars)
  BY <1>8 DEF ConnectDone, Expected, NotConnected, L!LinkNext, L!Fail, L!Establish
<1>9. CASE onData
  BY <1>9 DEF onData, connected, StartWrite, L!LinkNext, L!Accept
<1>10. CASE Arrive
  BY <1>10 DEF Arrive, object, history
<1>11. CASE onRead
  <2>1. m_state # "eNotConnected"
    BY <1>11 DEF onRead, IInv, OneOperation, QuietInv, connected
  <2> QED
    BY <1>2, <1>11, <2>1 DEF onRead, ShutdownOnError
<1>12. CASE Parsed
  BY <1>12 DEF Parsed, history
<1>13. CASE onWrite
  <2>1. /\ connected /\ m_outBufs # <<>>
        /\ m_state \in {"eReceiverInit", "eReady", "eShutdown"}
    BY <1>13 DEF onWrite, IInv, OneOperation, QuietInv, UseInv, connected
  <2>2. CASE BeginShutdown /\ UNCHANGED <<m_outBufs, wire>>
    BY <1>2, <1>13, <2>1, <2>2 DEF onWrite
  <2>3. CASE UNCHANGED <<m_state, m_outBufs, wire>>
    BY <1>13, <2>3 DEF onWrite
  <2>4. CASE /\ wire' = Head(m_outBufs) /\ m_outBufs' = Tail(m_outBufs)
             /\ UNCHANGED m_state
    BY <1>13, <2>1, <2>4 DEF onWrite, L!LinkNext, L!Transmit
  <2> QED
    BY <1>13, <2>2, <2>3, <2>4 DEF onWrite, ShutdownOnError
<1>14. CASE UNCHANGED vars
  BY <1>14 DEF vars, object, history
<1> QED
  BY <1>1, <1>3, <1>4, <1>5, <1>6, <1>7, <1>8, <1>9, <1>10, <1>11, <1>12,
     <1>13, <1>14
  DEF Next, Opened

\* The connection handler implements the abstract link: whatever is
\* interleaved and nested, its owner sees a link that is opened and closed and
\* a FIFO stream that loses output only when the link goes down.
THEOREM Refinement == Spec => ImplementsLink
<1>1. Init => L!LinkInit
  BY InitLink
<1>2. IInv /\ [Next]_vars => [L!LinkNext]_(L!linkVars)
  BY LinkStep
<1> QED
  BY <1>1, <1>2, Invariance, PTL DEF Spec, ImplementsLink, L!LinkSpec

=============================================================================
