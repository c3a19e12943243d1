--------------------------- MODULE Connector_proofs --------------------------
(***************************************************************************)
(* Proofs about Connector, for every value of the constants.  What holds   *)
(* whatever the application does and whatever fails rests on BaseInv; what *)
(* holds as long as the application neither starts again too early nor     *)
(* opens transceivers too late rests on SessionInv.                        *)
(***************************************************************************)
EXTENDS Connector, SequenceTheorems, TLAPS

\* What is not a loop over transceivers has none to visit; a transceiver that
\* is not in the list does not run.
ListInv ==
  /\ \A f \in Elements(stack) : f.kind \notin DOMAIN Settled => f.rest = <<>>
  /\ \A t \in Transceivers : t \notin Listed => phase[t] = "ended"

\* After eAmqpError nothing runs, and nothing can be started or come up.
DropInv ==
  exitCode = "eAmqpError" =>
    ~m_connectionHandlerReady /\ handler # "opening" /\ Running = {}

BaseInv == TypeOK /\ ListInv /\ DropInv

Waits(s, i, j) == s[i].kind = "wait" /\ s[j].kind = "wait"
OneWait(s)     == \A i, j \in DOMAIN s : Waits(s, i, j) => i = j

\* An attempt begins on an empty stack, with nothing of the last session left.
Fresh ==
  /\ ~m_connectionHandlerReady
  /\ posted = 0
  /\ ~m_exiting
  /\ ~asked
  /\ ~nested
  /\ exits = 0
  /\ \A f \in Elements(stack) : f.kind = "start"

AttemptInv ==
  /\ handler \in {"up", "closing"} => m_connectionHandlerReady
  /\ handler \in {"none", "opening"} => Fresh

\* Once the function of stop() is under way nothing is started any more; the
\* function has still to visit whatever runs, and closes when nothing does.
StopInv ==
  /\ posted > 0 \/ Suspended("stop") => asked \/ handler # "up"
  /\ \A f \in Elements(stack) : f.kind = "stop" => Running \subseteq Elements(f.rest)
  /\ m_exiting => Running = {} /\ handler \in {"closing", "down"}
  /\ ~m_connectionHandlerReady => Running = {}

\* Without a close inside a close there is one handler's loop, and none when the
\* owner has been told.
ExitInv ==
  /\ m_connectionHandlerReady => exits = 0
  /\ Suspended("wait") => handler \in {"closing", "down"}
  /\ ~nested =>
       /\ exits <= 1
       /\ OneWait(stack)
       /\ Suspended("wait") => handler = "closing"

SessionInv == BaseInv /\ AttemptInv /\ StopInv /\ ExitInv /\ ~dangling

-----------------------------------------------------------------------------
(* Sequences: the stack and the list of transceivers.                      *)

LEMMA PushedElements ==
  ASSUME NEW Val, NEW s \in Seq(Val), NEW f \in Val
  PROVE  /\ <<f>> \o s \in Seq(Val)
         /\ <<f>> \o s # <<>>
         /\ Head(<<f>> \o s) = f
         /\ Tail(<<f>> \o s) = s
         /\ Elements(<<f>> \o s) = {f} \cup Elements(s)
<1> DEFINE r == <<f>> \o s
<1>1. r \in Seq(Val) /\ Len(r) = Len(s) + 1 /\ DOMAIN r = 1 .. Len(s) + 1 /\ DOMAIN s = 1 .. Len(s)
  OBVIOUS
<1>2. \A i \in 1 .. Len(s) + 1 : r[i] = IF i = 1 THEN f ELSE s[i - 1]
  OBVIOUS
<1>3. r # <<>> /\ Head(r) = f /\ Tail(r) = s
  BY <1>1, <1>2
<1>4. Elements(r) \subseteq {f} \cup Elements(s)
  BY <1>1, <1>2 DEF Elements
<1>5. f \in Elements(r)
  BY <1>1, <1>2 DEF Elements
<1>6. Elements(s) \subseteq Elements(r)
  <2> SUFFICES ASSUME NEW i \in DOMAIN s PROVE s[i] \in Elements(r)
    BY DEF Elements
  <2>1. i + 1 \in DOMAIN r /\ r[i + 1] = s[i]
    BY <1>1, <1>2
  <2> QED
    BY <2>1 DEF Elements
<1> QED
  BY <1>1, <1>3, <1>4, <1>5, <1>6

LEMMA PoppedElements ==
  ASSUME NEW Val, NEW s \in Seq(Val), s # <<>>
  PROVE  /\ Head(s) \in Val
         /\ Tail(s) \in Seq(Val)
         /\ Elements(s) = {Head(s)} \cup Elements(Tail(s))
<1>1. Head(s) \in Val /\ Tail(s) \in Seq(Val)
  OBVIOUS
<1>2. s = <<Head(s)>> \o Tail(s)
  OBVIOUS
<1> QED
  BY <1>1, <1>2, PushedElements

LEMMA ErasedElements ==
  ASSUME NEW Val, NEW s \in Seq(Val), NEW i \in DOMAIN s
  PROVE  LET r == SubSeq(s, 1, i - 1) \o SubSeq(s, i + 1, Len(s))
         IN  /\ r \in Seq(Val)
             /\ Elements(r) \subseteq Elements(s)
             /\ \A e \in Elements(s) : e # s[i] => e \in Elements(r)
<1> DEFINE a == SubSeq(s, 1, i - 1)
           b == SubSeq(s, i + 1, Len(s))
           r == a \o b
<1>1. i \in 1 .. Len(s) /\ Len(s) \in Nat /\ DOMAIN s = 1 .. Len(s)
  OBVIOUS
<1>2. a \in Seq(Val) /\ Len(a) = i - 1 /\ \A j \in 1 .. i - 1 : a[j] = s[j]
  <2>1. \A j \in 1 .. i - 1 : s[j] \in Val
    BY <1>1, ElementOfSeq
  <2> QED
    BY <1>1, <2>1, SubSeqProperties
<1>3. b \in Seq(Val) /\ Len(b) = Len(s) - i /\ \A j \in 1 .. Len(s) - i : b[j] = s[i + j]
  <2>1. \A j \in i + 1 .. Len(s) : s[j] \in Val
    BY <1>1, ElementOfSeq
  <2> QED
    BY <1>1, <2>1, SubSeqProperties
<1>4. r \in Seq(Val) /\ Len(r) = Len(s) - 1 /\ DOMAIN r = 1 .. Len(s) - 1
  <2>1. r \in Seq(Val) /\ Len(r) = Len(a) + Len(b)
    BY <1>2, <1>3, ConcatProperties
  <2> HIDE DEF a, b, r
  <2>2. DOMAIN r = 1 .. Len(r)
    BY <2>1, LenProperties
  <2> QED
    BY <1>1, <1>2, <1>3, <2>1, <2>2
<1>5. \A j \in 1 .. Len(s) - 1 : r[j] = IF j < i THEN s[j] ELSE s[j + 1]
  <2> SUFFICES ASSUME NEW j \in 1 .. Len(s) - 1 PROVE r[j] = IF j < i THEN s[j] ELSE s[j + 1]
    OBVIOUS
  <2>1. r[j] = IF j <= Len(a) THEN a[j] ELSE b[j - Len(a)]
    BY <1>1, <1>2, <1>3, ConcatProperties
  <2> HIDE DEF a, b, r
  <2>2. CASE j < i
    BY <2>1, <2>2, <1>1, <1>2
  <2>3. CASE j >= i
    <3>1. j - Len(a) \in 1 .. Len(s) - i /\ i + (j - Len(a)) = j + 1
      BY <2>3, <1>1, <1>2
    <3> QED
      BY <2>1, <2>3, <3>1, <1>1, <1>2, <1>3
  <2> QED
    BY <2>2, <2>3, <1>1
<1> HIDE DEF r
<1>6. Elements(r) \subseteq Elements(s)
  BY <1>1, <1>4, <1>5 DEF Elements
<1>7. ASSUME NEW j \in DOMAIN s, s[j] # s[i] PROVE s[j] \in Elements(r)
  <2>1. CASE j < i
    BY <2>1, <1>1, <1>4, <1>5 DEF Elements
  <2>2. CASE j > i
    <3>1. j - 1 \in DOMAIN r /\ r[j - 1] = s[j]
      BY <2>2, <1>1, <1>4, <1>5
    <3> QED
      BY <3>1 DEF Elements
  <2> QED
    BY <2>1, <2>2, <1>1, <1>7
<1> QED
  BY <1>4, <1>6, <1>7 DEF Elements, r

LEMMA OneWaitPushed ==
  ASSUME NEW s \in Seq(Frame), NEW f \in Frame, OneWait(s),
         f.kind = "wait" => \A g \in Elements(s) : g.kind # "wait"
  PROVE  OneWait(<<f>> \o s)
<1> DEFINE r == <<f>> \o s
<1>1. DOMAIN r = 1 .. Len(s) + 1 /\ DOMAIN s = 1 .. Len(s) /\ Len(s) \in Nat
  OBVIOUS
<1>2. \A i \in 1 .. Len(s) + 1 : r[i] = IF i = 1 THEN f ELSE s[i - 1]
  OBVIOUS
<1> HIDE DEF r
<1> SUFFICES ASSUME NEW i \in DOMAIN r, NEW j \in DOMAIN r, Waits(r, i, j)
             PROVE  i = j
  BY DEF OneWait, r
<1>3. \A k \in DOMAIN r : k # 1 => k - 1 \in DOMAIN s /\ r[k] = s[k - 1] /\ s[k - 1] \in Elements(s)
  BY <1>1, <1>2 DEF Elements
<1>4. r[1] = f
  BY <1>1, <1>2
<1>5. CASE i # 1 /\ j # 1
  <2>1. i - 1 = j - 1
    BY <1>3, <1>5 DEF OneWait, Waits
  <2> QED
    BY <2>1, <1>1
<1>6. CASE i = 1 /\ j # 1
  BY <1>3, <1>4, <1>6 DEF Waits
<1>7. CASE i # 1 /\ j = 1
  BY <1>3, <1>4, <1>7 DEF Waits
<1> QED
  BY <1>5, <1>6, <1>7

LEMMA OneWaitPopped ==
  ASSUME NEW s \in Seq(Frame), s # <<>>, OneWait(s)
  PROVE  /\ OneWait(Tail(s))
         /\ Head(s).kind = "wait" => \A g \in Elements(Tail(s)) : g.kind # "wait"
<1> DEFINE r == Tail(s)
<1>1. DOMAIN r = 1 .. Len(s) - 1 /\ DOMAIN s = 1 .. Len(s) /\ Len(s) \in Nat \ {0}
  OBVIOUS
<1>2. \A i \in 1 .. Len(s) - 1 : r[i] = s[i + 1]
  OBVIOUS
<1>3. Head(s) = s[1] /\ 1 \in DOMAIN s
  BY <1>1
<1> HIDE DEF r
<1>4. \A i \in DOMAIN r : i + 1 \in DOMAIN s /\ i + 1 # 1 /\ r[i] = s[i + 1]
  BY <1>1, <1>2
<1>5. ASSUME NEW i \in DOMAIN r, NEW j \in DOMAIN r, Waits(r, i, j) PROVE i = j
  <2>1. i + 1 = j + 1
    BY <1>4, <1>5 DEF OneWait, Waits
  <2> QED
    BY <2>1, <1>1
<1>6. ASSUME Head(s).kind = "wait", NEW i \in DOMAIN r PROVE r[i].kind # "wait"
  BY <1>3, <1>4, <1>6 DEF OneWait, Waits
<1> QED
  BY <1>5, <1>6 DEF OneWait, Elements, r

-----------------------------------------------------------------------------
(* What the actions do to the stack.                                       *)

Gains(f) ==
  /\ f \in Frame
  /\ stack' \in Seq(Frame)
  /\ Elements(stack') = {f} \cup Elements(stack)
  /\ OneWait(stack) /\ (f.kind = "wait" => ~Suspended("wait")) => OneWait(stack')

Loses ==
  /\ stack # <<>>
  /\ stack' \in Seq(Frame)
  /\ Elements(stack) = {Head(stack)} \cup Elements(stack')
  /\ OneWait(stack) => OneWait(stack')
  /\ OneWait(stack) /\ Head(stack).kind = "wait" => \A g \in Elements(stack') : g.kind # "wait"

Turns(f) ==
  /\ f \in Frame
  /\ stack # <<>>
  /\ stack' \in Seq(Frame)
  /\ Elements(stack') = {f} \cup Elements(Tail(stack))
  /\ Elements(stack) = {Head(stack)} \cup Elements(Tail(stack))
  /\ OneWait(stack) /\ (f.kind = "wait" => ~Suspended("wait")) => OneWait(stack')

LEMMA SuspendedElements ==
  ASSUME NEW k
  PROVE  /\ Suspended(k) <=> \E f \in Elements(stack) : f.kind = k
         /\ Suspended(k)' <=> \E f \in Elements(stack') : f.kind = k
BY DEF Suspended, Elements

LEMMA Kinds ==
  /\ DOMAIN Settled = {"await", "close", "stop"}
  /\ Kind = {"await", "close", "stop", "parse", "started", "start", "wait"}
  /\ \A k \in DOMAIN Settled : "ended" \in Settled[k]
  /\ Settled["close"] = {"ended"} /\ Settled["stop"] = {"ended"}
BY DEF Kind, Settled

LEMMA Pushing ==
  ASSUME TypeOK, NEW k \in Kind, NEW r \in Seq(Transceivers), Push(k, r)
  PROVE  Gains([kind |-> k, rest |-> r])
<1> DEFINE f == [kind |-> k, rest |-> r]
<1>1. f \in Frame /\ stack \in Seq(Frame) /\ stack' = <<f>> \o stack
  BY DEF Frame, Push, TypeOK
<1> HIDE DEF f
<1>2. stack' \in Seq(Frame) /\ Elements(stack') = {f} \cup Elements(stack)
  BY <1>1, PushedElements
<1>3. OneWait(stack) /\ (f.kind = "wait" => ~Suspended("wait")) => OneWait(stack')
  BY <1>1, OneWaitPushed, SuspendedElements
<1> QED
  BY <1>1, <1>2, <1>3 DEF Gains, f

LEMMA Popping ==
  ASSUME TypeOK, stack # <<>>, Pop
  PROVE  Loses
<1>1. stack \in Seq(Frame) /\ stack' = Tail(stack)
  BY DEF Pop, TypeOK
<1> QED
  BY <1>1, PoppedElements, OneWaitPopped DEF Loses

LEMMA Turning ==
  ASSUME TypeOK, stack # <<>>, NEW f \in Frame, stack' = <<f>> \o Tail(stack)
  PROVE  Turns(f)
<1>1. stack \in Seq(Frame)
  BY DEF TypeOK
<1>2. /\ Tail(stack) \in Seq(Frame)
      /\ Elements(stack) = {Head(stack)} \cup Elements(Tail(stack))
  BY <1>1, PoppedElements
<1>3. stack' \in Seq(Frame) /\ Elements(stack') = {f} \cup Elements(Tail(stack))
  BY <1>2, PushedElements
<1>4. ASSUME OneWait(stack), f.kind = "wait" => ~Suspended("wait") PROVE OneWait(stack')
  <2>1. OneWait(Tail(stack))
    BY <1>1, <1>4, OneWaitPopped
  <2>2. f.kind = "wait" => \A g \in Elements(Tail(stack)) : g.kind # "wait"
    BY <1>2, <1>4, SuspendedElements
  <2> QED
    BY <1>2, <2>1, <2>2, OneWaitPushed
<1> QED
  BY <1>2, <1>3, <1>4 DEF Turns

LEMMA HeadIsFrame ==
  ASSUME TypeOK, stack # <<>>
  PROVE  /\ Head(stack) \in Frame
         /\ Head(stack) \in Elements(stack)
         /\ Head(stack).kind \in Kind
         /\ Head(stack).rest \in Seq(Transceivers)
<1>1. stack \in Seq(Frame)
  BY DEF TypeOK
<1>2. Head(stack) \in Frame /\ Head(stack) \in Elements(stack)
  BY <1>1, PoppedElements
<1> QED
  BY <1>2 DEF Frame

\* The pushes, the pops and the turns of the innermost frame.
LEMMA Pushes ==
  ASSUME TypeOK
  PROVE  /\ \A t \in Transceivers : open(t) => Gains([kind |-> "await", rest |-> <<t>>])
         /\ \A t \in Transceivers : close(t) => Gains([kind |-> "close", rest |-> <<t>>])
         /\ run => Gains([kind |-> "await", rest |-> m_transceivers])
         /\ start => Gains([kind |-> "start", rest |-> <<>>])
         /\ Connected => Gains([kind |-> "started", rest |-> <<>>])
         /\ Input => Gains([kind |-> "parse", rest |-> <<>>])
         /\ AmqpError \/ TcpError => Gains([kind |-> "wait", rest |-> <<>>])
         /\ RunPosted => Gains([kind |-> "stop", rest |-> m_transceivers])
<1>1. ASSUME NEW k \in Kind, Push(k, <<>>) PROVE Gains([kind |-> k, rest |-> <<>>])
  <2>1. <<>> \in Seq(Transceivers)
    OBVIOUS
  <2> QED
    BY <1>1, <2>1, Pushing
<1>2. ASSUME NEW k \in Kind, Push(k, m_transceivers) PROVE Gains([kind |-> k, rest |-> m_transceivers])
  BY <1>2, Pushing DEF TypeOK
<1>3. ASSUME NEW k \in Kind, NEW t \in Transceivers, Push(k, <<t>>)
      PROVE  Gains([kind |-> k, rest |-> <<t>>])
  <2>1. <<t>> \in Seq(Transceivers)
    OBVIOUS
  <2> QED
    BY <1>3, <2>1, Pushing
<1>4. \A t \in Transceivers :
        /\ open(t) => Push("await", <<t>>)
        /\ close(t) => Push("close", <<t>>)
  BY DEF open, close, Wait
<1>5. /\ run => Push("await", m_transceivers)
      /\ start => Push("start", <<>>)
      /\ Connected => Push("started", <<>>)
      /\ Input => Push("parse", <<>>)
      /\ AmqpError \/ TcpError => Push("wait", <<>>)
      /\ RunPosted => Push("stop", m_transceivers)
  BY DEF run, Wait, start, Connected, Input, AmqpError, TcpError, RunPosted, Stopping
<1> QED
  BY <1>1, <1>2, <1>3, <1>4, <1>5, Kinds

Visited == [Head(stack) EXCEPT !.rest = Tail(@)]

LEMMA Pops ==
  ASSUME TypeOK
  PROVE  /\ CallbackReturns \/ FinishClose => Loses
         /\ Advance => \/ Head(stack).rest # <<>> /\ Turns(Visited)
                       \/ Head(stack).rest = <<>> /\ Loses
         /\ PostedEnds => \/ handler = "down" /\ Loses
                          \/ handler # "down" /\ Turns([kind |-> "wait", rest |-> <<>>])
<1>1. CallbackReturns \/ FinishClose => Loses
  BY Popping DEF CallbackReturns, FinishClose, Top
<1>2. ASSUME Advance
      PROVE  \/ Head(stack).rest # <<>> /\ Turns(Visited)
             \/ Head(stack).rest = <<>> /\ Loses
  <2>1. stack # <<>>
    BY <1>2 DEF Advance
  <2>2. CASE Head(stack).rest # <<>> /\ stack' = <<Visited>> \o Tail(stack)
    <3>1. Tail(Head(stack).rest) \in Seq(Transceivers)
      BY <2>1, <2>2, HeadIsFrame
    <3>2. Visited \in Frame
      BY <2>1, <3>1, HeadIsFrame DEF Frame, Visited
    <3> QED
      BY <2>1, <2>2, <3>2, Turning
  <2>3. CASE Head(stack).rest = <<>> /\ Pop
    BY <2>1, <2>3, Popping
  <2> QED
    BY <1>2, <2>2, <2>3 DEF Advance, Visited
<1>3. ASSUME PostedEnds
      PROVE  \/ handler = "down" /\ Loses
             \/ handler # "down" /\ Turns([kind |-> "wait", rest |-> <<>>])
  <2>1. stack # <<>>
    BY <1>3 DEF PostedEnds, Top
  <2>2. CASE handler # "down" /\ stack' = <<[kind |-> "wait", rest |-> <<>>]>> \o Tail(stack)
    <3>1. [kind |-> "wait", rest |-> <<>>] \in Frame
      BY Kinds DEF Frame
    <3> QED
      BY <2>1, <2>2, <3>1, Turning
  <2>3. CASE handler = "down" /\ Pop
    BY <2>1, <2>3, Popping
  <2> QED
    BY <1>3, <2>2, <2>3 DEF PostedEnds
<1> QED
  BY <1>1, <1>2, <1>3

LEMMA Listing ==
  ASSUME TypeOK
  PROVE  /\ Listed \subseteq Transceivers
         /\ \A t \in Transceivers :
              /\ transceiver(t) =>
                   /\ m_transceivers' \in Seq(Transceivers)
                   /\ Listed' = Listed \cup {t}
              /\ remove(t) =>
                   /\ m_transceivers' \in Seq(Transceivers)
                   /\ Listed' \subseteq Listed
                   /\ \A u \in Listed : u # t => u \in Listed'
<1>0. m_transceivers \in Seq(Transceivers)
  BY DEF TypeOK
<1>1. Listed \subseteq Transceivers
  BY <1>0 DEF Listed, Elements
<1>2. ASSUME NEW t \in Transceivers, transceiver(t)
      PROVE  m_transceivers' \in Seq(Transceivers) /\ Listed' = Listed \cup {t}
  <2>1. m_transceivers' = <<t>> \o m_transceivers
    BY <1>2 DEF transceiver
  <2> QED
    BY <1>0, <2>1, PushedElements DEF Listed
<1>3. ASSUME NEW t \in Transceivers, remove(t)
      PROVE  /\ m_transceivers' \in Seq(Transceivers)
             /\ Listed' \subseteq Listed
             /\ \A u \in Listed : u # t => u \in Listed'
  <2>1. PICK i \in DOMAIN m_transceivers :
          /\ m_transceivers[i] = t
          /\ m_transceivers' = SubSeq(m_transceivers, 1, i - 1)
                                 \o SubSeq(m_transceivers, i + 1, Len(m_transceivers))
    BY <1>3 DEF remove
  <2> QED
    BY <1>0, <2>1, ErasedElements DEF Listed
<1> QED
  BY <1>1, <1>2, <1>3

-----------------------------------------------------------------------------
(* What holds whatever the application does and whatever fails.            *)

LEMMA InitBase == Init => BaseInv
<1> SUFFICES ASSUME Init PROVE BaseInv
  OBVIOUS
<1> USE DEF Init, InitialHandler
<1>1. FlagsOK
  BY DEF FlagsOK
<1>2. TypeOK
  BY <1>1 DEF TypeOK, HandlerPhase, Phase
<1>3. ListInv
  BY DEF ListInv, Elements
<1>4. DropInv
  BY DEF DropInv
<1> QED
  BY <1>2, <1>3, <1>4 DEF BaseInv

LEMMA FlagsStep ==
  ASSUME TypeOK, [Next]_vars
  PROVE  FlagsOK'
<1> USE DEF TypeOK, FlagsOK, own, link, calls, outcome
<1>1. ASSUME NEW t \in Transceivers, transceiver(t) PROVE FlagsOK'
  BY <1>1 DEF transceiver
<1>2. ASSUME NEW t \in Transceivers, remove(t) PROVE FlagsOK'
  BY <1>2 DEF remove
<1>3. ASSUME NEW t \in Transceivers, open(t) PROVE FlagsOK'
  BY <1>3 DEF open, Wait, Started
<1>4. ASSUME NEW t \in Transceivers, close(t) PROVE FlagsOK'
  BY <1>4 DEF close, Wait, Stopped
<1>5. ASSUME NEW t \in Transceivers, Answer(t) PROVE FlagsOK'
  BY <1>5 DEF Answer
<1>6. CASE run
  BY <1>6 DEF run, Wait, Started
<1>7. CASE async_start
  BY <1>7 DEF async_start, Replace, ForgetStop
<1>8. CASE start
  BY <1>8 DEF start, Replace, ForgetStop
<1>9. CASE stop
  BY <1>9 DEF stop, StopAll, Stopped
<1>10. CASE Connected
  BY <1>10 DEF Connected, onConnected
<1>11. CASE NotConnected
  BY <1>11 DEF NotConnected, onShutdown, Exit, StopAll, Stopped, Dropped
<1>12. CASE Input
  BY <1>12 DEF Input
<1>13. CASE CallbackReturns
  BY <1>13 DEF CallbackReturns
<1>14. CASE AmqpError
  BY <1>14 DEF AmqpError, BeginClose, Blame
<1>15. CASE TcpError
  BY <1>15 DEF TcpError, BeginClose
<1>16. CASE FinishClose
  BY <1>16 DEF FinishClose, onShutdown, Exit, StopAll, Stopped, Dropped
<1>17. CASE Advance
  BY <1>17 DEF Advance
<1>18. CASE RunPosted
  BY <1>18 DEF RunPosted
<1>19. CASE PostedEnds
  BY <1>19 DEF PostedEnds, Exit, BeginClose, Unreported
<1>20. CASE UNCHANGED vars
  BY <1>20 DEF vars
<1> QED
  BY <1>1, <1>2, <1>3, <1>4, <1>5, <1>6, <1>7, <1>8, <1>9, <1>10, <1>11, <1>12, <1>13, <1>14, <1>15, <1>16, <1>17, <1>18, <1>19, <1>20 DEF Next

LEMMA ListsStep ==
  ASSUME TypeOK, [Next]_vars
  PROVE  m_transceivers' \in Seq(Transceivers) /\ stack' \in Seq(Frame)
<1>1. m_transceivers \in Seq(Transceivers) /\ stack \in Seq(Frame)
  BY DEF TypeOK
<1>2. ASSUME NEW t \in Transceivers, transceiver(t) \/ remove(t)
      PROVE  m_transceivers' \in Seq(Transceivers) /\ UNCHANGED stack
  BY <1>2, Listing DEF transceiver, remove
<1>3. ASSUME NEW t \in Transceivers, open(t) \/ close(t)
      PROVE  UNCHANGED m_transceivers /\ stack' \in Seq(Frame)
  BY <1>3, Pushes DEF open, close, Wait, Gains
<1>4. ASSUME NEW t \in Transceivers, Answer(t) PROVE UNCHANGED <<m_transceivers, stack>>
  BY <1>4 DEF Answer
<1>5. CASE run \/ start \/ Connected \/ Input \/ AmqpError \/ TcpError \/ RunPosted
  <2>1. stack' \in Seq(Frame)
    BY <1>5, Pushes DEF Gains
  <2> QED
    BY <2>1, <1>1, <1>5 DEF run, Wait, start, Replace, Connected, Input, AmqpError, TcpError, RunPosted
<1>6. CASE CallbackReturns \/ FinishClose \/ Advance \/ PostedEnds
  <2>1. stack' \in Seq(Frame)
    BY <1>6, Pops DEF Loses, Turns
  <2> QED
    BY <2>1, <1>1, <1>6 DEF CallbackReturns, FinishClose, Advance, PostedEnds
<1>7. CASE async_start \/ stop \/ NotConnected
  BY <1>7, <1>1 DEF async_start, Replace, stop, NotConnected
<1>8. CASE UNCHANGED vars
  BY <1>8, <1>1 DEF vars
<1> QED
  BY <1>1, <1>2, <1>3, <1>4, <1>5, <1>6, <1>7, <1>8 DEF Next

\* stop() and drop() keep the types of what they change.
LEMMA PhaseTypes ==
  ASSUME TypeOK
  PROVE  /\ \A ts \in SUBSET Transceivers : Stopped(ts) =>
              phase' \in [Transceivers -> Phase] /\ revived' \in SUBSET Transceivers
         /\ Dropped => phase' \in [Transceivers -> Phase] /\ revived' \in SUBSET Transceivers
<1>1. phase \in [Transceivers -> Phase] /\ revived \in SUBSET Transceivers
  BY DEF TypeOK
<1>2. ASSUME NEW ts \in SUBSET Transceivers, Stopped(ts)
      PROVE  phase' \in [Transceivers -> Phase] /\ revived' \in SUBSET Transceivers
  <2>1. PICK ended \in SUBSET {t \in ts : phase[t] = "starting"},
             anew \in SUBSET {t \in ts : phase[t] = "starting"} :
          /\ phase' = [t \in Transceivers |->
                         IF t \in ended THEN "ended"
                         ELSE IF t \in ts \ anew /\ phase[t] \in {"starting", "ready"}
                         THEN "stopping" ELSE phase[t]]
          /\ revived' = (revived \ ts) \cup anew
    BY <1>2 DEF Stopped
  <2>2. phase' \in [Transceivers -> Phase]
    BY <1>1, <2>1 DEF Phase
  <2> QED
    BY <1>1, <2>1, <2>2
<1>3. ASSUME Dropped
      PROVE  phase' \in [Transceivers -> Phase] /\ revived' \in SUBSET Transceivers
  BY <1>1, <1>3 DEF Dropped, Phase
<1> QED
  BY <1>2, <1>3

LEMMA TypeStep ==
  ASSUME TypeOK, [Next]_vars
  PROVE  TypeOK'
<1> USE FlagsStep, ListsStep DEF TypeOK, HandlerPhase, Phase, own, link, calls, outcome
<1>1. ASSUME NEW t \in Transceivers, transceiver(t) PROVE TypeOK'
  BY <1>1 DEF transceiver
<1>2. ASSUME NEW t \in Transceivers, remove(t) PROVE TypeOK'
  BY <1>2 DEF remove
<1>3. ASSUME NEW t \in Transceivers, open(t) PROVE TypeOK'
  BY <1>3 DEF open, Wait, Started
<1>4. ASSUME NEW t \in Transceivers, close(t) PROVE TypeOK'
  BY <1>4 DEF close, Wait, Stopped
<1>5. ASSUME NEW t \in Transceivers, Answer(t) PROVE TypeOK'
  BY <1>5 DEF Answer
<1>6. CASE run
  BY <1>6 DEF run, Wait, Started
<1>7. CASE async_start
  BY <1>7 DEF async_start, Replace, ForgetStop
<1>8. CASE start
  BY <1>8 DEF start, Replace, ForgetStop
<1>9. CASE stop
  BY <1>9, PhaseTypes, Listing DEF stop, StopAll
<1>10. CASE Connected
  BY <1>10 DEF Connected, onConnected
<1>11. CASE NotConnected
  BY <1>11, PhaseTypes, Listing DEF NotConnected, onShutdown, Exit, StopAll
<1>12. CASE Input
  BY <1>12 DEF Input
<1>13. CASE CallbackReturns
  BY <1>13 DEF CallbackReturns
<1>14. CASE AmqpError
  BY <1>14 DEF AmqpError, BeginClose, Blame
<1>15. CASE TcpError
  BY <1>15 DEF TcpError, BeginClose
<1>16. CASE FinishClose
  BY <1>16, PhaseTypes, Listing DEF FinishClose, onShutdown, Exit, StopAll
<1>17. CASE Advance
  BY <1>17 DEF Advance
<1>18. CASE RunPosted
  BY <1>18 DEF RunPosted
<1>19. CASE PostedEnds
  BY <1>19 DEF PostedEnds, Exit, BeginClose, Unreported
<1>20. CASE UNCHANGED vars
  BY <1>20 DEF vars
<1> QED
  BY <1>1, <1>2, <1>3, <1>4, <1>5, <1>6, <1>7, <1>8, <1>9, <1>10, <1>11, <1>12, <1>13, <1>14, <1>15, <1>16, <1>17, <1>18, <1>19, <1>20 DEF Next

\* What the actions do to the phases: a transceiver that has ended is started
\* by open() and run() only, and only when ready().
Starts(t) == phase[t] = "ended" /\ phase'[t] # "ended"

LEMMA PhaseMoves ==
  ASSUME TypeOK, [Next]_vars, NEW u \in Transceivers, Starts(u)
  PROVE  /\ u \in Listed
         /\ m_connectionHandlerReady
         /\ Openable
         /\ UNCHANGED <<m_transceivers, own, link, posted, asked, outcome>>
         /\ run \/ \E t \in Transceivers : open(t)
<1> USE DEF Starts, TypeOK, Phase
<1>1. ASSUME NEW t \in Transceivers, transceiver(t) \/ remove(t) PROVE FALSE
  BY <1>1 DEF transceiver, remove
<1>2. ASSUME NEW t \in Transceivers, close(t) PROVE FALSE
  BY <1>2 DEF close, Stopped
<1>3. ASSUME NEW t \in Transceivers, Answer(t) PROVE FALSE
  BY <1>3 DEF Answer
<1>4. CASE async_start \/ start
  BY <1>4 DEF async_start, start, Replace
<1>5. CASE stop
  BY <1>5 DEF stop, StopAll, Stopped
<1>6. CASE NotConnected \/ FinishClose
  BY <1>6 DEF NotConnected, FinishClose, onShutdown, StopAll, Stopped, Dropped
<1>7. CASE Connected \/ Input \/ CallbackReturns \/ AmqpError \/ TcpError
  BY <1>7 DEF Connected, Input, CallbackReturns, AmqpError, TcpError
<1>8. CASE Advance \/ RunPosted \/ PostedEnds
  BY <1>8 DEF Advance, RunPosted, PostedEnds
<1>9. CASE UNCHANGED vars
  BY <1>9 DEF vars
<1>10. CASE run
  BY <1>10 DEF run, Wait, Started
<1>11. ASSUME NEW t \in Transceivers, open(t) PROVE u = t /\ t \in Listed /\ m_connectionHandlerReady /\ Openable
                /\ UNCHANGED <<m_transceivers, own, link, posted, asked, outcome>>
  BY <1>11 DEF open, Wait, Started
<1> QED
  BY <1>1, <1>2, <1>3, <1>4, <1>5, <1>6, <1>7, <1>8, <1>9, <1>10, <1>11 DEF Next

\* Only transceiver() and remove() change the list.
LEMMA ListMoves ==
  ASSUME TypeOK, [Next]_vars, ~UNCHANGED m_transceivers
  PROVE  /\ \E t \in Transceivers : transceiver(t) \/ remove(t)
         /\ UNCHANGED <<own, link, phase, stack, posted, calls, outcome>>
<1>1. ASSUME NEW t \in Transceivers, open(t) \/ close(t) \/ Answer(t) PROVE FALSE
  BY <1>1 DEF open, close, Wait, Answer
<1>2. CASE run \/ async_start \/ start \/ stop
  BY <1>2 DEF run, Wait, async_start, start, Replace, stop
<1>3. CASE Connected \/ NotConnected \/ Input \/ CallbackReturns \/ AmqpError \/ TcpError
  BY <1>3 DEF Connected, NotConnected, Input, CallbackReturns, AmqpError, TcpError
<1>4. CASE FinishClose \/ Advance \/ RunPosted \/ PostedEnds
  BY <1>4 DEF FinishClose, Advance, RunPosted, PostedEnds
<1>5. CASE UNCHANGED vars
  BY <1>5 DEF vars
<1>6. ASSUME NEW t \in Transceivers, transceiver(t) \/ remove(t)
      PROVE  UNCHANGED <<own, link, phase, stack, posted, calls, outcome>>
  BY <1>6 DEF transceiver, remove
<1> QED
  BY <1>1, <1>2, <1>3, <1>4, <1>5, <1>6 DEF Next

LEMMA RunningListed ==
  ASSUME TypeOK, [Next]_vars
  PROVE  Running' \subseteq Transceivers
BY TypeStep, ListsStep DEF Running, Listed, Elements

\* Hence what runs after a step ran before it, or open() or run() started it.
LEMMA RunningMoves ==
  ASSUME BaseInv, [Next]_vars
  PROVE  /\ \A t \in Running' : t \in Running \/ Starts(t)
         /\ \A t \in Transceivers : t \notin Listed' => phase'[t] = "ended"
<1>0. TypeOK /\ TypeOK' /\ Listed \subseteq Transceivers /\ Listed' \subseteq Transceivers
  BY TypeStep, Listing, ListsStep DEF BaseInv, Listed, Elements
<1>1. \A t \in Transceivers : t \notin Listed => phase[t] = "ended"
  BY DEF BaseInv, ListInv
<1>2. CASE UNCHANGED m_transceivers
  <2>1. Listed' = Listed
    BY <1>2 DEF Listed
  <2>2. ASSUME NEW t \in Transceivers, t \notin Listed PROVE phase'[t] = "ended"
    BY <1>0, <1>1, <2>2, PhaseMoves DEF Starts
  <2> QED
    BY <1>0, <2>1, <2>2 DEF Running, Starts
<1>3. CASE ~UNCHANGED m_transceivers
  <2>1. UNCHANGED phase
    BY <1>0, <1>3, ListMoves DEF vars
  <2>2. PICK t \in Transceivers : transceiver(t) \/ remove(t)
    BY <1>0, <1>3, ListMoves
  <2>3. CASE transceiver(t)
    BY <1>0, <1>1, <2>1, <2>3, Listing DEF Running
  <2>4. CASE remove(t)
    <3>1. phase[t] = "ended"
      BY <2>4 DEF remove
    <3> QED
      BY <1>0, <1>1, <2>1, <2>4, <3>1, Listing DEF Running
  <2> QED
    BY <2>2, <2>3, <2>4
<1> QED
  BY <1>2, <1>3

\* A new frame is a loop over transceivers, or has none to visit, or is the
\* innermost one that has gone on to the next.
LEMMA NewFrames ==
  ASSUME TypeOK, [Next]_vars, NEW f \in Elements(stack'), f \notin Elements(stack)
  PROVE  \/ f.kind \in DOMAIN Settled
         \/ f.rest = <<>>
         \/ stack # <<>> /\ Head(stack).rest # <<>> /\ f = Visited
<1>1. ASSUME NEW t \in Transceivers, transceiver(t) \/ remove(t) \/ Answer(t) PROVE FALSE
  BY <1>1 DEF transceiver, remove, Answer
<1>2. ASSUME NEW t \in Transceivers, open(t) \/ close(t)
      PROVE  f.kind \in DOMAIN Settled
  <2>1. f = [kind |-> "await", rest |-> <<t>>] \/ f = [kind |-> "close", rest |-> <<t>>]
    BY <1>2, Pushes DEF Gains
  <2> QED
    BY <2>1, Kinds
<1>3. CASE run \/ RunPosted
  BY <1>3, Pushes, Kinds DEF Gains
<1>4. CASE start \/ Connected \/ Input \/ AmqpError \/ TcpError
  BY <1>4, Pushes DEF Gains
<1>5. CASE async_start \/ stop \/ NotConnected
  BY <1>5 DEF async_start, stop, NotConnected
<1>6. CASE CallbackReturns \/ FinishClose
  BY <1>6, Pops DEF Loses
<1>7. CASE Advance
  BY <1>7, Pops DEF Loses, Turns
<1>8. CASE PostedEnds
  BY <1>8, Pops DEF Loses, Turns
<1>9. CASE UNCHANGED vars
  BY <1>9 DEF vars
<1> QED
  BY <1>1, <1>2, <1>3, <1>4, <1>5, <1>6, <1>7, <1>8, <1>9 DEF Next

LEMMA ListStep ==
  ASSUME BaseInv, [Next]_vars
  PROVE  ListInv'
<1>1. ASSUME NEW f \in Elements(stack'), f.kind \notin DOMAIN Settled PROVE f.rest = <<>>
  <2>1. CASE f \in Elements(stack)
    BY <1>1, <2>1 DEF BaseInv, ListInv
  <2>2. CASE stack # <<>> /\ Head(stack).rest # <<>> /\ f = Visited
    <3>1. Head(stack) \in Frame /\ Head(stack) \in Elements(stack)
      BY <2>2, HeadIsFrame DEF BaseInv
    <3>2. f.kind = Head(stack).kind
      BY <2>2, <3>1 DEF Frame, Visited
    <3> QED
      BY <1>1, <2>2, <3>1, <3>2 DEF BaseInv, ListInv
  <2> QED
    BY <1>1, <2>1, <2>2, NewFrames DEF BaseInv
<1>2. \A t \in Transceivers : t \notin Listed' => phase'[t] = "ended"
  BY RunningMoves
<1> QED
  BY <1>1, <1>2 DEF ListInv

LEMMA DropStep ==
  ASSUME BaseInv, [Next]_vars
  PROVE  DropInv'
<1> SUFFICES ASSUME exitCode' = "eAmqpError"
             PROVE  ~m_connectionHandlerReady' /\ handler' # "opening" /\ Running' = {}
  BY DEF DropInv
<1>1. CASE exitCode = "eAmqpError"
  <2>1. ~m_connectionHandlerReady /\ handler # "opening" /\ Running = {}
    BY <1>1 DEF BaseInv, DropInv
  <2>2. Running' = {}
    <3>1. \A t \in Running' : t \in Transceivers
      BY RunningListed DEF BaseInv
    <3> QED
      BY <2>1, <3>1, RunningMoves, PhaseMoves DEF BaseInv
  <2>3. ~m_connectionHandlerReady' /\ handler' # "opening"
    <3> USE <2>1 DEF own, link, calls, outcome
    <3>1. ASSUME NEW t \in Transceivers,
                 transceiver(t) \/ remove(t) \/ open(t) \/ close(t) \/ Answer(t)
          PROVE  UNCHANGED <<m_connectionHandlerReady, handler>>
      BY <3>1 DEF transceiver, remove, open, close, Wait, Answer
    <3>2. CASE run \/ stop \/ Input \/ CallbackReturns \/ Advance \/ RunPosted \/ UNCHANGED vars
      BY <3>2 DEF run, Wait, stop, Input, CallbackReturns, Advance, RunPosted, vars
    <3>3. CASE async_start \/ start
      BY <3>3 DEF async_start, start, Replace
    <3>4. CASE Connected \/ NotConnected \/ FinishClose
      BY <3>4 DEF Connected, NotConnected, FinishClose, onShutdown, Exit
    <3>5. CASE AmqpError \/ TcpError \/ PostedEnds
      BY <3>5 DEF AmqpError, TcpError, BeginClose, PostedEnds, Exit
    <3> QED
      BY <3>1, <3>2, <3>3, <3>4, <3>5 DEF Next
  <2> QED
    BY <2>2, <2>3
<1>2. CASE exitCode # "eAmqpError"
  <2> USE <1>2 DEF own, link, calls, outcome
  <2>1. ASSUME NEW t \in Transceivers,
               transceiver(t) \/ remove(t) \/ open(t) \/ close(t) \/ Answer(t)
        PROVE  FALSE
    BY <2>1 DEF transceiver, remove, open, close, Wait, Answer
  <2>2. CASE run \/ stop \/ Input \/ CallbackReturns \/ Advance \/ RunPosted \/ UNCHANGED vars
    BY <2>2 DEF run, Wait, stop, Input, CallbackReturns, Advance, RunPosted, vars
  <2>3. CASE async_start \/ start
    BY <2>3 DEF async_start, start, Replace
  <2>4. CASE Connected \/ AmqpError \/ TcpError \/ PostedEnds
    BY <2>4 DEF Connected, AmqpError, TcpError, PostedEnds, Exit
  <2>5. CASE NotConnected \/ FinishClose
    <3>1. ~m_connectionHandlerReady' /\ handler' = "down" /\ Dropped /\ UNCHANGED m_transceivers
      BY <2>5 DEF NotConnected, FinishClose, onShutdown, Exit
    <3>2. Listed' = Listed /\ Listed \subseteq Transceivers
      BY <3>1, Listing DEF BaseInv, Listed
    <3> QED
      BY <3>1, <3>2 DEF Dropped, Running
  <2> QED
    BY <2>1, <2>2, <2>3, <2>4, <2>5 DEF Next
<1> QED
  BY <1>1, <1>2

\* What is inductive whatever the application does.
THEOREM Base == Spec => []BaseInv
<1>1. BaseInv /\ [Next]_vars => BaseInv'
  BY TypeStep, ListStep, DropStep DEF BaseInv
<1> QED
  BY InitBase, <1>1, PTL DEF Spec

\* The variables have their types, among them the stack of suspended calls.
THEOREM TypeCorrect == Spec => []TypeOK
<1>1. BaseInv => TypeOK
  BY DEF BaseInv
<1> QED
  BY Base, <1>1, PTL

\* After eAmqpError no transceiver runs until the next start, whatever calls the
\* application makes and however many are suspended (AmqpConnector.cpp:237-246).
THEOREM DroppedOnErrorHolds == Spec => []DroppedOnError
<1>1. BaseInv => DroppedOnError
  BY DEF BaseInv, DropInv, DroppedOnError
<1> QED
  BY Base, <1>1, PTL

\* A step of one transceiver.
Moves(p, q) ==
  \/ q = p
  \/ p = "ended" /\ q = "starting"
  \/ p = "starting" /\ q \in {"ready", "stopping", "ended"}
  \/ p = "ready" /\ q \in {"stopping", "ended"}
  \/ p = "stopping" /\ q = "ended"

LEMMA OneMoves ==
  ASSUME TypeOK, [Next]_vars, NEW u \in Transceivers
  PROVE  Moves(phase[u], phase'[u])
<1> USE DEF TypeOK, Phase, Moves
<1>1. ASSUME NEW t \in Transceivers, transceiver(t) \/ remove(t) PROVE UNCHANGED phase
  BY <1>1 DEF transceiver, remove
<1>2. ASSUME NEW t \in Transceivers, open(t) PROVE Moves(phase[u], phase'[u])
  <2>1. phase[t] = "ended"
    BY <1>2, Listing DEF open, Running
  <2> QED
    BY <1>2, <2>1 DEF open, Started
<1>3. ASSUME NEW t \in Transceivers, close(t) PROVE Moves(phase[u], phase'[u])
  BY <1>3 DEF close, Stopped
<1>4. ASSUME NEW t \in Transceivers, Answer(t) PROVE Moves(phase[u], phase'[u])
  BY <1>4 DEF Answer
<1>5. CASE run
  BY <1>5, Listing DEF run, Started, Running
<1>6. CASE async_start \/ start
  BY <1>6 DEF async_start, start, Replace
<1>7. CASE stop
  BY <1>7 DEF stop, StopAll, Stopped
<1>8. CASE NotConnected \/ FinishClose
  BY <1>8 DEF NotConnected, FinishClose, onShutdown, StopAll, Stopped, Dropped
<1>9. CASE Connected \/ Input \/ CallbackReturns \/ AmqpError \/ TcpError
  BY <1>9 DEF Connected, Input, CallbackReturns, AmqpError, TcpError
<1>10. CASE Advance \/ RunPosted \/ PostedEnds \/ UNCHANGED vars
  BY <1>10 DEF Advance, RunPosted, PostedEnds, vars
<1> QED
  BY <1>1, <1>2, <1>3, <1>4, <1>5, <1>6, <1>7, <1>8, <1>9, <1>10 DEF Next

\* Whatever calls of the application, answers of the broker and stops are
\* interleaved, no transceiver is started before it has ended or becomes ready
\* once it is stopping (start, stop and drop of AmqpTransceiver.cpp).
THEOREM LifecycleHolds == Spec => TransceiversFollowLifecycle
<1>1. TypeOK /\ [Next]_vars => [\A t \in Transceivers : [L(t)!LifeNext]_(phase[t])]_phase
  <2> SUFFICES ASSUME TypeOK, [Next]_vars, NEW t \in Transceivers
               PROVE  [L(t)!LifeNext]_(phase[t])
    OBVIOUS
  <2>1. Moves(phase[t], phase'[t])
    BY OneMoves
  <2> QED
    BY <2>1 DEF Moves, L!LifeNext, L!Begin, L!BecomeReady, L!WindDown, L!Finish
<1> QED
  BY TypeCorrect, <1>1, PTL DEF Spec, TransceiversFollowLifecycle

-----------------------------------------------------------------------------
(* What holds as long as the application neither starts a session before   *)
(* the last one is over nor opens transceivers of one that is ending.      *)

Orderly == Habits \subseteq {"nested"}

LEMMA InitSession == Init => SessionInv
<1> SUFFICES ASSUME Init PROVE SessionInv
  OBVIOUS
<1>1. BaseInv
  BY InitBase
<1> USE DEF Init, InitialHandler
<1>2. \A k : ~Suspended(k)
  BY DEF Suspended
<1>3. AttemptInv
  BY DEF AttemptInv, Fresh, Elements
<1>4. StopInv
  BY <1>2 DEF StopInv, Running, Listed, Elements
<1>5. ExitInv
  BY <1>2 DEF ExitInv, OneWait
<1> QED
  BY <1>1, <1>3, <1>4, <1>5 DEF SessionInv

\* The new handler is made when no call is suspended: the loops that could
\* wait there have all ended when ready() is false.
LEMMA ReplaceAlone ==
  ASSUME SessionInv, Orderly, Calling, Replace
  PROVE  /\ stack = <<>>
         /\ handler \in {"none", "down"}
         /\ ~m_connectionHandlerReady
         /\ ~dangling' /\ ~nested' /\ ~asked' /\ ~m_exiting'
         /\ exits' = 0 /\ exitCode' = "none"
<1>1. TypeOK /\ ~m_connectionHandlerReady
  BY DEF Replace, NotStarted, SessionInv, BaseInv
<1>2. handler \notin {"up", "closing"} /\ Running = {}
  BY <1>1 DEF SessionInv, AttemptInv, StopInv
<1>3. handler # "opening" /\ ~Top("started")
  BY DEF Replace, Orderly
<1>4. handler \in {"none", "down"}
  BY <1>1, <1>2, <1>3 DEF TypeOK, HandlerPhase
<1>5. stack = <<>>
  <2> SUFFICES ASSUME stack # <<>> PROVE FALSE
    OBVIOUS
  <2>1. Spinning
    BY <1>2, <1>3 DEF Calling, Dispatching
  <2> DEFINE f == Head(stack)
             t == Head(f.rest)
  <2>2. f.rest # <<>> /\ phase[t] \notin Settled[f.kind]
    BY <2>1, <1>2, <1>3 DEF Spinning
  <2>3. f \in Elements(stack) /\ f.rest \in Seq(Transceivers)
    BY <1>1, HeadIsFrame
  <2>4. f.kind \in DOMAIN Settled
    BY <2>2, <2>3 DEF SessionInv, BaseInv, ListInv
  <2> HIDE DEF f
  <2>5. t \in Transceivers
    BY <2>2, <2>3
  <2>6. phase[t] # "ended"
    BY <2>2, <2>4, Kinds
  <2>7. t \in Running
    BY <2>5, <2>6 DEF Running, SessionInv, BaseInv, ListInv
  <2> QED
    BY <2>7, <1>2
<1>6. ~Suspended("wait") /\ ~Suspended("parse") /\ ~Suspended("started")
  BY <1>5 DEF Suspended
<1> QED
  BY <1>1, <1>3, <1>4, <1>5, <1>6 DEF Replace, ForgetStop

\* Nothing is started once the function of stop() has been posted.
LEMMA StartsEarly ==
  ASSUME SessionInv, Orderly, [Next]_vars, NEW u \in Transceivers, Starts(u)
  PROVE  /\ handler = "up" /\ ~asked /\ m_connectionHandlerReady /\ ~m_exiting
         /\ posted = 0 /\ ~Suspended("stop")
         /\ UNCHANGED <<m_transceivers, own, link, posted, asked, outcome>>
         /\ \A f \in Elements(stack') : f \in Elements(stack) \/ f.kind = "await"
<1>1. TypeOK
  BY DEF SessionInv, BaseInv
<1>2. Openable /\ m_connectionHandlerReady
  BY <1>1, PhaseMoves
<1>3. handler = "up" /\ ~asked
  BY <1>2 DEF Openable, Timely, Orderly
<1>4. ~(posted > 0) /\ ~Suspended("stop")
  BY <1>3 DEF SessionInv, StopInv
<1>5. posted = 0
  BY <1>1, <1>4 DEF TypeOK
<1>6. UNCHANGED <<m_transceivers, own, link, posted, asked, outcome>>
  BY <1>1, PhaseMoves
<1>7. \A f \in Elements(stack') : f \in Elements(stack) \/ f.kind = "await"
  <2>1. CASE run
    BY <2>1, <1>1, Pushes DEF Gains
  <2>2. ASSUME NEW t \in Transceivers, open(t)
        PROVE  \A f \in Elements(stack') : f \in Elements(stack) \/ f.kind = "await"
    <3> DEFINE g == [kind |-> "await", rest |-> <<t>>]
    <3>1. Elements(stack') = {g} \cup Elements(stack)
      BY <2>2, <1>1, Pushes DEF Gains
    <3>2. g.kind = "await"
      OBVIOUS
    <3> HIDE DEF g
    <3> QED
      BY <3>1, <3>2
  <2> QED
    BY <1>1, <2>1, <2>2, PhaseMoves
<1>8. ~m_exiting
  BY <1>3 DEF SessionInv, StopInv
<1> QED
  BY <1>2, <1>3, <1>4, <1>5, <1>6, <1>7, <1>8

\* Where the frames of the posted function and of the handler's loop come from.
LEMMA NewStops ==
  ASSUME BaseInv, [Next]_vars, NEW f \in Elements(stack'), f \notin Elements(stack),
         f.kind = "stop"
  PROVE  \/ RunPosted /\ f.rest = m_transceivers
         \/ /\ Advance
            /\ stack # <<>>
            /\ Head(stack).rest # <<>>
            /\ Head(stack).kind = "stop"
            /\ f.rest = Tail(Head(stack).rest)
<1>0. TypeOK
  BY DEF BaseInv
<1>1. ASSUME NEW t \in Transceivers, transceiver(t) \/ remove(t) \/ Answer(t) PROVE FALSE
  BY <1>1 DEF transceiver, remove, Answer
<1>2. ASSUME NEW t \in Transceivers, open(t) \/ close(t) PROVE FALSE
  <2>1. f = [kind |-> "await", rest |-> <<t>>] \/ f = [kind |-> "close", rest |-> <<t>>]
    BY <1>0, <1>2, Pushes DEF Gains
  <2> QED
    BY <2>1
<1>3. CASE run \/ start \/ Connected \/ Input \/ AmqpError \/ TcpError
  BY <1>0, <1>3, Pushes DEF Gains
<1>4. CASE RunPosted
  BY <1>0, <1>4, Pushes DEF Gains
<1>5. CASE async_start \/ stop \/ NotConnected
  BY <1>5 DEF async_start, stop, NotConnected
<1>6. CASE CallbackReturns \/ FinishClose
  BY <1>0, <1>6, Pops DEF Loses
<1>7. CASE Advance
  <2>1. stack # <<>> /\ Head(stack).rest # <<>> /\ f = Visited
    BY <1>0, <1>7, Pops DEF Loses, Turns
  <2>2. Head(stack) \in Frame
    BY <1>0, <2>1, HeadIsFrame
  <2> QED
    BY <1>7, <2>1, <2>2 DEF Visited, Frame
<1>8. CASE PostedEnds
  BY <1>0, <1>8, Pops DEF Loses, Turns
<1>9. CASE UNCHANGED vars
  BY <1>9 DEF vars
<1> QED
  BY <1>1, <1>2, <1>3, <1>4, <1>5, <1>6, <1>7, <1>8, <1>9 DEF Next

LEMMA NewWaits ==
  ASSUME BaseInv, [Next]_vars, NEW f \in Elements(stack'), f \notin Elements(stack),
         f.kind = "wait"
  PROVE  AmqpError \/ TcpError \/ (PostedEnds /\ handler # "down")
<1>0. TypeOK
  BY DEF BaseInv
<1>1. ASSUME NEW t \in Transceivers, transceiver(t) \/ remove(t) \/ Answer(t) PROVE FALSE
  BY <1>1 DEF transceiver, remove, Answer
<1>2. ASSUME NEW t \in Transceivers, open(t) \/ close(t) PROVE FALSE
  <2>1. f = [kind |-> "await", rest |-> <<t>>] \/ f = [kind |-> "close", rest |-> <<t>>]
    BY <1>0, <1>2, Pushes DEF Gains
  <2> QED
    BY <2>1
<1>3. CASE run \/ start \/ Connected \/ Input \/ RunPosted
  BY <1>0, <1>3, Pushes DEF Gains
<1>4. CASE async_start \/ stop \/ NotConnected
  BY <1>4 DEF async_start, stop, NotConnected
<1>5. CASE CallbackReturns \/ FinishClose
  BY <1>0, <1>5, Pops DEF Loses
<1>6. CASE Advance
  <2>1. stack # <<>> /\ Head(stack).rest # <<>> /\ f = Visited
    BY <1>0, <1>6, Pops DEF Loses, Turns
  <2>2. Head(stack) \in Frame /\ Head(stack) \in Elements(stack)
    BY <1>0, <2>1, HeadIsFrame
  <2>3. Head(stack).kind = "wait"
    BY <2>1, <2>2 DEF Visited, Frame
  <2> QED
    BY <2>1, <2>2, <2>3, Kinds DEF BaseInv, ListInv
<1>7. CASE PostedEnds
  BY <1>0, <1>7, Pops DEF Loses
<1>8. CASE UNCHANGED vars
  BY <1>8 DEF vars
<1> QED
  BY <1>1, <1>2, <1>3, <1>4, <1>5, <1>6, <1>7, <1>8 DEF Next

LEMMA FreshStep ==
  ASSUME SessionInv, Orderly, [Next]_vars, handler' \in {"none", "opening"}
  PROVE  Fresh'
<1>0. BaseInv /\ TypeOK
  BY DEF SessionInv, BaseInv
<1>1. CASE async_start
  <2>1. stack' = <<>>
    BY <1>1, ReplaceAlone DEF async_start
  <2>2. Elements(stack') = {}
    BY <2>1 DEF Elements
  <2> QED
    BY <1>1, <2>2, ReplaceAlone DEF async_start, Replace, Fresh
<1>2. CASE start
  <2>1. \A f \in Elements(stack') : f.kind = "start"
    <3>1. stack = <<>>
      BY <1>2, ReplaceAlone DEF start, CanWait
    <3> QED
      BY <1>0, <1>2, <3>1, Pushes DEF Gains, Elements
  <2> QED
    BY <1>2, <2>1, ReplaceAlone DEF start, CanWait, Replace, Fresh
<1>3. CASE handler \in {"none", "opening"} /\ ~async_start /\ ~start
  <2>1. Fresh
    BY <1>3 DEF SessionInv, AttemptInv
  <2> USE <2>1 DEF Fresh, own, link, calls, outcome
  <2>2. ASSUME NEW t \in Transceivers, transceiver(t) \/ remove(t) PROVE Fresh'
    BY <2>2 DEF transceiver, remove
  <2>3. ASSUME NEW t \in Transceivers, open(t) \/ close(t) \/ Answer(t) PROVE FALSE
    BY <1>3, <2>3 DEF open, close, Answer, Timely, Orderly
  <2>4. CASE run \/ stop \/ Input \/ AmqpError \/ TcpError
    BY <1>3, <2>4 DEF run, stop, Input, AmqpError, TcpError
  <2>5. CASE Connected \/ NotConnected \/ FinishClose
    BY <2>5 DEF Connected, NotConnected, FinishClose
  <2>6. CASE CallbackReturns
    BY <1>0, <2>6, Pops DEF CallbackReturns, Loses
  <2>7. CASE Advance
    <3>1. stack # <<>> /\ Head(stack) \in Elements(stack)
      BY <1>0, <2>7, HeadIsFrame DEF Advance
    <3>2. Head(stack).rest = <<>>
      BY <1>0, <3>1, Kinds DEF BaseInv, ListInv
    <3>3. Loses
      BY <1>0, <2>7, <3>2, Pops
    <3> QED
      BY <2>7, <3>3 DEF Advance, Loses
  <2>8. CASE RunPosted
    BY <2>8 DEF RunPosted
  <2>9. CASE PostedEnds
    BY <2>9, <1>3 DEF PostedEnds, BeginClose
  <2>10. CASE UNCHANGED vars
    BY <2>10 DEF vars
  <2> QED
    BY <1>3, <2>2, <2>3, <2>4, <2>5, <2>6, <2>7, <2>8, <2>9, <2>10 DEF Next
<1>4. CASE handler \notin {"none", "opening"} /\ ~async_start /\ ~start
  <2> USE DEF link
  <2>1. ASSUME NEW t \in Transceivers,
               transceiver(t) \/ remove(t) \/ open(t) \/ close(t) \/ Answer(t)
        PROVE  UNCHANGED handler
    BY <2>1 DEF transceiver, remove, open, close, Wait, Answer
  <2>2. CASE run \/ stop \/ Input \/ CallbackReturns \/ Advance \/ RunPosted \/ UNCHANGED vars
    BY <1>4, <2>2 DEF run, Wait, stop, Input, CallbackReturns, Advance, RunPosted, vars
  <2>3. CASE Connected \/ NotConnected \/ FinishClose
    BY <2>3 DEF Connected, NotConnected, FinishClose
  <2>4. CASE AmqpError \/ TcpError \/ PostedEnds
    BY <1>4, <2>4 DEF AmqpError, TcpError, PostedEnds, BeginClose
  <2> QED
    BY <1>4, <2>1, <2>2, <2>3, <2>4 DEF Next
<1> QED
  BY <1>1, <1>2, <1>3, <1>4

LEMMA ReadyStep ==
  ASSUME SessionInv, Orderly, [Next]_vars, handler' \in {"up", "closing"}
  PROVE  m_connectionHandlerReady'
<1> USE DEF SessionInv, AttemptInv, own, link, outcome
<1>1. ASSUME NEW t \in Transceivers,
             transceiver(t) \/ remove(t) \/ open(t) \/ close(t) \/ Answer(t)
      PROVE  m_connectionHandlerReady'
  BY <1>1 DEF transceiver, remove, open, close, Wait, Answer
<1>2. CASE run \/ stop \/ Input \/ CallbackReturns \/ Advance \/ RunPosted \/ UNCHANGED vars
  BY <1>2 DEF run, Wait, stop, Input, CallbackReturns, Advance, RunPosted, vars
<1>3. CASE async_start \/ start \/ NotConnected \/ FinishClose
  BY <1>3 DEF async_start, start, Replace, NotConnected, FinishClose
<1>4. CASE Connected
  BY <1>4 DEF Connected, onConnected
<1>5. CASE AmqpError \/ TcpError
  BY <1>5 DEF AmqpError, TcpError
<1>6. CASE PostedEnds
  <2>1. TypeOK /\ handler # "down" /\ UNCHANGED m_connectionHandlerReady
    BY <1>6 DEF PostedEnds, BaseInv
  <2>2. stack # <<>> /\ Head(stack).kind = "stop" /\ Head(stack) \in Elements(stack)
    BY <1>6, <2>1, HeadIsFrame DEF PostedEnds, Top
  <2>3. ~Fresh
    BY <2>2 DEF Fresh
  <2> QED
    BY <2>1, <2>3 DEF TypeOK, HandlerPhase
<1> QED
  BY <1>1, <1>2, <1>3, <1>4, <1>5, <1>6 DEF Next

LEMMA StopKnown ==
  ASSUME SessionInv, Orderly, [Next]_vars
  PROVE  (posted > 0 \/ Suspended("stop") => asked \/ handler # "up")'
<1> SUFFICES ASSUME handler' = "up", ~asked'
             PROVE  ~(posted' > 0) /\ ~Suspended("stop")'
  OBVIOUS
<1>0. BaseInv /\ TypeOK
  BY DEF SessionInv, BaseInv
<1>1. CASE Connected
  <2>1. Fresh
    BY <1>1 DEF SessionInv, AttemptInv, Connected
  <2>2. \A f \in Elements(stack') : f.kind \in {"start", "started"}
    BY <1>0, <1>1, <2>1, Pushes DEF Fresh, Gains
  <2> QED
    BY <1>1, <2>1, <2>2, SuspendedElements DEF Connected, Fresh
<1>2. CASE ~Connected
  <2>1. handler = "up" /\ UNCHANGED <<posted, asked>>
    <3> USE DEF link, calls
    <3>1. ASSUME NEW t \in Transceivers,
                 transceiver(t) \/ remove(t) \/ open(t) \/ close(t) \/ Answer(t)
          PROVE  handler = "up" /\ UNCHANGED <<posted, asked>>
      BY <3>1 DEF transceiver, remove, open, close, Wait, Answer
    <3>2. CASE run \/ Input \/ CallbackReturns \/ Advance \/ UNCHANGED vars
      BY <3>2 DEF run, Wait, Input, CallbackReturns, Advance, vars
    <3>3. CASE async_start \/ start \/ NotConnected \/ FinishClose \/ stop
      BY <3>3 DEF async_start, start, Replace, NotConnected, FinishClose, stop
    <3>4. CASE AmqpError \/ TcpError \/ PostedEnds
      BY <3>4 DEF AmqpError, TcpError, PostedEnds, BeginClose
    <3>5. CASE RunPosted
      BY <3>5 DEF RunPosted, SessionInv, StopInv
    <3> QED
      BY <1>2, <3>1, <3>2, <3>3, <3>4, <3>5 DEF Next
  <2>2. ~(posted > 0) /\ ~Suspended("stop")
    BY <2>1 DEF SessionInv, StopInv
  <2>3. ASSUME NEW f \in Elements(stack'), f.kind = "stop" PROVE FALSE
    <3>1. f \notin Elements(stack)
      BY <2>2, <2>3, SuspendedElements
    <3>2. CASE RunPosted
      BY <2>2, <3>2 DEF RunPosted
    <3>3. CASE stack # <<>> /\ Head(stack).kind = "stop"
      BY <1>0, <2>2, <3>3, HeadIsFrame, SuspendedElements
    <3> QED
      BY <1>0, <2>3, <3>1, <3>2, <3>3, NewStops
  <2> QED
    BY <2>1, <2>2, <2>3, SuspendedElements
<1> QED
  BY <1>1, <1>2

LEMMA StillToVisit ==
  ASSUME SessionInv, Orderly, [Next]_vars, NEW f \in Elements(stack'), f.kind = "stop",
         NEW t \in Running'
  PROVE  t \in Elements(f.rest)
<1>0. BaseInv /\ TypeOK /\ t \in Transceivers
  BY RunningListed DEF SessionInv, BaseInv
<1>1. t \in Running
  <2> SUFFICES ASSUME Starts(t) PROVE FALSE
    BY <1>0, RunningMoves
  <2>1. f \in Elements(stack) /\ ~Suspended("stop")
    BY <1>0, StartsEarly
  <2> QED
    BY <2>1, SuspendedElements
<1>2. CASE f \in Elements(stack)
  BY <1>1, <1>2 DEF SessionInv, StopInv
<1>3. CASE RunPosted /\ f.rest = m_transceivers
  BY <1>1, <1>3 DEF Running, Listed
<1>4. CASE /\ Advance
           /\ stack # <<>>
           /\ Head(stack).rest # <<>>
           /\ Head(stack).kind = "stop"
           /\ f.rest = Tail(Head(stack).rest)
  <2> DEFINE r == Head(stack).rest
  <2>1. Head(stack) \in Elements(stack) /\ r \in Seq(Transceivers)
    BY <1>0, <1>4, HeadIsFrame
  <2>2. t \in Elements(r)
    BY <1>1, <1>4, <2>1 DEF SessionInv, StopInv
  <2>3. phase[Head(r)] = "ended"
    BY <1>4, Kinds DEF Advance, Spinning
  <2>4. phase[t] # "ended"
    BY <1>1 DEF Running
  <2>5. Elements(r) = {Head(r)} \cup Elements(f.rest)
    <3> HIDE DEF r
    <3>1. r # <<>> /\ f.rest = Tail(r)
      BY <1>4 DEF r
    <3> QED
      BY <2>1, <3>1, PoppedElements
  <2> QED
    BY <2>2, <2>3, <2>4, <2>5
<1> QED
  BY <1>0, <1>2, <1>3, <1>4, NewStops

\* The posted function behind its loop: nothing runs any more.
LEMMA PostedFindsNone ==
  ASSUME SessionInv, PostedEnds
  PROVE  /\ Running = {}
         /\ Suspended("stop")
         /\ Running' = {}
         /\ handler \in {"up", "closing", "down"}
<1>1. TypeOK /\ stack # <<>> /\ Head(stack).kind = "stop" /\ Head(stack).rest = <<>>
  BY DEF SessionInv, BaseInv, PostedEnds, Top
<1>2. Head(stack) \in Elements(stack)
  BY <1>1, HeadIsFrame
<1>3. Running = {}
  <2>1. Elements(Head(stack).rest) = {}
    BY <1>1 DEF Elements
  <2> QED
    BY <1>1, <1>2, <2>1 DEF SessionInv, StopInv
<1>4. Running' = {}
  BY <1>3 DEF PostedEnds, Running, Listed
<1>5. ~Fresh
  BY <1>1, <1>2 DEF Fresh
<1> QED
  BY <1>1, <1>2, <1>3, <1>4, <1>5, SuspendedElements
  DEF SessionInv, AttemptInv, TypeOK, HandlerPhase

LEMMA NothingStarts ==
  ASSUME SessionInv, Orderly, [Next]_vars, Running = {},
         handler # "up" \/ ~m_connectionHandlerReady
  PROVE  Running' = {}
<1>1. BaseInv /\ \A t \in Running' : t \in Transceivers
  BY RunningListed DEF SessionInv, BaseInv
<1> QED
  BY <1>1, RunningMoves, StartsEarly

LEMMA ExitingStep ==
  ASSUME SessionInv, Orderly, [Next]_vars, m_exiting'
  PROVE  Running' = {} /\ handler' \in {"closing", "down"}
<1>1. CASE PostedEnds /\ ~m_exiting
  BY <1>1, PostedFindsNone DEF PostedEnds, BeginClose, own
<1>2. CASE m_exiting
  <2>1. Running = {} /\ handler \in {"closing", "down"}
    BY <1>2 DEF SessionInv, StopInv
  <2>2. Running' = {}
    BY <2>1, NothingStarts
  <2>3. handler' \in {"closing", "down"}
    <3> USE <2>1 DEF own, link
    <3>1. ASSUME NEW t \in Transceivers,
                 transceiver(t) \/ remove(t) \/ open(t) \/ close(t) \/ Answer(t)
          PROVE  UNCHANGED handler
      BY <3>1 DEF transceiver, remove, open, close, Wait, Answer
    <3>2. CASE run \/ stop \/ Input \/ CallbackReturns \/ Advance \/ RunPosted \/ UNCHANGED vars
      BY <3>2 DEF run, Wait, stop, Input, CallbackReturns, Advance, RunPosted, vars
    <3>3. CASE async_start \/ start
      BY <3>3 DEF async_start, start, Replace, ForgetStop
    <3>4. CASE Connected \/ NotConnected \/ FinishClose
      BY <3>4 DEF Connected, NotConnected, FinishClose
    <3>5. CASE AmqpError \/ TcpError \/ PostedEnds
      BY <3>5 DEF AmqpError, TcpError, PostedEnds, BeginClose
    <3> QED
      BY <3>1, <3>2, <3>3, <3>4, <3>5 DEF Next
  <2> QED
    BY <2>2, <2>3
<1>3. CASE ~m_exiting /\ ~PostedEnds
  <2> USE <1>3 DEF own
  <2>1. ASSUME NEW t \in Transceivers,
               transceiver(t) \/ remove(t) \/ open(t) \/ close(t) \/ Answer(t)
        PROVE  FALSE
    BY <2>1 DEF transceiver, remove, open, close, Wait, Answer
  <2>2. CASE run \/ stop \/ Input \/ CallbackReturns \/ Advance \/ RunPosted \/ UNCHANGED vars
    BY <2>2 DEF run, Wait, stop, Input, CallbackReturns, Advance, RunPosted, vars
  <2>3. CASE async_start \/ start
    BY <2>3 DEF async_start, start, Replace, ForgetStop
  <2>4. CASE Connected \/ NotConnected \/ FinishClose \/ AmqpError \/ TcpError
    BY <2>4 DEF Connected, onConnected, NotConnected, FinishClose, onShutdown, AmqpError, TcpError
  <2> QED
    BY <2>1, <2>2, <2>3, <2>4 DEF Next
<1> QED
  BY <1>1, <1>2, <1>3

LEMMA OverStep ==
  ASSUME SessionInv, Orderly, [Next]_vars, ~m_connectionHandlerReady'
  PROVE  Running' = {}
<1>0. TypeOK
  BY DEF SessionInv, BaseInv
<1>1. CASE ~m_connectionHandlerReady
  BY <1>1, NothingStarts DEF SessionInv, StopInv
<1>2. CASE m_connectionHandlerReady
  <2> USE <1>2 DEF own
  <2>1. ASSUME NEW t \in Transceivers,
               transceiver(t) \/ remove(t) \/ open(t) \/ close(t) \/ Answer(t)
        PROVE  FALSE
    BY <2>1 DEF transceiver, remove, open, close, Wait, Answer
  <2>2. CASE run \/ stop \/ Input \/ CallbackReturns \/ Advance \/ RunPosted \/ UNCHANGED vars
    BY <2>2 DEF run, Wait, stop, Input, CallbackReturns, Advance, RunPosted, vars
  <2>3. CASE async_start \/ start \/ Connected \/ AmqpError \/ TcpError
    BY <2>3 DEF async_start, start, Replace, NotStarted, Connected, onConnected, AmqpError, TcpError
  <2>4. CASE NotConnected
    BY <2>4 DEF NotConnected, SessionInv, AttemptInv, Fresh
  <2>5. CASE FinishClose /\ m_exiting
    <3>1. Running = {} /\ UNCHANGED phase /\ UNCHANGED m_transceivers
      BY <2>5 DEF FinishClose, onShutdown, SessionInv, StopInv
    <3> QED
      BY <3>1 DEF Running, Listed
  <2>6. CASE FinishClose /\ ~m_exiting
    <3>1. Dropped /\ UNCHANGED m_transceivers
      BY <2>6 DEF FinishClose, onShutdown
    <3>2. Listed' = Listed /\ Listed \subseteq Transceivers
      BY <1>0, <3>1, Listing DEF Listed
    <3> QED
      BY <3>1, <3>2 DEF Dropped, Running
  <2>7. CASE PostedEnds
    BY <2>7, PostedFindsNone
  <2> QED
    BY <2>1, <2>2, <2>3, <2>4, <2>5, <2>6, <2>7 DEF Next
<1> QED
  BY <1>1, <1>2

LEMMA StopStep ==
  ASSUME SessionInv, Orderly, [Next]_vars
  PROVE  StopInv'
BY StopKnown, StillToVisit, ExitingStep, OverStep DEF StopInv

LEMMA ExitsOfReady ==
  ASSUME SessionInv, Orderly, [Next]_vars, m_connectionHandlerReady'
  PROVE  exits' = 0
<1> USE DEF own, outcome, SessionInv, ExitInv
<1>1. ASSUME NEW t \in Transceivers,
             transceiver(t) \/ remove(t) \/ open(t) \/ close(t) \/ Answer(t)
      PROVE  exits' = 0
  BY <1>1 DEF transceiver, remove, open, close, Wait, Answer
<1>2. CASE run \/ stop \/ Input \/ CallbackReturns \/ Advance \/ RunPosted \/ UNCHANGED vars
  BY <1>2 DEF run, Wait, stop, Input, CallbackReturns, Advance, RunPosted, vars
<1>3. CASE async_start \/ start
  BY <1>3 DEF async_start, start, Replace
<1>4. CASE Connected
  BY <1>4 DEF Connected, AttemptInv, Fresh
<1>5. CASE NotConnected \/ FinishClose
  BY <1>5 DEF NotConnected, FinishClose, onShutdown, Exit
<1>6. CASE AmqpError \/ TcpError \/ PostedEnds
  BY <1>6 DEF AmqpError, TcpError, PostedEnds, Exit
<1> QED
  BY <1>1, <1>2, <1>3, <1>4, <1>5, <1>6 DEF Next

\* Only a new handler makes a close that was nested forgotten.
LEMMA NestedStays ==
  ASSUME TypeOK, [Next]_vars, ~nested'
  PROVE  async_start \/ start \/ ~nested
<1> USE DEF link, TypeOK, FlagsOK
<1>1. ASSUME NEW t \in Transceivers,
             transceiver(t) \/ remove(t) \/ open(t) \/ close(t) \/ Answer(t)
      PROVE  ~nested
  BY <1>1 DEF transceiver, remove, open, close, Wait, Answer
<1>2. CASE run \/ stop \/ Input \/ CallbackReturns \/ Advance \/ RunPosted \/ UNCHANGED vars
  BY <1>2 DEF run, Wait, stop, Input, CallbackReturns, Advance, RunPosted, vars
<1>3. CASE Connected \/ NotConnected \/ FinishClose
  BY <1>3 DEF Connected, NotConnected, FinishClose
<1>4. CASE AmqpError \/ TcpError \/ PostedEnds
  BY <1>4 DEF AmqpError, TcpError, PostedEnds, BeginClose
<1> QED
  BY <1>1, <1>2, <1>3, <1>4 DEF Next

\* The handler's loop that ends, without nesting, was its only one, and its
\* connection had not been reported as gone.
LEMMA LastWait ==
  ASSUME SessionInv, FinishClose, ~nested
  PROVE  /\ m_connectionHandlerReady /\ exits = 0 /\ handler = "closing"
         /\ \A f \in Elements(stack') : f.kind # "wait"
<1>0. TypeOK
  BY DEF SessionInv, BaseInv
<1>1. stack # <<>> /\ Head(stack).kind = "wait" /\ Suspended("wait")
  BY <1>0, HeadIsFrame, SuspendedElements DEF FinishClose, Top
<1>2. handler = "closing" /\ OneWait(stack)
  BY <1>1 DEF SessionInv, ExitInv
<1>3. m_connectionHandlerReady /\ exits = 0
  BY <1>2 DEF SessionInv, ExitInv, AttemptInv
<1> QED
  BY <1>0, <1>1, <1>2, <1>3, Pops DEF Loses

LEMMA WaitsWhileClosing ==
  ASSUME SessionInv, Orderly, [Next]_vars, Suspended("wait")'
  PROVE  handler' \in {"closing", "down"} /\ (~nested' => handler' = "closing")
<1>0. BaseInv /\ TypeOK
  BY DEF SessionInv, BaseInv
<1>1. PICK f \in Elements(stack') : f.kind = "wait"
  BY SuspendedElements
<1>2. CASE f \notin Elements(stack)
  <2>1. AmqpError \/ TcpError \/ (PostedEnds /\ handler # "down")
    BY <1>0, <1>1, <1>2, NewWaits
  <2> QED
    BY <2>1 DEF AmqpError, TcpError, PostedEnds, BeginClose
<1>3. CASE f \in Elements(stack)
  <2>1. Suspended("wait")
    BY <1>1, <1>3, SuspendedElements
  <2>2. handler \in {"closing", "down"} /\ (~nested => handler = "closing")
    BY <2>1 DEF SessionInv, ExitInv
  <2> USE <2>2 DEF link
  <2>3. ASSUME NEW t \in Transceivers,
               transceiver(t) \/ remove(t) \/ open(t) \/ close(t) \/ Answer(t)
        PROVE  UNCHANGED <<handler, nested>>
    BY <2>3 DEF transceiver, remove, open, close, Wait, Answer
  <2>4. CASE run \/ stop \/ Input \/ CallbackReturns \/ Advance \/ RunPosted \/ UNCHANGED vars
    BY <2>4 DEF run, Wait, stop, Input, CallbackReturns, Advance, RunPosted, vars
  <2>5. CASE async_start \/ start
    BY <2>1, <2>5, ReplaceAlone DEF async_start, start, CanWait, Suspended
  <2>6. CASE Connected \/ NotConnected
    BY <2>6 DEF Connected, NotConnected
  <2>7. CASE FinishClose
    <3>1. nested
      BY <1>1, <2>7, LastWait
    <3> QED
      BY <2>7, <3>1 DEF FinishClose
  <2>8. CASE AmqpError \/ TcpError \/ PostedEnds
    BY <2>8 DEF AmqpError, TcpError, PostedEnds, BeginClose
  <2> QED
    BY <2>3, <2>4, <2>5, <2>6, <2>7, <2>8 DEF Next
<1> QED
  BY <1>2, <1>3

LEMMA ExitsOnce ==
  ASSUME SessionInv, Orderly, [Next]_vars, ~nested'
  PROVE  exits' <= 1
<1>0. TypeOK /\ exits \in Nat
  BY DEF SessionInv, BaseInv, TypeOK
<1>1. CASE async_start \/ start
  BY <1>1, ReplaceAlone DEF async_start, start, CanWait
<1>2. CASE ~async_start /\ ~start
  <2>1. ~nested /\ exits <= 1
    BY <1>0, <1>2, NestedStays DEF SessionInv, ExitInv
  <2> USE <1>0, <2>1 DEF outcome
  <2>2. ASSUME NEW t \in Transceivers,
               transceiver(t) \/ remove(t) \/ open(t) \/ close(t) \/ Answer(t)
        PROVE  UNCHANGED exits
    BY <2>2 DEF transceiver, remove, open, close, Wait, Answer
  <2>3. CASE run \/ stop \/ Input \/ CallbackReturns \/ Advance \/ RunPosted \/ UNCHANGED vars
    BY <2>3 DEF run, Wait, stop, Input, CallbackReturns, Advance, RunPosted, vars
  <2>4. CASE Connected \/ AmqpError \/ TcpError
    BY <2>4 DEF Connected, AmqpError, TcpError
  <2>5. CASE NotConnected
    <3>1. exits = 0
      BY <2>5 DEF NotConnected, SessionInv, AttemptInv, Fresh
    <3>2. exits' = exits + 1 \/ exits' = exits
      BY <2>5 DEF NotConnected, onShutdown, Exit
    <3> QED
      BY <3>1, <3>2
  <2>6. CASE FinishClose
    <3>1. exits = 0
      BY <2>6, LastWait
    <3>2. exits' = exits + 1 \/ exits' = exits
      BY <2>6 DEF FinishClose, onShutdown, Exit
    <3> QED
      BY <3>1, <3>2
  <2>7. CASE PostedEnds
    BY <2>7 DEF PostedEnds, Unreported, Exit, SessionInv, ExitInv
  <2> QED
    BY <1>2, <2>2, <2>3, <2>4, <2>5, <2>6, <2>7 DEF Next
<1> QED
  BY <1>1, <1>2

LEMMA OneWaitStep ==
  ASSUME SessionInv, Orderly, [Next]_vars, ~nested'
  PROVE  OneWait(stack')
<1>0. BaseInv /\ TypeOK
  BY DEF SessionInv, BaseInv
<1>1. CASE async_start \/ start
  <2>1. OneWait(stack)
    BY <1>1, ReplaceAlone DEF async_start, start, CanWait, OneWait
  <2> QED
    BY <1>0, <1>1, <2>1, Pushes DEF async_start, Gains
<1>2. CASE ~async_start /\ ~start
  <2>1. OneWait(stack) /\ (handler # "closing" => ~Suspended("wait"))
    BY <1>0, <1>2, NestedStays DEF SessionInv, ExitInv
  <2>2. AmqpError \/ TcpError \/ (PostedEnds /\ handler # "down") => ~Suspended("wait")
    BY <2>1 DEF AmqpError, TcpError, PostedEnds, BeginClose
  <2>3. ASSUME NEW t \in Transceivers, transceiver(t) \/ remove(t) \/ Answer(t)
        PROVE  UNCHANGED stack
    BY <2>3 DEF transceiver, remove, Answer
  <2>4. ASSUME NEW t \in Transceivers, open(t) \/ close(t) PROVE OneWait(stack')
    <3>1. \E k \in {"await", "close"} : Gains([kind |-> k, rest |-> <<t>>])
      BY <1>0, <2>4, Pushes
    <3> QED
      BY <2>1, <3>1 DEF Gains
  <2>5. CASE run \/ Connected \/ Input \/ RunPosted
    BY <1>0, <2>1, <2>5, Pushes DEF Gains
  <2>6. CASE AmqpError \/ TcpError
    BY <1>0, <2>1, <2>2, <2>6, Pushes DEF Gains
  <2>7. CASE CallbackReturns \/ FinishClose
    BY <1>0, <2>1, <2>7, Pops DEF Loses
  <2>8. CASE Advance /\ Head(stack).rest = <<>>
    BY <1>0, <2>1, <2>8, Pops DEF Loses
  <2>9. CASE Advance /\ Head(stack).rest # <<>>
    <3>1. stack # <<>> /\ Turns(Visited)
      BY <1>0, <2>9, Pops DEF Turns
    <3>2. Visited.kind # "wait"
      BY <1>0, <2>9, <3>1, HeadIsFrame, Kinds DEF BaseInv, ListInv, Visited, Frame
    <3> QED
      BY <2>1, <3>1, <3>2 DEF Turns
  <2>10. CASE PostedEnds
    BY <1>0, <2>1, <2>2, <2>10, Pops DEF Loses, Turns
  <2>11. CASE stop \/ NotConnected \/ UNCHANGED vars
    BY <2>1, <2>11 DEF stop, NotConnected, vars
  <2> QED
    BY <1>2, <2>1, <2>3, <2>4, <2>5, <2>6, <2>7, <2>8, <2>9, <2>10, <2>11 DEF Next
<1> QED
  BY <1>1, <1>2

LEMMA ExitStep ==
  ASSUME SessionInv, Orderly, [Next]_vars
  PROVE  ExitInv'
BY ExitsOfReady, WaitsWhileClosing, ExitsOnce, OneWaitStep DEF ExitInv

LEMMA DanglingStep ==
  ASSUME SessionInv, Orderly, [Next]_vars
  PROVE  ~dangling'
<1> USE DEF link, SessionInv
<1>1. ASSUME NEW t \in Transceivers,
             transceiver(t) \/ remove(t) \/ open(t) \/ close(t) \/ Answer(t)
      PROVE  ~dangling'
  BY <1>1 DEF transceiver, remove, open, close, Wait, Answer
<1>2. CASE run \/ stop \/ Input \/ CallbackReturns \/ Advance \/ RunPosted \/ UNCHANGED vars
  BY <1>2 DEF run, Wait, stop, Input, CallbackReturns, Advance, RunPosted, vars
<1>3. CASE async_start \/ start
  BY <1>3, ReplaceAlone DEF async_start, start, CanWait
<1>4. CASE Connected \/ NotConnected \/ FinishClose
  BY <1>4 DEF Connected, NotConnected, FinishClose
<1>5. CASE AmqpError \/ TcpError \/ PostedEnds
  BY <1>5 DEF AmqpError, TcpError, PostedEnds, BeginClose
<1> QED
  BY <1>1, <1>2, <1>3, <1>4, <1>5 DEF Next

\* What is inductive as long as the application is orderly: the sessions do not
\* overlap on the stack of suspended calls.
THEOREM Sessions == ASSUME Orderly PROVE Spec => []SessionInv
<1>1. SessionInv /\ [Next]_vars => SessionInv'
  <2> SUFFICES ASSUME SessionInv, [Next]_vars PROVE SessionInv'
    OBVIOUS
  <2>1. BaseInv'
    BY TypeStep, ListStep, DropStep DEF SessionInv, BaseInv
  <2>2. AttemptInv'
    BY FreshStep, ReadyStep DEF AttemptInv
  <2> QED
    BY <2>1, <2>2, StopStep, ExitStep, DanglingStep DEF SessionInv
<1> QED
  BY InitSession, <1>1, PTL DEF Spec

\* When ready() has become false every transceiver has stopped and there is no
\* connection, also after a stop that raced an error, a broken connection or a
\* close in a close: the application may destroy them (AmqpConnector.hpp:220-222).
THEOREM NotReadyMeansStoppedHolds == ASSUME Orderly PROVE Spec => []NotReadyMeansStopped
<1>1. SessionInv => NotReadyMeansStopped
  BY DEF SessionInv, StopInv, AttemptInv, NotReadyMeansStopped
<1> QED
  BY Sessions, <1>1, PTL

\* One exit callback for a call of async_start(), unless a close of the handler
\* begins in the loop of another one (AmqpConnector.cpp:220-246).
THEOREM ExitOnceUnlessNestedHolds == ASSUME Orderly PROVE Spec => []ExitOnceUnlessNested
<1>1. SessionInv => ExitOnceUnlessNested
  BY DEF SessionInv, ExitInv, ExitOnceUnlessNested
<1> QED
  BY Sessions, <1>1, PTL

\* No handler is destroyed with its own code suspended on the stack or with its
\* socket operations outstanding (AmqpConnector.cpp:166-196).
THEOREM NoDanglingHolds == ASSUME Orderly PROVE Spec => []NoDangling
<1>1. SessionInv => NoDangling
  BY DEF SessionInv, NoDangling
<1> QED
  BY Sessions, <1>1, PTL

-----------------------------------------------------------------------------
(* The refinement of Session, and the use the connector makes of Link.     *)

LEMMA SessionStarts == Init => S!SessionInit
BY DEF Init, InitialHandler, S!SessionInit, SessionPhase

LEMMA SessionSteps ==
  ASSUME SessionInv, Orderly, [Next]_vars
  PROVE  [nested' \/ S!SessionNext]_(S!sessionVars)
<1>0. BaseInv /\ TypeOK
  BY DEF SessionInv, BaseInv
<1> USE DEF own, link, calls, outcome, S!sessionVars, SessionPhase
<1>1. ASSUME NEW t \in Transceivers,
             transceiver(t) \/ remove(t) \/ open(t) \/ close(t) \/ Answer(t)
      PROVE  UNCHANGED S!sessionVars
  <2>1. UNCHANGED <<m_connectionHandlerReady, asked, handler, exits, exitCode>>
    BY <1>1 DEF transceiver, remove, open, close, Wait, Answer
  <2> QED
    BY <2>1
<1>2. CASE run \/ Input \/ CallbackReturns \/ Advance \/ RunPosted \/ UNCHANGED vars
  BY <1>2 DEF run, Wait, Input, CallbackReturns, Advance, RunPosted, vars
<1>3. CASE async_start \/ start
  <2>1. S!Begin
    BY <1>3, ReplaceAlone DEF async_start, start, CanWait, Replace, S!Begin
  <2> QED
    BY <2>1 DEF S!SessionNext
<1>4. CASE stop
  <2>1. S!WindUp \/ UNCHANGED S!sessionVars
    BY <1>4 DEF stop, S!WindUp
  <2> QED
    BY <2>1 DEF S!SessionNext
<1>5. CASE Connected
  <2>1. Fresh
    BY <1>5 DEF Connected, SessionInv, AttemptInv
  <2>2. S!Connect
    BY <1>5, <2>1 DEF Connected, onConnected, Fresh, S!Connect
  <2> QED
    BY <2>2 DEF S!SessionNext
<1>6. CASE NotConnected
  <2>1. Fresh
    BY <1>6 DEF NotConnected, SessionInv, AttemptInv
  <2>2. S!Refuse
    BY <1>6, <2>1 DEF NotConnected, onShutdown, Exit, Fresh, S!Refuse, S!Exit
  <2> QED
    BY <2>2 DEF S!SessionNext
<1>7. CASE AmqpError \/ TcpError
  <2>1. m_connectionHandlerReady
    BY <1>7 DEF AmqpError, TcpError, SessionInv, AttemptInv
  <2>2. S!WindUp \/ UNCHANGED S!sessionVars
    BY <1>7, <2>1 DEF AmqpError, TcpError, BeginClose, S!WindUp
  <2> QED
    BY <2>2 DEF S!SessionNext
<1>8. CASE FinishClose
  <2>1. CASE nested
    BY <1>8, <2>1 DEF FinishClose
  <2>2. CASE ~nested
    <3>1. m_connectionHandlerReady /\ exits = 0 /\ handler = "closing" /\ handler' = "down"
      BY <1>8, <2>2, LastWait DEF FinishClose
    <3>2. CASE m_exiting
      <4>1. S!Stopped
        BY <1>8, <3>1, <3>2 DEF FinishClose, onShutdown, Exit, S!Stopped, S!Exit
      <4> QED
        BY <4>1 DEF S!SessionNext
    <3>3. CASE ~m_exiting /\ amqpError
      <4>1. S!Fail
        BY <1>8, <3>1, <3>3 DEF FinishClose, onShutdown, Exit, S!Fail, S!Exit
      <4> QED
        BY <4>1 DEF S!SessionNext
    <3>4. CASE ~m_exiting /\ ~amqpError
      BY <1>8, <3>1, <3>4 DEF FinishClose, onShutdown
    <3> QED
      BY <3>2, <3>3, <3>4
  <2> QED
    BY <2>1, <2>2
<1>9. CASE PostedEnds
  <2>1. handler \in {"up", "closing", "down"}
    BY <1>9, PostedFindsNone
  <2>2. CASE handler = "down" /\ m_connectionHandlerReady
    <3>1. S!Stopped
      BY <1>9, <2>2 DEF PostedEnds, Unreported, Exit, S!Stopped, S!Exit
    <3> QED
      BY <3>1 DEF S!SessionNext
  <2>3. CASE handler = "down" /\ ~m_connectionHandlerReady
    BY <1>9, <2>3 DEF PostedEnds, Unreported
  <2>4. CASE handler # "down"
    <3>1. m_connectionHandlerReady
      BY <2>1, <2>4 DEF SessionInv, AttemptInv
    <3>2. S!WindUp \/ UNCHANGED S!sessionVars
      BY <1>9, <2>4, <3>1 DEF PostedEnds, BeginClose, S!WindUp
    <3> QED
      BY <3>2 DEF S!SessionNext
  <2> QED
    BY <2>2, <2>3, <2>4
<1> QED
  BY <1>1, <1>2, <1>3, <1>4, <1>5, <1>6, <1>7, <1>8, <1>9 DEF Next

\* The connector implements Session up to the first close in a close: it begins
\* when it is idle, and ends with one exit callback whose code says why.
THEOREM SessionRefinement == ASSUME Orderly PROVE Spec => ImplementsSessionUnlessNested
<1>1. SessionInv /\ [Next]_vars => [nested' \/ S!SessionNext]_(S!sessionVars)
  BY SessionSteps
<1> QED
  BY Sessions, SessionStarts, <1>1, PTL DEF Spec, ImplementsSessionUnlessNested

LEMMA LinkSteps ==
  ASSUME SessionInv, Orderly, [Next]_vars
  PROVE  [H!LinkNext]_(H!linkVars)
<1> USE DEF link, H!linkVars
<1>1. ASSUME NEW t \in Transceivers,
             transceiver(t) \/ remove(t) \/ open(t) \/ close(t) \/ Answer(t)
      PROVE  UNCHANGED handler
  BY <1>1 DEF transceiver, remove, open, close, Wait, Answer
<1>2. CASE run \/ stop \/ Input \/ CallbackReturns \/ Advance \/ RunPosted \/ UNCHANGED vars
  BY <1>2 DEF run, Wait, stop, Input, CallbackReturns, Advance, RunPosted, vars
<1>3. CASE async_start \/ start
  <2>1. H!Open
    BY <1>3, ReplaceAlone DEF async_start, start, CanWait, Replace, H!Open, H!stream
  <2> QED
    BY <2>1 DEF H!LinkNext
<1>4. CASE Connected
  <2>1. H!Establish
    BY <1>4 DEF Connected, H!Establish, H!stream
  <2> QED
    BY <2>1 DEF H!LinkNext
<1>5. CASE NotConnected
  <2>1. H!Fail
    BY <1>5 DEF NotConnected, H!Fail, H!stream
  <2> QED
    BY <2>1 DEF H!LinkNext
<1>6. CASE AmqpError \/ TcpError
  <2>1. H!Close \/ UNCHANGED handler
    BY <1>6 DEF AmqpError, TcpError, BeginClose, H!Close, H!stream
  <2> QED
    BY <2>1 DEF H!LinkNext
<1>7. CASE FinishClose
  <2>1. TypeOK /\ stack # <<>>
    BY <1>7 DEF SessionInv, BaseInv, FinishClose, Top
  <2>2. Suspended("wait")
    BY <1>7, <2>1, HeadIsFrame, SuspendedElements DEF FinishClose, Top
  <2>3. handler \in {"closing", "down"}
    BY <2>2 DEF SessionInv, ExitInv
  <2>4. H!Down \/ UNCHANGED handler
    BY <1>7, <2>3 DEF FinishClose, H!Down
  <2> QED
    BY <2>4 DEF H!LinkNext
<1>8. CASE PostedEnds
  <2>1. handler \in {"up", "closing", "down"}
    BY <1>8, PostedFindsNone
  <2>2. H!Close \/ UNCHANGED handler
    BY <1>8, <2>1 DEF PostedEnds, BeginClose, H!Close, H!stream
  <2> QED
    BY <2>2 DEF H!LinkNext
<1> QED
  BY <1>1, <1>2, <1>3, <1>4, <1>5, <1>6, <1>7, <1>8 DEF Next

\* The connector uses its handler as Link allows: it opens one that is down, and
\* closes one that is up.
THEOREM LinkFollowed == ASSUME Orderly PROVE Spec => HandlerFollowsLink
<1>1. Init => H!LinkInit
  BY DEF Init, InitialHandler, H!LinkInit
<1>2. SessionInv /\ [Next]_vars => [H!LinkNext]_(H!linkVars)
  BY LinkSteps
<1> QED
  BY Sessions, <1>1, <1>2, PTL DEF Spec, HandlerFollowsLink, H!LinkSpec

=============================================================================
