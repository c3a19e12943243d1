-------------------------- MODULE Transceiver_proofs -------------------------
(***************************************************************************)
(* Proofs about Transceiver, for every value of the constants.             *)
(***************************************************************************)
EXTENDS Transceiver, SequenceTheorems, TLAPS

\* What is outstanding on a channel.
Elements(p) == {p[i] : i \in DOMAIN p}
Ops(r)      == Elements(r.pending)

\* The requests of the shutdown, and the states that issue them.
Home == [cancel |-> "eShutdown",
         openUnbind |-> "eUnbindQueue", unbindQueue |-> "eUnbindQueue",
         openRemove |-> "eRemoveQueue", removeQueue |-> "eRemoveQueue",
         close |-> "eCloseChannel"]
Last == DOMAIN Home

OneLast(p) == \A i, j \in DOMAIN p : p[i] \in Last /\ p[j] \in Last => i = j

\* A request of the shutdown is the only one, on the current channel, and in
\* the state that issued it.
LastInv ==
  \A c \in Channels :
    /\ OneLast(chan[c].pending)
    /\ \A op \in Ops(chan[c]) \cap Last : c = m_channel /\ m_state = Home[op]

\* The closures of onError(): those of the shutdown go with its requests; that
\* of a sender in eReady stays on the channel until it is closed or reports.
ClosureInv ==
  \A c \in Channels :
    /\ chan[c].onError = "unbind" =>
         c = m_channel /\ m_state = "eUnbindQueue" /\ "unbindQueue" \notin Ops(chan[c])
    /\ chan[c].onError = "remove" =>
         c = m_channel /\ m_state = "eRemoveQueue" /\ "removeQueue" \notin Ops(chan[c])
    /\ chan[c].onError = "ready" =>
         /\ ~m_listener
         /\ \/ c = m_channel /\ m_state \in {"eReady", "eCloseChannel"}
            \/ chan[c].broken /\ m_state = "eEnd"

\* A sender has no queue and no consumer.
ReceiverState == {"eCheckQueue", "eRecreateChannel", "eCreateQueue", "eBindQueue",
                  "eCreateConsumer", "eShutdown", "eUnbindQueue", "eRemoveQueue"}
RoleInv ==
  /\ m_state \in ReceiverState => m_listener
  /\ \A c \in Channels : chan[c].consumer \/ "consume" \in Ops(chan[c]) => m_listener

ChannelInv == TypeOK /\ NothingNull /\ LastInv /\ ClosureInv /\ RoleInv

-----------------------------------------------------------------------------
(* Sequences of requests.                                                  *)

LEMMA Names ==
  /\ Last = {"cancel", "openUnbind", "unbindQueue", "openRemove", "removeQueue", "close"}
  /\ Unguarded \subseteq Last
  /\ Last \subseteq Request
  /\ "discard" \in Request /\ "discard" \notin Last
  /\ \A op \in Last : Home[op] \in Stopping
  /\ Home["cancel"] = "eShutdown"
  /\ Home["openUnbind"] = "eUnbindQueue" /\ Home["unbindQueue"] = "eUnbindQueue"
  /\ Home["openRemove"] = "eRemoveQueue" /\ Home["removeQueue"] = "eRemoveQueue"
  /\ Home["close"] = "eCloseChannel"
BY DEF Last, Home, Unguarded, Guarded, Openings, Request, Stopping

LEMMA Appended ==
  ASSUME NEW p \in Seq(Request), NEW op \in Request
  PROVE  /\ Append(p, op) \in Seq(Request)
         /\ Elements(Append(p, op)) = Elements(p) \cup {op}
         /\ OneLast(p) /\ (op \in Last => Elements(p) \cap Last = {}) => OneLast(Append(p, op))
<1> DEFINE r == Append(p, op)
<1>1. /\ r \in Seq(Request)
      /\ Len(p) \in Nat
      /\ DOMAIN r = 1 .. Len(p) + 1 /\ DOMAIN p = 1 .. Len(p)
      /\ \A i \in 1 .. Len(p) : r[i] = p[i]
      /\ r[Len(p) + 1] = op
  OBVIOUS
<1> HIDE DEF r
<1>2. Elements(r) = Elements(p) \cup {op}
  BY <1>1 DEF Elements
<1>3. ASSUME OneLast(p), op \in Last => Elements(p) \cap Last = {} PROVE OneLast(r)
  BY <1>1, <1>3 DEF OneLast, Elements
<1> QED
  BY <1>1, <1>2, <1>3 DEF r

LEMMA Prefixed ==
  ASSUME NEW p \in Seq(Request), NEW op \in Request
  PROVE  /\ <<op>> \o p \in Seq(Request)
         /\ <<op>> \o p # <<>> /\ Head(<<op>> \o p) = op /\ Tail(<<op>> \o p) = p
         /\ Elements(<<op>> \o p) = Elements(p) \cup {op}
         /\ OneLast(p) /\ (op \in Last => Elements(p) \cap Last = {}) => OneLast(<<op>> \o p)
<1> DEFINE r == <<op>> \o p
<1>1. /\ r \in Seq(Request) /\ r # <<>> /\ Head(r) = op /\ Tail(r) = p
      /\ Len(p) \in Nat
      /\ DOMAIN r = 1 .. Len(p) + 1 /\ DOMAIN p = 1 .. Len(p)
      /\ \A i \in 1 .. Len(p) + 1 : r[i] = IF i = 1 THEN op ELSE p[i - 1]
  OBVIOUS
<1> HIDE DEF r
<1>2. \A i \in DOMAIN r : i # 1 => i - 1 \in DOMAIN p /\ r[i] = p[i - 1] /\ p[i - 1] \in Elements(p)
  BY <1>1 DEF Elements
<1>3. r[1] = op /\ 1 \in DOMAIN r
  BY <1>1
<1>4. \A i \in DOMAIN p : i + 1 \in DOMAIN r /\ r[i + 1] = p[i]
  BY <1>1
<1>5. Elements(r) = Elements(p) \cup {op}
  <2>1. Elements(r) \subseteq Elements(p) \cup {op}
    BY <1>2, <1>3 DEF Elements
  <2>2. Elements(p) \subseteq Elements(r)
    BY <1>4 DEF Elements
  <2>3. op \in Elements(r)
    BY <1>3 DEF Elements
  <2> QED
    BY <2>1, <2>2, <2>3
<1>6. ASSUME OneLast(p), op \in Last => Elements(p) \cap Last = {},
             NEW i \in DOMAIN r, NEW j \in DOMAIN r, r[i] \in Last, r[j] \in Last
      PROVE  i = j
  <2>1. CASE i # 1 /\ j # 1
    <3>1. i - 1 = j - 1
      BY <1>2, <1>6, <2>1 DEF OneLast
    <3> QED
      BY <1>1, <3>1
  <2>2. CASE i = 1 \/ j = 1
    BY <1>2, <1>3, <1>6, <2>2
  <2> QED
    BY <2>1, <2>2
<1> QED
  BY <1>1, <1>5, <1>6 DEF OneLast, r

LEMMA Taken ==
  ASSUME NEW p \in Seq(Request), p # <<>>
  PROVE  /\ Head(p) \in Request
         /\ Tail(p) \in Seq(Request)
         /\ Elements(p) = Elements(Tail(p)) \cup {Head(p)}
         /\ OneLast(p) => OneLast(Tail(p)) /\ (Head(p) \in Last => Elements(Tail(p)) \cap Last = {})
<1>1. Head(p) \in Request /\ Tail(p) \in Seq(Request)
  OBVIOUS
<1>2. p = <<Head(p)>> \o Tail(p)
  OBVIOUS
<1>3. Elements(p) = Elements(Tail(p)) \cup {Head(p)}
  BY <1>1, <1>2, Prefixed
<1> DEFINE r == Tail(p)
<1>4. /\ DOMAIN r = 1 .. Len(p) - 1 /\ DOMAIN p = 1 .. Len(p) /\ Len(p) \in Nat \ {0}
      /\ \A i \in 1 .. Len(p) - 1 : r[i] = p[i + 1]
      /\ Head(p) = p[1]
  OBVIOUS
<1> HIDE DEF r
<1>5. \A i \in DOMAIN r : i + 1 \in DOMAIN p /\ i + 1 # 1 /\ r[i] = p[i + 1]
  BY <1>4
<1>6. ASSUME OneLast(p), NEW i \in DOMAIN r, NEW j \in DOMAIN r, r[i] \in Last, r[j] \in Last
      PROVE  i = j
  <2>1. i + 1 = j + 1
    BY <1>5, <1>6 DEF OneLast
  <2> QED
    BY <1>4, <2>1
<1>7. ASSUME OneLast(p), Head(p) \in Last, NEW i \in DOMAIN r PROVE r[i] \notin Last
  BY <1>4, <1>5, <1>7 DEF OneLast
<1>8. OneLast(p) => OneLast(r)
  BY <1>6 DEF OneLast
<1>9. OneLast(p) /\ Head(p) \in Last => Elements(r) \cap Last = {}
  BY <1>7 DEF Elements
<1> QED
  BY <1>1, <1>3, <1>8, <1>9 DEF r

-----------------------------------------------------------------------------
(* Channels, and the entry into the states.                                *)

Same(r, q) == q.consumer = r.consumer /\ q.onError = r.onError /\ q.broken = r.broken

LEMMA AskedChannel ==
  ASSUME NEW r \in Channel, NEW op \in Request
  PROVE  /\ Asked(r, op) \in Channel
         /\ Same(r, Asked(r, op))
         /\ Ops(Asked(r, op)) = Ops(r) \cup {op}
         /\ OneLast(r.pending) /\ (op \in Last => Ops(r) \cap Last = {})
              => OneLast(Asked(r, op).pending)
<1> DEFINE p == IF r.broken THEN <<op>> \o r.pending ELSE Append(r.pending, op)
<1>1. r.pending \in Seq(Request)
  BY DEF Channel
<1>2. /\ p \in Seq(Request)
      /\ Elements(p) = Elements(r.pending) \cup {op}
      /\ OneLast(r.pending) /\ (op \in Last => Elements(r.pending) \cap Last = {}) => OneLast(p)
  BY <1>1, Appended, Prefixed
<1>3. Asked(r, op) = [r EXCEPT !.pending = p]
  BY DEF Asked
<1> HIDE DEF p
<1>4. Asked(r, op) \in Channel /\ Asked(r, op).pending = p /\ Same(r, Asked(r, op))
  BY <1>2, <1>3 DEF Channel, Same
<1> QED
  BY <1>2, <1>4 DEF Ops

LEMMA DroppedChannel ==
  ASSUME NEW r \in Channel
  PROVE  /\ Dropped(r) \in Channel
         /\ Same(r, Dropped(r))
         /\ Ops(Dropped(r)) \subseteq Ops(r) \cup {"discard"}
         /\ OneLast(r.pending) => OneLast(Dropped(r).pending)
<1>1. r.pending \in Seq(Request)
  BY DEF Channel
<1> DEFINE p == Append(r.pending, "discard")
<1>2. /\ p \in Seq(Request)
      /\ Elements(p) = Elements(r.pending) \cup {"discard"}
      /\ OneLast(r.pending) => OneLast(p)
  BY <1>1, Appended, Names
<1>3. CASE r.broken
  BY <1>3 DEF Dropped, Same
<1>4. CASE ~r.broken
  <2>1. Dropped(r) = [r EXCEPT !.pending = p]
    BY <1>4 DEF Dropped
  <2> HIDE DEF p
  <2>2. Dropped(r) \in Channel /\ Dropped(r).pending = p /\ Same(r, Dropped(r))
    BY <1>2, <2>1 DEF Channel, Same
  <2> QED
    BY <1>2, <2>2 DEF Ops
<1> QED
  BY <1>3, <1>4

LEMMA NoneLast ==
  ASSUME NEW r, Ops(r) \cap Last = {}
  PROVE  OneLast(r.pending)
BY DEF Ops, Elements, OneLast

\* Channels with nothing of a shutdown outstanding.
Plain(chs) ==
  /\ chs \in [Channels -> Channel]
  /\ \A c \in Channels :
       /\ Ops(chs[c]) \cap Last = {}
       /\ chs[c].onError \notin {"unbind", "remove"}
       /\ chs[c].consumer \/ "consume" \in Ops(chs[c]) => m_listener

\* ... from which the machine can go on: a sender in eReady is on m_channel.
Calm(chs) ==
  /\ Plain(chs)
  /\ \A c \in Channels :
       chs[c].onError = "ready" => ~m_listener /\ c = m_channel /\ m_state = "eReady"

\* What every entry into a state establishes.
Placed ==
  /\ m_state' \in State
  /\ m_channel' \in Channels \cup {NoChannel}
  /\ m_state' = "eEnd" <=> m_channel' = NoChannel
  /\ chan' \in [Channels -> Channel]
  /\ LastInv' /\ ClosureInv' /\ RoleInv'

LEMMA Releasing ==
  ASSUME NEW chs, Plain(chs), m_channel \in Channels \cup {NoChannel}
  PROVE  /\ Plain(Released(chs))
         /\ \A c \in Channels : Same(chs[c], Released(chs)[c])
<1>1. CASE m_channel = NoChannel
  BY <1>1 DEF Released, Same
<1>2. CASE m_channel # NoChannel
  <2> DEFINE r == Dropped(chs[m_channel])
  <2>1. m_channel \in Channels /\ chs \in [Channels -> Channel] /\ chs[m_channel] \in Channel
    BY <1>2 DEF Plain
  <2>2. /\ r \in Channel
        /\ Same(chs[m_channel], r)
        /\ Ops(r) \subseteq Ops(chs[m_channel]) \cup {"discard"}
    BY <2>1, DroppedChannel
  <2>3. Released(chs) = [chs EXCEPT ![m_channel] = r]
    BY <1>2 DEF Released
  <2> HIDE DEF r
  <2>4. Released(chs) \in [Channels -> Channel]
    BY <2>1, <2>2, <2>3
  <2>5. ASSUME NEW c \in Channels PROVE Same(chs[c], Released(chs)[c])
    BY <2>1, <2>2, <2>3 DEF Same
  <2>6. ASSUME NEW c \in Channels
        PROVE  Ops(Released(chs)[c]) \subseteq Ops(chs[c]) \cup {"discard"}
    BY <2>1, <2>2, <2>3
  <2> QED
    BY <2>4, <2>5, <2>6, Names DEF Plain, Same
<1> QED
  BY <1>1, <1>2

LEMMA Requesting ==
  ASSUME NEW chs, Calm(chs), m_channel \in Channels, NoChannel \notin Channels,
         NEW state \in State \ {"eEnd"}, NEW op \in Request,
         op \in Last => Home[op] = state,
         op = "consume" \/ state \in ReceiverState => m_listener,
         m_state = "eReady" => m_listener \/ state \in {"eReady", "eCloseChannel"},
         UNCHANGED m_listener,
         Enter(state, Ask(chs, op))
  PROVE  Placed /\ m_state' # "eEnd"
<1> DEFINE r == Asked(chs[m_channel], op)
<1>1. chs \in [Channels -> Channel] /\ chs[m_channel] \in Channel
  BY DEF Calm, Plain
<1>2. /\ r \in Channel
      /\ Same(chs[m_channel], r)
      /\ Ops(r) = Ops(chs[m_channel]) \cup {op}
      /\ OneLast(r.pending)
  BY <1>1, AskedChannel, NoneLast DEF Calm, Plain
<1>3. chan' = [chs EXCEPT ![m_channel] = r] /\ m_state' = state /\ m_channel' = m_channel
  BY DEF Enter, Ask
<1> HIDE DEF r
<1>4. chan' \in [Channels -> Channel]
  BY <1>1, <1>2, <1>3
<1>5. ASSUME NEW c \in Channels
      PROVE  /\ Same(chs[c], chan'[c])
             /\ Ops(chan'[c]) \subseteq IF c = m_channel THEN Ops(chs[c]) \cup {op} ELSE Ops(chs[c])
             /\ OneLast(chan'[c].pending)
  BY <1>1, <1>2, <1>3, NoneLast DEF Same, Calm, Plain
<1>6. LastInv'
  BY <1>3, <1>5 DEF LastInv, Calm, Plain
<1>7. ClosureInv'
  BY <1>3, <1>5 DEF ClosureInv, Calm, Plain, Same
<1>8. RoleInv'
  BY <1>3, <1>5 DEF RoleInv, Calm, Plain, Same
<1> QED
  BY <1>3, <1>4, <1>6, <1>7, <1>8 DEF Placed

LEMMA Reopening ==
  ASSUME NEW chs, Calm(chs), m_channel \in Channels \cup {NoChannel}, NoChannel \notin Channels,
         NEW state \in State \ {"eEnd"}, NEW op \in Openings, NEW closure \in DOMAIN OpenedIn,
         OpenedIn[closure] = state,
         op \in Last => Home[op] = state,
         state \in ReceiverState => m_listener,
         m_state = "eReady" => m_listener,
         UNCHANGED m_listener,
         Reopen(state, chs, op, closure)
  PROVE  Placed /\ m_state' # "eEnd"
<1>1. PICK c \in Available(chs), failed \in BOOLEAN :
        /\ m_state' = state
        /\ m_channel' = c
        /\ chan' = [Released(chs) EXCEPT ![c] =
                      [pending |-> <<op>>, consumer |-> FALSE,
                       onError |-> closure, broken |-> failed]]
  BY DEF Reopen
<1> DEFINE r == [pending |-> <<op>>, consumer |-> FALSE, onError |-> closure, broken |-> failed]
<1>2. c \in Channels
  BY DEF Available
<1>3. /\ Plain(Released(chs))
      /\ \A d \in Channels : Same(chs[d], Released(chs)[d])
  BY Releasing DEF Calm
<1>4. op \in Request /\ op \notin {"consume", "unbindQueue", "removeQueue"}
  BY DEF Request, Guarded, Openings
<1>5. closure \in OnError \ {"ready"}
  BY DEF OpenedIn, OnError
<1>6. r \in Channel /\ Ops(r) = {op} /\ OneLast(r.pending)
  <2>1. <<op>> \in Seq(Request)
    BY <1>4
  <2>2. r \in Channel
    BY <2>1, <1>5 DEF Channel
  <2>3. r.pending = <<op>>
    OBVIOUS
  <2>4. Elements(<<op>>) = {op} /\ OneLast(<<op>>)
    BY DEF Elements, OneLast
  <2> QED
    BY <2>2, <2>3, <2>4 DEF Ops
<1>7. r.consumer = FALSE /\ r.onError = closure
  OBVIOUS
<1>8. chan' = [Released(chs) EXCEPT ![c] = r]
  BY <1>1
<1> HIDE DEF r
<1>9. chan' \in [Channels -> Channel] /\ chan'[c] = r /\ \A d \in Channels \ {c} : chan'[d] = Released(chs)[d]
  BY <1>2, <1>3, <1>6, <1>8 DEF Plain
<1>10. LastInv'
  BY <1>1, <1>3, <1>6, <1>9, NoneLast DEF LastInv, Plain
<1>11. ClosureInv'
  <2>1. closure = "unbind" => state = "eUnbindQueue"
    BY DEF OpenedIn
  <2>2. closure = "remove" => state = "eRemoveQueue"
    BY DEF OpenedIn
  <2>3. ASSUME NEW d \in Channels, d # c PROVE chan'[d].onError \notin {"unbind", "remove", "ready"}
    BY <1>3, <1>9, <2>3 DEF Plain, Calm, Same
  <2> QED
    BY <1>1, <1>4, <1>5, <1>6, <1>7, <1>9, <2>1, <2>2, <2>3 DEF ClosureInv
<1>12. RoleInv'
  BY <1>1, <1>3, <1>4, <1>6, <1>7, <1>9 DEF RoleInv, Plain
<1> QED
  BY <1>1, <1>2, <1>9, <1>10, <1>11, <1>12 DEF Placed

LEMMA Ending ==
  ASSUME NEW chs, Plain(chs), m_channel \in Channels \cup {NoChannel},
         \A c \in Channels : chs[c].onError = "ready" => ~m_listener /\ chs[c].broken,
         UNCHANGED m_listener,
         EnterEnd(chs)
  PROVE  Placed /\ m_state' = "eEnd" /\ ~m_connection'
<1>1. /\ m_state' = "eEnd" /\ m_channel' = NoChannel /\ ~m_connection'
      /\ chan' = Released(chs)
  BY DEF EnterEnd, End
<1>2. Plain(chan') /\ \A c \in Channels : Same(chs[c], chan'[c])
  BY <1>1, Releasing
<1>3. LastInv' /\ RoleInv'
  BY <1>1, <1>2, NoneLast DEF LastInv, RoleInv, Plain, ReceiverState
<1>4. ClosureInv'
  BY <1>1, <1>2 DEF ClosureInv, Plain, Same
<1> QED
  BY <1>1, <1>2, <1>3, <1>4 DEF Placed, Plain, State

\* Where a machine that goes on may be.
Going   == Placed /\ m_state' \in Starting \cup {"eReady"}
Winding == Placed /\ m_state' \in Stopping

LEMMA Closing ==
  ASSUME NEW chs, Calm(chs), m_channel \in Channels, NoChannel \notin Channels,
         UNCHANGED m_listener, EnterCloseChannel(chs)
  PROVE  Winding
BY Requesting, Names DEF EnterCloseChannel, Enter, Winding, Request, State, Stopping, ReceiverState

LEMMA TidyingUp ==
  ASSUME NEW chs, Calm(chs), m_channel \in Channels, NoChannel \notin Channels,
         UNCHANGED m_listener
  PROVE  /\ m_listener /\ EnterUnbindQueue(chs) => Winding
         /\ m_listener /\ EnterRemoveQueue(chs) => Winding
         /\ EnterShutdown(chs) => Winding
<1>1. ASSUME m_listener, EnterUnbindQueue(chs) PROVE Winding
  <2>1. CASE m_recvQueue
    <3>1. Reopen("eUnbindQueue", chs, "openUnbind", "unbind")
      BY <1>1, <2>1 DEF EnterUnbindQueue
    <3>2. m_state' = "eUnbindQueue"
      BY <3>1 DEF Reopen
    <3>3. Placed
      BY <1>1, <3>1, Reopening, Names DEF State, Stopping, Openings, OpenedIn
    <3> QED
      BY <3>2, <3>3 DEF Winding, Stopping
  <2>2. CASE ~m_recvQueue
    BY <1>1, <2>2, Closing DEF EnterUnbindQueue
  <2> QED
    BY <2>1, <2>2
<1>2. ASSUME m_listener, EnterRemoveQueue(chs) PROVE Winding
  <2>1. CASE ~m_queueExist
    <3>1. Reopen("eRemoveQueue", chs, "openRemove", "remove")
      BY <1>2, <2>1 DEF EnterRemoveQueue
    <3>2. m_state' = "eRemoveQueue"
      BY <3>1 DEF Reopen
    <3>3. Placed
      BY <1>2, <3>1, Reopening, Names DEF State, Stopping, Openings, OpenedIn
    <3> QED
      BY <3>2, <3>3 DEF Winding, Stopping
  <2>2. CASE m_queueExist
    BY <1>2, <2>2, Closing DEF EnterRemoveQueue
  <2> QED
    BY <2>1, <2>2
<1>3. ASSUME EnterShutdown(chs) PROVE Winding
  <2>1. CASE ~m_listener
    BY <1>3, <2>1, Closing DEF EnterShutdown
  <2>2. CASE m_listener /\ m_consumerTag = NoChannel
    BY <1>1, <1>3, <2>2 DEF EnterShutdown
  <2>3. CASE m_listener /\ m_consumerTag # NoChannel
    <3>1. Enter("eShutdown", Ask(chs, "cancel"))
      BY <1>3, <2>3 DEF EnterShutdown
    <3>2. m_state' = "eShutdown"
      BY <3>1 DEF Enter
    <3>3. Placed
      BY <2>3, <3>1, Requesting, Names DEF State, Stopping, Request, Unguarded
    <3> QED
      BY <3>2, <3>3 DEF Winding, Stopping
  <2> QED
    BY <2>1, <2>2, <2>3
<1> QED
  BY <1>1, <1>2, <1>3

LEMMA Readying ==
  ASSUME NEW chs, Calm(chs), m_channel \in Channels, NoChannel \notin Channels,
         m_listener \in BOOLEAN, UNCHANGED m_listener, EnterReady(chs)
  PROVE  Going
<1>1. m_state' = "eReady" /\ m_channel' = m_channel
  BY DEF EnterReady, Enter
<1>2. chs \in [Channels -> Channel] /\ chs[m_channel] \in Channel
  BY DEF Calm, Plain
<1>3. chan' \in [Channels -> Channel]
      /\ \A c \in Channels :
           /\ chan'[c].pending = chs[c].pending /\ chan'[c].consumer = chs[c].consumer
           /\ \/ chan'[c].onError = chs[c].onError
              \/ ~m_listener /\ c = m_channel /\ chan'[c].onError = "ready"
  <2>1. CASE m_listener
    BY <1>2, <2>1 DEF EnterReady, Enter
  <2>2. CASE ~m_listener
    <3> DEFINE r == [chs[m_channel] EXCEPT !.onError = "ready"]
    <3>1. r \in Channel /\ r.pending = chs[m_channel].pending
          /\ r.consumer = chs[m_channel].consumer /\ r.onError = "ready"
      BY <1>2 DEF Channel, OnError
    <3>2. chan' = [chs EXCEPT ![m_channel] = r]
      BY <2>2 DEF EnterReady, Enter, Install
    <3> HIDE DEF r
    <3> QED
      BY <1>2, <2>2, <3>1, <3>2
  <2> QED
    BY <2>1, <2>2
<1>4. \A c \in Channels : Ops(chan'[c]) = Ops(chs[c]) /\ OneLast(chan'[c].pending)
  BY <1>3, NoneLast DEF Ops, Calm, Plain
<1>5. LastInv'
  BY <1>4 DEF LastInv, Calm, Plain
<1>6. ClosureInv'
  BY <1>1, <1>3 DEF ClosureInv, Calm, Plain
<1>7. RoleInv'
  BY <1>1, <1>3, <1>4 DEF RoleInv, ReceiverState, Calm, Plain
<1> QED
  BY <1>1, <1>3, <1>5, <1>6, <1>7 DEF Placed, Going, State

LEMMA GoingOn ==
  ASSUME NEW chs, Calm(chs), m_channel \in Channels, NoChannel \notin Channels,
         m_listener \/ m_state # "eReady", UNCHANGED m_listener
  PROVE  /\ m_listener /\ EnterCreateConsumer(chs) => Going
         /\ m_listener /\ EnterBindQueue(chs) => Going
         /\ m_listener /\ EnterCreateQueue(chs) => Going
         /\ EnterCreateExchange(chs) => Going
         /\ m_listener /\ EnterCheckQueue(chs) => Going
         /\ m_listener /\ EnterRecreateChannel(chs) => Going
         /\ EnterCreateChannel(chs) => Going
<1>1. ASSUME NEW state \in Starting, NEW op \in Guarded \ Openings,
             op = "consume" \/ state \in ReceiverState => m_listener,
             Enter(state, Ask(chs, op))
      PROVE  Going
  <2>1. op \in Request /\ op \notin Last
    BY <1>1, Names DEF Guarded, Openings, Request
  <2>2. state \in State \ {"eEnd"}
    BY <1>1 DEF State, Starting
  <2>3. Placed
    BY <1>1, <2>1, <2>2, Requesting
  <2> QED
    BY <1>1, <2>3 DEF Going, Enter
<1>2. ASSUME NEW state \in Starting, NEW op \in {"openCreate", "openRecreate"},
             NEW closure \in {"create", "recreate"}, OpenedIn[closure] = state,
             state \in ReceiverState => m_listener,
             Reopen(state, chs, op, closure)
      PROVE  Going
  <2>1. op \in Openings /\ op \notin Last /\ closure \in DOMAIN OpenedIn
    BY <1>2, Names DEF Openings, OpenedIn
  <2>2. state \in State \ {"eEnd"}
    BY <1>2 DEF State, Starting
  <2>3. Placed
    BY <1>2, <2>1, <2>2, Reopening
  <2> QED
    BY <1>2, <2>3 DEF Going, Reopen
<1>3. ASSUME EnterCreateExchange(chs) PROVE Going
  BY <1>1, <1>3 DEF EnterCreateExchange, Starting, Guarded, Openings, ReceiverState
<1>4. ASSUME m_listener, EnterBindQueue(chs) PROVE Going
  BY <1>1, <1>4 DEF EnterBindQueue, Starting, Guarded, Openings
<1>5. ASSUME m_listener, EnterCreateConsumer(chs) PROVE Going
  BY <1>1, <1>5 DEF EnterCreateConsumer, Starting, Guarded, Openings
<1>6. ASSUME m_listener, EnterCreateQueue(chs) PROVE Going
  BY <1>1, <1>4, <1>6 DEF EnterCreateQueue, Starting, Guarded, Openings
<1>7. ASSUME m_listener, EnterCheckQueue(chs) PROVE Going
  BY <1>1, <1>3, <1>7 DEF EnterCheckQueue, Starting, Guarded, Openings
<1>8. ASSUME m_listener, EnterRecreateChannel(chs) PROVE Going
  BY <1>2, <1>8 DEF EnterRecreateChannel, Starting, OpenedIn
<1>9. ASSUME EnterCreateChannel(chs) PROVE Going
  BY <1>2, <1>9 DEF EnterCreateChannel, Starting, OpenedIn, ReceiverState
<1> QED
  BY <1>3, <1>4, <1>5, <1>6, <1>7, <1>8, <1>9

-----------------------------------------------------------------------------
(* Channels as the callbacks leave them: with less outstanding than before.*)

Shrunk(chs) ==
  /\ chs \in [Channels -> Channel]
  /\ \A c \in Channels :
       /\ Ops(chs[c]) \subseteq Ops(chan[c])
       /\ OneLast(chs[c].pending)
       /\ chs[c].onError \in {chan[c].onError, "none"}
       /\ chan[c].broken => chs[c].broken
       /\ chs[c].consumer => m_listener

\* Nothing of a shutdown is outstanding.
Free(chs) ==
  \A c \in Channels :
    Ops(chs[c]) \cap Last = {} /\ chs[c].onError \notin {"unbind", "remove"}

LEMMA Unchanged == ASSUME ChannelInv PROVE Shrunk(chan)
BY DEF ChannelInv, TypeOK, LastInv, RoleInv, Shrunk

LEMMA Calming ==
  ASSUME ChannelInv, NEW chs, Shrunk(chs), Free(chs)
  PROVE  /\ Plain(chs)
         /\ m_state \notin {"eCloseChannel", "eEnd"} => Calm(chs)
<1>1. Plain(chs)
  BY DEF ChannelInv, RoleInv, Shrunk, Free, Plain
<1>2. ASSUME m_state \notin {"eCloseChannel", "eEnd"} PROVE Calm(chs)
  BY <1>1, <1>2 DEF ChannelInv, ClosureInv, Shrunk, Calm
<1> QED
  BY <1>1, <1>2

\* Outside the states of the shutdown nothing of it is outstanding.
LEMMA Freeing ==
  ASSUME ChannelInv, NEW chs, Shrunk(chs), m_state \notin Stopping
  PROVE  Free(chs)
<1>1. \A c \in Channels : Ops(chan[c]) \cap Last = {}
  BY Names DEF ChannelInv, LastInv
<1>2. m_state # "eUnbindQueue" /\ m_state # "eRemoveQueue"
  BY DEF Stopping
<1>3. \A c \in Channels : chan[c].onError \notin {"unbind", "remove"}
  BY <1>2 DEF ChannelInv, ClosureInv
<1> QED
  BY <1>1, <1>3 DEF Shrunk, Free

LEMMA Shrinking ==
  ASSUME ChannelInv, Shrunk(chan'), UNCHANGED <<m_listener, m_state, m_channel>>
  PROVE  Placed
<1>1. LastInv'
  BY DEF ChannelInv, LastInv, Shrunk
<1>2. ClosureInv'
  BY DEF ChannelInv, ClosureInv, Shrunk
<1>3. RoleInv'
  BY DEF ChannelInv, RoleInv, Shrunk
<1> QED
  BY <1>1, <1>2, <1>3 DEF Placed, ChannelInv, TypeOK, NothingNull, Shrunk

LEMMA Popping ==
  ASSUME ChannelInv, NEW c \in Channels, chan[c].pending # <<>>
  PROVE  LET op == Head(chan[c].pending) IN
         /\ op \in Ops(chan[c])
         /\ Shrunk(Popped(c))
         /\ \A d \in Channels : Same(chan[d], Popped(c)[d])
         /\ op \in Last => /\ c = m_channel /\ m_state = Home[op]
                           /\ \A d \in Channels : Ops(Popped(c)[d]) \cap Last = {}
<1> DEFINE p  == chan[c].pending
           op == Head(p)
           r  == [chan[c] EXCEPT !.pending = Tail(p)]
<1>1. chan \in [Channels -> Channel] /\ chan[c] \in Channel /\ p \in Seq(Request) /\ p # <<>>
  BY DEF ChannelInv, TypeOK, Channel
<1>2. /\ Tail(p) \in Seq(Request)
      /\ Elements(p) = Elements(Tail(p)) \cup {op}
      /\ OneLast(p) => OneLast(Tail(p)) /\ (op \in Last => Elements(Tail(p)) \cap Last = {})
  BY <1>1, Taken
<1>3. Popped(c) = [chan EXCEPT ![c] = r]
  BY DEF Popped
<1>4. r \in Channel /\ r.pending = Tail(p) /\ Same(chan[c], r)
  BY <1>1, <1>2 DEF Channel, Same
<1> HIDE DEF r
<1>5. Popped(c) \in [Channels -> Channel]
      /\ \A d \in Channels : Popped(c)[d] = IF d = c THEN r ELSE chan[d]
  BY <1>1, <1>3, <1>4
<1>6. op \in Ops(chan[c]) /\ Ops(r) \subseteq Ops(chan[c])
  BY <1>2, <1>4 DEF Ops
<1>7. \A d \in Channels : Same(chan[d], Popped(c)[d])
  BY <1>4, <1>5 DEF Same
<1>8. OneLast(r.pending)
  BY <1>2, <1>4 DEF ChannelInv, LastInv
<1>9. Shrunk(Popped(c))
  BY <1>5, <1>6, <1>7, <1>8 DEF Shrunk, Same, ChannelInv, LastInv, RoleInv
<1>10. ASSUME op \in Last
       PROVE  /\ c = m_channel /\ m_state = Home[op]
              /\ \A d \in Channels : Ops(Popped(c)[d]) \cap Last = {}
  <2>1. c = m_channel /\ m_state = Home[op]
    BY <1>6, <1>10 DEF ChannelInv, LastInv
  <2>2. Ops(r) \cap Last = {}
    BY <1>2, <1>4, <1>10 DEF ChannelInv, LastInv, Ops
  <2>3. \A d \in Channels : d # c => Ops(chan[d]) \cap Last = {}
    BY <2>1 DEF ChannelInv, LastInv
  <2> QED
    BY <1>5, <2>1, <2>2, <2>3
<1> QED
  BY <1>6, <1>7, <1>9, <1>10

LEMMA Installing ==
  ASSUME NEW chs, Shrunk(chs), m_channel \in Channels
  PROVE  LET q == Install(chs, "none") IN
         /\ Shrunk(q)
         /\ q[m_channel].onError = "none"
         /\ \A d \in Channels : /\ Ops(q[d]) = Ops(chs[d])
                                /\ d # m_channel => q[d] = chs[d]
<1> DEFINE r == [chs[m_channel] EXCEPT !.onError = "none"]
<1>1. chs \in [Channels -> Channel] /\ chs[m_channel] \in Channel
  BY DEF Shrunk
<1>2. Install(chs, "none") = [chs EXCEPT ![m_channel] = r]
  BY DEF Install
<1>3. /\ r \in Channel /\ r.onError = "none" /\ r.pending = chs[m_channel].pending
      /\ r.consumer = chs[m_channel].consumer /\ r.broken = chs[m_channel].broken
  BY <1>1 DEF Channel, OnError
<1> HIDE DEF r
<1>4. Ops(r) = Ops(chs[m_channel])
  BY <1>3 DEF Ops
<1> DEFINE q == Install(chs, "none")
<1>5. q \in [Channels -> Channel] /\ \A d \in Channels : q[d] = IF d = m_channel THEN r ELSE chs[d]
  BY <1>1, <1>2, <1>3
<1> HIDE DEF q
<1>6. Shrunk(q)
  BY <1>3, <1>4, <1>5 DEF Shrunk
<1>7. q[m_channel].onError = "none" /\ \A d \in Channels : Ops(q[d]) = Ops(chs[d]) /\ (d # m_channel => q[d] = chs[d])
  BY <1>3, <1>4, <1>5
<1> QED
  BY <1>6, <1>7 DEF q

\* A channel that has nothing more to report, or that was closed.
LEMMA Silencing ==
  ASSUME ChannelInv, NEW c \in Channels, NEW r \in Channel,
         Ops(r) \subseteq Ops(chan[c]), OneLast(r.pending),
         r.onError \in {chan[c].onError, "none"},
         chan[c].broken => r.broken,
         r.consumer => m_listener
  PROVE  Shrunk([chan EXCEPT ![c] = r])
<1>1. chan \in [Channels -> Channel]
  BY DEF ChannelInv, TypeOK
<1> QED
  BY <1>1, Unchanged DEF Shrunk

LEMMA IdleChannel == Idle \in Channel /\ Ops(Idle) = {} /\ OneLast(Idle.pending)
<1>1. <<>> \in Seq(Request)
  OBVIOUS
<1>2. Elements(<<>>) = {} /\ OneLast(<<>>)
  BY DEF Elements, OneLast
<1> QED
  BY <1>1, <1>2 DEF Idle, Channel, OnError, Ops

-----------------------------------------------------------------------------
(* The steps.                                                              *)

\* The life of a receiver, by its states.
Moves ==
  \/ m_state' = m_state /\ exits' = exits
  \/ m_state = "eEnd" /\ m_state' \in Starting /\ exits' = 0
  \/ m_state = "eEnd" /\ m_state' = "eEnd" /\ exits' = 1
  \/ m_state \in Starting /\ m_state' \in State \ {"eEnd"} /\ exits' = exits
  \/ m_state \in Stopping \cup {"eReady"} /\ m_state' \in Stopping /\ exits' = exits
  \/ m_state # "eEnd" /\ m_state' = "eEnd" /\ exits' = exits + 1

Stepped ==
  /\ Placed
  /\ m_state' = "eEnd" <=> ~m_connection'
  /\ m_listener => Moves

LEMMA Current ==
  ASSUME ChannelInv, m_state # "eEnd"
  PROVE  m_channel \in Channels /\ m_connection /\ NoChannel \notin Channels
BY ChannelsAssumption DEF ChannelInv, TypeOK, NothingNull

LEMMA Forward ==
  ASSUME ChannelInv, m_state \in Starting, Going, UNCHANGED <<m_connection, exits>>
  PROVE  Stepped
BY DEF ChannelInv, NothingNull, Starting, State, Going, Moves, Stepped

LEMMA Backward ==
  ASSUME ChannelInv, m_state # "eEnd", Winding, UNCHANGED <<m_connection, exits>>
  PROVE  Stepped
BY DEF ChannelInv, TypeOK, NothingNull, Starting, Stopping, State, Winding, Moves, Stepped

LEMMA Over ==
  ASSUME ChannelInv, NEW chs, Plain(chs), UNCHANGED m_listener,
         \A c \in Channels : chs[c].onError = "ready" => ~m_listener /\ chs[c].broken,
         m_listener => m_state # "eEnd",
         EnterEnd(chs)
  PROVE  Stepped
<1>1. Placed /\ m_state' = "eEnd" /\ ~m_connection'
  BY Ending DEF ChannelInv, TypeOK
<1>2. exits' = exits + 1
  BY DEF EnterEnd, End
<1> QED
  BY <1>1, <1>2 DEF Moves, Stepped

LEMMA Ignoring ==
  ASSUME ChannelInv, NEW chs, Shrunk(chs), Ignored(chs), UNCHANGED m_listener
  PROVE  Stepped
<1>1. Placed
  BY Shrinking DEF Ignored, memory
<1> QED
  BY <1>1 DEF Ignored, memory, Stepped, Moves, ChannelInv, NothingNull

LEMMA Starts ==
  ASSUME ChannelInv, NEW connection \in BOOLEAN, start(connection)
  PROVE  Stepped
<1>1. m_state = "eEnd" /\ UNCHANGED m_listener
  BY DEF start, config
<1>2. ASSUME m_connection', EnterCreateChannel(chan), exits' = 0 PROVE Stepped
  <2>1. Free(chan) /\ Plain(chan)
    BY <1>1, Unchanged, Freeing, Calming DEF Stopping
  <2>2. \A c \in Channels : chan[c].onError # "ready"
    BY <1>1 DEF start, Quiet, Spent, ChannelInv, ClosureInv
  <2>3. Calm(chan)
    BY <2>1, <2>2 DEF Calm
  <2>4. Reopen("eCreateChannel", chan, "openCreate", "create")
    BY <1>2 DEF EnterCreateChannel
  <2>5. Placed
    BY <1>1, <2>3, <2>4, Reopening, Names, ChannelsAssumption
       DEF State, Starting, Openings, OpenedIn, ReceiverState, ChannelInv, TypeOK
  <2>6. m_state' = "eCreateChannel"
    BY <2>4 DEF Reopen
  <2> QED
    BY <1>1, <1>2, <2>5, <2>6 DEF Stepped, Moves, Starting
<1>3. ASSUME UNCHANGED <<m_state, memory, chan>>, exits' = 1 PROVE Stepped
  <2>1. Placed
    BY <1>1, <1>3, Unchanged, Shrinking DEF memory, Shrunk
  <2> QED
    BY <1>1, <1>3, <2>1 DEF Stepped, Moves, memory, ChannelInv, NothingNull
<1> QED
  BY <1>2, <1>3 DEF start

LEMMA Stops ==
  ASSUME ChannelInv, stop
  PROVE  Stepped
<1> DEFINE next == StopTransit[m_state]
<1>1. m_state \in Starting \cup {"eReady"} /\ UNCHANGED m_listener
  BY DEF stop, StopTransit, config
<1>2. m_state \notin Stopping \cup {"eEnd"} /\ m_channel \in Channels /\ NoChannel \notin Channels
  BY <1>1, Current DEF Starting, Stopping
<1>3. Calm(chan)
  BY <1>2, Unchanged, Freeing, Calming DEF Stopping
<1>4. /\ next = "eEnd" => m_state = "eCreateChannel"
      /\ next = "eRemoveQueue" => m_state = "eBindQueue"
      /\ next = "eUnbindQueue" => m_state = "eCreateConsumer"
      /\ next = "eCreateChannel" => m_state = "eRecreateChannel"
  BY <1>1 DEF StopTransit, Starting
<1>5. m_state \in {"eBindQueue", "eCreateConsumer"} => m_listener
  BY DEF ChannelInv, RoleInv, ReceiverState
<1>6. CASE next = "eEnd" /\ EnterEnd(chan)
  BY <1>1, <1>2, <1>3, <1>4, <1>6, Over DEF Calm
<1>7. CASE /\ \/ next = "eCloseChannel" /\ EnterCloseChannel(chan)
              \/ next = "eRemoveQueue" /\ EnterRemoveQueue(chan)
              \/ next = "eUnbindQueue" /\ EnterUnbindQueue(chan)
              \/ next = "eShutdown" /\ EnterShutdown(chan)
           /\ Keep
  <2>1. Winding
    BY <1>1, <1>2, <1>3, <1>4, <1>5, <1>7, Closing, TidyingUp
  <2> QED
    BY <1>2, <1>7, <2>1, Backward DEF Keep
<1>8. CASE next = "eCreateChannel" /\ EnterCreateChannel(chan) /\ Keep
  <2>1. Going
    BY <1>1, <1>2, <1>3, <1>4, <1>8, GoingOn
  <2> QED
    BY <1>4, <1>8, <2>1, Forward DEF Keep, Starting
<1> QED
  BY <1>6, <1>7, <1>8 DEF stop

LEMMA Drops ==
  ASSUME ChannelInv, drop
  PROVE  Stepped
<1>1. chan' = [c \in Channels |-> Idle] /\ UNCHANGED m_listener
  BY DEF drop, config
<1>2. chan' \in [Channels -> Channel]
      /\ \A c \in Channels : /\ Ops(chan'[c]) = {} /\ OneLast(chan'[c].pending)
                             /\ chan'[c].onError = "none" /\ ~chan'[c].consumer
  BY <1>1, IdleChannel DEF Idle
<1>3. LastInv' /\ ClosureInv'
  BY <1>2 DEF LastInv, ClosureInv
<1>4. CASE m_state = "eEnd" /\ UNCHANGED <<m_state, memory, m_ec, exits>>
  <2>1. m_state' = "eEnd" /\ m_channel' = m_channel /\ m_connection' = m_connection /\ exits' = exits
    BY <1>4 DEF memory
  <2>2. RoleInv'
    BY <1>2, <2>1 DEF RoleInv, ReceiverState
  <2> QED
    BY <1>2, <1>3, <1>4, <2>1, <2>2 DEF Placed, Stepped, Moves, State, ChannelInv, NothingNull, TypeOK
<1>5. CASE m_state # "eEnd" /\ End
  <2>1. m_state' = "eEnd" /\ m_channel' = NoChannel /\ ~m_connection' /\ exits' = exits + 1
    BY <1>5 DEF End
  <2>2. RoleInv'
    BY <1>2, <2>1 DEF RoleInv, ReceiverState
  <2> QED
    BY <1>2, <1>3, <1>5, <2>1, <2>2 DEF Placed, Stepped, Moves, State
<1> QED
  BY <1>4, <1>5 DEF drop

\* The callbacks of the start, on the channels without the request.
LEMMA Answering ==
  ASSUME ChannelInv, NEW c \in Channels, chan[c].pending # <<>>,
         m_state \in Starting \cup {"eReady"}
  PROVE  /\ Calm(Popped(c)) /\ Calm(Ready(c))
         /\ m_channel \in Channels /\ NoChannel \notin Channels
<1>1. m_state \notin Stopping \cup {"eEnd"}
  BY DEF Starting, Stopping
<1>2. Shrunk(Popped(c))
  BY Popping
<1>3. m_channel \in Channels /\ NoChannel \notin Channels
  BY <1>1, Current
<1>4. Shrunk(Ready(c))
  BY <1>2, <1>3, Installing DEF Ready
<1>5. Free(Popped(c)) /\ Free(Ready(c))
  BY <1>1, <1>2, <1>4, Freeing
<1>6. Calm(Popped(c)) /\ Calm(Ready(c))
  BY <1>1, <1>2, <1>4, <1>5, Calming DEF Stopping
<1> QED
  BY <1>3, <1>6

\* The callbacks of the shutdown: the one request of it is answered.
LEMMA Finishing ==
  ASSUME ChannelInv, NEW c \in Channels, chan[c].pending # <<>>,
         Head(chan[c].pending) \in Last
  PROVE  /\ c = m_channel /\ NoChannel \notin Channels
         /\ m_state = Home[Head(chan[c].pending)] /\ m_state \in Stopping
         /\ Shrunk(Popped(c))
         /\ \A d \in Channels : Ops(Popped(c)[d]) \cap Last = {}
         /\ Head(chan[c].pending) \in Unguarded => Free(Popped(c)) /\ Plain(Popped(c))
         /\ Head(chan[c].pending) \in Unguarded /\ m_state # "eCloseChannel" => Calm(Popped(c))
         /\ Free(Ready(c)) /\ Plain(Ready(c))
         /\ m_state # "eCloseChannel" => Calm(Ready(c))
<1> DEFINE op == Head(chan[c].pending)
<1>1. /\ op \in Ops(chan[c])
      /\ Shrunk(Popped(c))
      /\ \A d \in Channels : Same(chan[d], Popped(c)[d])
      /\ c = m_channel /\ m_state = Home[op]
      /\ \A d \in Channels : Ops(Popped(c)[d]) \cap Last = {}
  BY Popping
<1>2. m_state \in Stopping /\ m_state # "eEnd"
  BY <1>1, Names DEF Stopping
<1>3. m_channel \in Channels /\ NoChannel \notin Channels
  BY <1>2, Current
<1>4. ASSUME op \in Unguarded PROVE Free(Popped(c))
  <2>1. m_state = "eUnbindQueue" => op = "unbindQueue"
    BY <1>1, <1>4, Names DEF Unguarded
  <2>2. m_state = "eRemoveQueue" => op = "removeQueue"
    BY <1>1, <1>4, Names DEF Unguarded
  <2>3. \A d \in Channels : chan[d].onError \notin {"unbind", "remove"}
    BY <1>1, <2>1, <2>2 DEF ChannelInv, ClosureInv
  <2> QED
    BY <1>1, <2>3 DEF Free, Same
<1>5. /\ Shrunk(Ready(c))
      /\ Ready(c)[m_channel].onError = "none"
      /\ \A d \in Channels : /\ Ops(Ready(c)[d]) = Ops(Popped(c)[d])
                             /\ d # m_channel => Ready(c)[d] = Popped(c)[d]
  BY <1>1, <1>3, Installing DEF Ready
<1>6. Free(Ready(c))
  <2>1. \A d \in Channels : d # m_channel => chan[d].onError \notin {"unbind", "remove"}
    BY DEF ChannelInv, ClosureInv
  <2> QED
    BY <1>1, <1>5, <2>1 DEF Free, Same
<1> QED
  BY <1>1, <1>2, <1>3, <1>4, <1>5, <1>6, Calming

LEMMA ReadyStep ==
  ASSUME ChannelInv, NEW c \in Channels, onReady(c)
  PROVE  Stepped
<1>1. UNCHANGED m_listener /\ chan[c].pending # <<>>
  BY DEF onReady, Answers, config
<1>2. ASSUME Ignored(Popped(c)) PROVE Stepped
  BY <1>1, <1>2, Popping, Ignoring
<1>3. CASE /\ m_state = "eCreateChannel"
           /\ Keep /\ IF m_listener THEN EnterCheckQueue(Ready(c))
                                    ELSE EnterCreateExchange(Ready(c))
  <2>1. Calm(Ready(c)) /\ m_channel \in Channels /\ NoChannel \notin Channels
    BY <1>1, <1>3, Answering DEF Starting
  <2>2. Going
    BY <1>1, <1>3, <2>1, GoingOn
  <2> QED
    BY <1>3, <2>2, Forward DEF Keep, Starting
<1>4. CASE m_state = "eRecreateChannel" /\ Keep /\ EnterCreateExchange(Ready(c))
  <2>1. Calm(Ready(c)) /\ m_channel \in Channels /\ NoChannel \notin Channels
    BY <1>1, <1>4, Answering DEF Starting
  <2>2. Going
    BY <1>1, <1>4, <2>1, GoingOn
  <2> QED
    BY <1>4, <2>2, Forward DEF Keep, Starting
<1>5. CASE /\ Head(chan[c].pending) \in {"openUnbind", "openRemove"}
           /\ Keep
           /\ \/ /\ m_state = "eUnbindQueue"
                 /\ Enter("eUnbindQueue", Ask(Ready(c), "unbindQueue"))
              \/ /\ m_state = "eRemoveQueue"
                 /\ Enter("eRemoveQueue", Ask(Ready(c), "removeQueue"))
  <2>1. Calm(Ready(c)) /\ m_channel \in Channels /\ NoChannel \notin Channels
    BY <1>1, <1>5, Finishing, Names
  <2>2. m_listener
    BY <1>5 DEF ChannelInv, RoleInv, ReceiverState
  <2>3. Placed
    BY <1>1, <1>5, <2>1, <2>2, Requesting, Names DEF State, Stopping, Request, Unguarded
  <2>4. Winding
    BY <1>5, <2>3 DEF Winding, Enter, Stopping
  <2> QED
    BY <1>5, <2>4, Backward DEF Keep
<1> QED
  BY <1>2, <1>3, <1>4, <1>5 DEF onReady, In, Answers

LEMMA DeclarationSteps ==
  ASSUME ChannelInv, NEW c \in Channels,
         \/ onQueueChecked(c) \/ onExchangeDeclared(c) \/ onQueueDeclared(c)
         \/ onQueueBound(c)
  PROVE  Stepped
<1>1. UNCHANGED m_listener /\ chan[c].pending # <<>>
  BY DEF onQueueChecked, onExchangeDeclared, onQueueDeclared, onQueueBound, Answers, config
<1>2. ASSUME Ignored(Popped(c)) PROVE Stepped
  BY <1>1, <1>2, Popping, Ignoring
<1>3. CASE m_state \in Starting
  <2>1. Calm(Popped(c)) /\ m_channel \in Channels /\ NoChannel \notin Channels /\ m_state # "eReady"
    BY <1>1, <1>3, Answering DEF Starting
  <2>2. m_state \in {"eCheckQueue", "eCreateQueue", "eBindQueue"} => m_listener
    BY DEF ChannelInv, RoleInv, ReceiverState
  <2>3. CASE onQueueChecked(c)
    BY <1>1, <1>2, <1>3, <2>1, <2>2, <2>3, GoingOn, Forward DEF onQueueChecked, In
  <2>4. CASE onExchangeDeclared(c)
    <3>1. m_listener \in BOOLEAN
      BY DEF ChannelInv, TypeOK, FlagsOK
    <3> QED
      BY <1>1, <1>2, <1>3, <2>1, <2>2, <2>4, <3>1, GoingOn, Readying, Forward
         DEF onExchangeDeclared, In, Keep
  <2>5. CASE onQueueDeclared(c)
    BY <1>1, <1>2, <1>3, <2>1, <2>2, <2>5, GoingOn, Forward DEF onQueueDeclared, In
  <2>6. CASE onQueueBound(c)
    BY <1>1, <1>2, <1>3, <2>1, <2>2, <2>6, GoingOn, Forward DEF onQueueBound, In, Keep
  <2> QED
    BY <2>3, <2>4, <2>5, <2>6
<1>4. CASE m_state \notin Starting
  BY <1>2, <1>4
     DEF onQueueChecked, onExchangeDeclared, onQueueDeclared, onQueueBound, In, Starting
<1> QED
  BY <1>3, <1>4

LEMMA ConsumingStep ==
  ASSUME ChannelInv, NEW c \in Channels, onConsuming(c)
  PROVE  Stepped
<1> DEFINE r   == [Popped(c)[c] EXCEPT !.consumer = TRUE]
           chs == [Popped(c) EXCEPT ![c].consumer = TRUE]
<1>1. /\ UNCHANGED m_listener /\ chan[c].pending # <<>>
      /\ Head(chan[c].pending) = "consume"
  BY DEF onConsuming, Answers, config
<1>2. Shrunk(Popped(c)) /\ "consume" \in Ops(chan[c])
  BY <1>1, Popping
<1>3. m_listener
  BY <1>2 DEF ChannelInv, RoleInv
<1>4. Popped(c) \in [Channels -> Channel] /\ Popped(c)[c] \in Channel
  BY <1>2 DEF Shrunk
<1>5. /\ r \in Channel
      /\ r.pending = Popped(c)[c].pending /\ r.onError = Popped(c)[c].onError
      /\ r.broken = Popped(c)[c].broken
  BY <1>4 DEF Channel
<1>6. chs = [Popped(c) EXCEPT ![c] = r]
  BY <1>4
<1> HIDE DEF r
<1>7. Ops(r) = Ops(Popped(c)[c])
  BY <1>5 DEF Ops
<1>8. Shrunk(chs)
  BY <1>2, <1>3, <1>4, <1>5, <1>6, <1>7 DEF Shrunk
<1> HIDE DEF chs
<1>9. CASE m_state = "eCreateConsumer"
  <2>1. Calm(chs)
    BY <1>8, <1>9, Freeing, Calming DEF Stopping
  <2>2. m_channel \in Channels /\ NoChannel \notin Channels
    BY <1>9, Current
  <2>3. EnterReady(chs) /\ UNCHANGED <<m_connection, exits>>
    BY <1>9 DEF onConsuming, chs
  <2>4. Going
    BY <1>1, <1>3, <2>1, <2>2, <2>3, Readying
  <2> QED
    BY <1>9, <2>3, <2>4, Forward DEF Starting
<1>10. CASE m_state # "eCreateConsumer"
  <2>1. Ignored(chs)
    BY <1>10 DEF onConsuming, chs
  <2> QED
    BY <1>1, <1>8, <2>1, Ignoring
<1> QED
  BY <1>9, <1>10

LEMMA CancelledStep ==
  ASSUME ChannelInv, NEW c \in Channels, onCancelled(c)
  PROVE  Stepped
<1> DEFINE r   == [Popped(c)[c] EXCEPT !.consumer = FALSE]
           chs == [Popped(c) EXCEPT ![c].consumer = FALSE]
<1>1. /\ UNCHANGED m_listener /\ chan[c].pending # <<>>
      /\ Head(chan[c].pending) = "cancel"
  BY DEF onCancelled, Answers, config
<1>2. /\ Shrunk(Popped(c)) /\ Free(Popped(c))
      /\ m_state = "eShutdown" /\ c = m_channel /\ NoChannel \notin Channels
  BY <1>1, Finishing, Names DEF Unguarded
<1>3. m_listener
  BY <1>2 DEF ChannelInv, RoleInv, ReceiverState
<1>4. Popped(c) \in [Channels -> Channel] /\ Popped(c)[c] \in Channel
  BY <1>2 DEF Shrunk
<1>5. /\ r \in Channel
      /\ r.pending = Popped(c)[c].pending /\ r.onError = Popped(c)[c].onError
      /\ r.broken = Popped(c)[c].broken
  BY <1>4 DEF Channel
<1>6. chs = [Popped(c) EXCEPT ![c] = r]
  BY <1>4
<1> HIDE DEF r
<1>7. Ops(r) = Ops(Popped(c)[c])
  BY <1>5 DEF Ops
<1>8. chs \in [Channels -> Channel] /\ \A d \in Channels : chs[d] = IF d = c THEN r ELSE Popped(c)[d]
  BY <1>4, <1>5, <1>6
<1> HIDE DEF chs
<1>9. Calm(chs)
  <2>1. Shrunk(chs)
    BY <1>2, <1>3, <1>5, <1>7, <1>8 DEF Shrunk
  <2>2. Free(chs)
    BY <1>2, <1>5, <1>7, <1>8 DEF Free
  <2> QED
    BY <1>2, <2>1, <2>2, Calming
<1>10. CASE Keep /\ EnterUnbindQueue(chs)
  <2>1. Winding
    BY <1>1, <1>2, <1>3, <1>9, <1>10, TidyingUp
  <2> QED
    BY <1>2, <1>10, <2>1, Backward DEF Keep
<1>11. CASE Ignored(chs)
  <2>1. Shrunk(chs)
    BY <1>2, <1>3, <1>5, <1>7, <1>8 DEF Shrunk
  <2> QED
    BY <1>1, <1>11, <2>1, Ignoring
<1> QED
  BY <1>10, <1>11 DEF onCancelled, chs

LEMMA UndoneSteps ==
  ASSUME ChannelInv, NEW c \in Channels, onQueueUnbound(c) \/ onQueueRemoved(c)
  PROVE  Stepped
<1>1. /\ UNCHANGED m_listener /\ chan[c].pending # <<>>
      /\ Head(chan[c].pending) \in {"unbindQueue", "removeQueue"}
      /\ EnterCloseChannel(Popped(c)) /\ Keep
  BY DEF onQueueUnbound, onQueueRemoved, Answers, config
<1>2. /\ m_channel \in Channels /\ NoChannel \notin Channels
      /\ m_state \in {"eUnbindQueue", "eRemoveQueue"}
      /\ Calm(Popped(c))
  BY <1>1, Finishing, Names DEF Unguarded
<1>3. Winding
  BY <1>1, <1>2, Closing
<1> QED
  BY <1>1, <1>2, <1>3, Backward DEF Keep

LEMMA ClosedStep ==
  ASSUME ChannelInv, NEW c \in Channels, onChannelClosed(c)
  PROVE  Stepped
<1> DEFINE chs == [chan EXCEPT ![c] = Idle]
<1>1. UNCHANGED m_listener /\ chan[c].pending # <<>>
  BY DEF onChannelClosed, Answers, config
<1>2. chan \in [Channels -> Channel]
  BY DEF ChannelInv, TypeOK
<1>3. Shrunk(chs)
  BY IdleChannel, Silencing DEF Idle
<1>4. chs[c] = Idle /\ \A d \in Channels : d # c => chs[d] = chan[d]
  BY <1>2
<1> HIDE DEF chs
<1>5. CASE Head(chan[c].pending) = "close" /\ EnterEnd(chs)
  <2>1. /\ c = m_channel /\ m_state = "eCloseChannel"
        /\ \A d \in Channels : Ops(Popped(c)[d]) \cap Last = {}
    BY <1>1, <1>5, Finishing, Names
  <2>2. Plain(chs)
    <3>1. \A d \in Channels : d # c => Ops(chan[d]) \cap Last = {}
      BY <2>1 DEF ChannelInv, LastInv
    <3>2. \A d \in Channels : chan[d].onError \notin {"unbind", "remove"}
      BY <2>1 DEF ChannelInv, ClosureInv
    <3>3. Free(chs)
      BY <1>4, <3>1, <3>2, IdleChannel DEF Free, Idle
    <3> QED
      BY <1>3, <3>3, Calming
  <2>3. \A d \in Channels : chs[d].onError # "ready"
    <3>1. chs[c].onError = "none"
      BY <1>4 DEF Idle
    <3>2. \A d \in Channels : d # c => chan[d].onError # "ready"
      BY <2>1 DEF ChannelInv, ClosureInv
    <3> QED
      BY <1>4, <3>1, <3>2
  <2> QED
    BY <1>1, <1>5, <2>1, <2>2, <2>3, Over
<1>6. CASE Ignored(chs)
  BY <1>1, <1>3, <1>6, Ignoring
<1> QED
  BY <1>5, <1>6 DEF onChannelClosed, Answers, chs

LEMMA ConsumerErrorStep ==
  ASSUME ChannelInv, NEW chs, Shrunk(chs), m_listener, UNCHANGED m_listener,
         ConsumerError(chs)
  PROVE  Stepped
<1>1. ASSUME m_state \in {"eCreateConsumer", "eReady"}
      PROVE  Calm(chs) /\ m_channel \in Channels /\ NoChannel \notin Channels
  BY <1>1, Freeing, Calming, Current DEF Stopping
<1>2. CASE /\ m_state = "eCreateConsumer"
           /\ Fault("eCreateConsumerError")
           /\ EnterUnbindQueue(chs)
  <2>1. Winding
    BY <1>1, <1>2, TidyingUp
  <2> QED
    BY <1>2, <2>1, Backward DEF Fault
<1>3. CASE m_state = "eReady" /\ EnterEnd(chs)
  BY <1>1, <1>3, Over DEF Calm
<1>4. CASE Ignored(chs)
  BY <1>4, Ignoring
<1> QED
  BY <1>2, <1>3, <1>4 DEF ConsumerError

LEMMA RequestErrorStep ==
  ASSUME ChannelInv, NEW c \in Channels, onRequestError(c)
  PROVE  Stepped
<1> DEFINE op == Head(chan[c].pending)
<1>1. UNCHANGED m_listener /\ chan[c].broken /\ chan[c].pending # <<>>
  BY DEF onRequestError, Fails, config
<1>2. Shrunk(Popped(c)) /\ op \in Ops(chan[c])
  BY <1>1, Popping
<1>3. CASE Ignored(Popped(c))
  BY <1>1, <1>2, <1>3, Ignoring
<1>4. CASE m_state = "eCheckQueue" /\ Keep /\ EnterRecreateChannel(Popped(c))
  <2>1. Calm(Popped(c)) /\ m_channel \in Channels /\ NoChannel \notin Channels
    BY <1>1, <1>4, Answering DEF Starting
  <2>2. m_listener
    BY <1>4 DEF ChannelInv, RoleInv, ReceiverState
  <2>3. Going
    BY <1>1, <1>4, <2>1, <2>2, GoingOn
  <2> QED
    BY <1>4, <2>3, Forward DEF Keep, Starting
<1>5. CASE /\ m_state \in {"eCreateExchange", "eCreateQueue", "eBindQueue"}
           /\ \/ EnterCloseChannel(Popped(c))
              \/ m_state = "eBindQueue" /\ EnterRemoveQueue(Popped(c))
           /\ UNCHANGED <<m_connection, exits>>
  <2>1. Calm(Popped(c)) /\ m_channel \in Channels /\ NoChannel \notin Channels
    BY <1>1, <1>5, Answering DEF Starting
  <2>2. m_state = "eBindQueue" => m_listener
    BY DEF ChannelInv, RoleInv, ReceiverState
  <2>3. Winding
    BY <1>1, <1>5, <2>1, <2>2, Closing, TidyingUp
  <2> QED
    BY <1>5, <2>3, Backward
<1>6. CASE op = "consume" /\ ConsumerError(Popped(c))
  <2>1. m_listener
    BY <1>2, <1>6 DEF ChannelInv, RoleInv
  <2> QED
    BY <1>1, <1>2, <1>6, <2>1, ConsumerErrorStep
<1>7. CASE op = "cancel" /\ EnterUnbindQueue(Popped(c)) /\ UNCHANGED <<m_connection, exits>>
  <2>1. /\ m_channel \in Channels /\ NoChannel \notin Channels /\ m_state = "eShutdown"
        /\ Calm(Popped(c))
    BY <1>1, <1>7, Finishing, Names DEF Unguarded
  <2>2. m_listener
    BY <2>1 DEF ChannelInv, RoleInv, ReceiverState
  <2>3. Winding
    BY <1>1, <1>7, <2>1, <2>2, TidyingUp
  <2> QED
    BY <1>7, <2>1, <2>3, Backward
<1>8. CASE op \in {"unbindQueue", "removeQueue", "close"} /\ EnterEnd(Popped(c))
  <2>1. /\ c = m_channel /\ m_state \in Stopping /\ Plain(Popped(c))
        /\ \A d \in Channels : Same(chan[d], Popped(c)[d])
    BY <1>1, <1>8, Finishing, Popping, Names DEF Unguarded
  <2>2. m_state # "eEnd"
    BY <2>1 DEF Stopping
  <2>3. \A d \in Channels : Popped(c)[d].onError = "ready" => ~m_listener /\ Popped(c)[d].broken
    BY <1>1, <2>1, <2>2 DEF ChannelInv, ClosureInv, Same
  <2> QED
    BY <1>1, <1>8, <2>1, <2>2, <2>3, Over
<1>9. CASE Fails(c, "checkQueue") /\ In("eCheckQueue", c, Keep /\ EnterRecreateChannel(Popped(c)))
  BY <1>3, <1>4, <1>9 DEF In
<1>10. ASSUME NEW state \in {"eCreateExchange", "eCreateQueue"}, NEW code,
              In(state, c, Fault(code) /\ EnterCloseChannel(Popped(c)))
       PROVE  Stepped
  <2>1. CASE m_state = state /\ Fault(code) /\ EnterCloseChannel(Popped(c))
    <3>1. m_state \in {"eCreateExchange", "eCreateQueue"}
      BY <1>10, <2>1
    <3>2. UNCHANGED <<m_connection, exits>>
      BY <2>1 DEF Fault
    <3> QED
      BY <1>5, <2>1, <3>1, <3>2
  <2>2. CASE Ignored(Popped(c))
    BY <1>3, <2>2
  <2> QED
    BY <1>10, <2>1, <2>2 DEF In
<1>11. ASSUME In("eBindQueue", c, Fault("eBindQueueError") /\ EnterRemoveQueue(Popped(c)))
       PROVE  Stepped
  <2>1. CASE m_state = "eBindQueue" /\ Fault("eBindQueueError") /\ EnterRemoveQueue(Popped(c))
    BY <1>5, <2>1 DEF Fault
  <2>2. CASE Ignored(Popped(c))
    BY <1>3, <2>2
  <2> QED
    BY <1>11, <2>1, <2>2 DEF In
<1>12. CASE Fails(c, "consume") /\ ConsumerError(Popped(c))
  BY <1>6, <1>12 DEF Fails
<1>13. CASE Fails(c, "cancel") /\ Fault("eConsumerCancelError") /\ EnterUnbindQueue(Popped(c))
  BY <1>7, <1>13 DEF Fails, Fault
<1>14. CASE (\E last \in {"unbindQueue", "removeQueue", "close"} : Fails(c, last)) /\ EnterEnd(Popped(c))
  BY <1>8, <1>14 DEF Fails
<1> HIDE DEF op
<1> QED
  BY <1>3, <1>9, <1>10, <1>11, <1>12, <1>13, <1>14 DEF onRequestError

LEMMA ConsumerGoneStep ==
  ASSUME ChannelInv, NEW c \in Channels, onConsumerError(c)
  PROVE  Stepped
<1> DEFINE r == [chan[c] EXCEPT !.consumer = FALSE]
<1>1. UNCHANGED m_listener /\ chan[c].consumer
  BY DEF onConsumerError, config
<1>2. m_listener
  BY <1>1 DEF ChannelInv, RoleInv
<1>3. chan[c] \in Channel
  BY DEF ChannelInv, TypeOK
<1>4. /\ r \in Channel
      /\ r.pending = chan[c].pending /\ r.onError = chan[c].onError
      /\ r.broken = chan[c].broken
  BY <1>3 DEF Channel
<1>5. [chan EXCEPT ![c].consumer = FALSE] = [chan EXCEPT ![c] = r]
  OBVIOUS
<1> HIDE DEF r
<1>6. Ops(r) = Ops(chan[c]) /\ OneLast(r.pending)
  BY <1>4 DEF Ops, ChannelInv, LastInv
<1>7. Shrunk([chan EXCEPT ![c] = r])
  BY <1>2, <1>4, <1>6, Silencing
<1>8. ConsumerError([chan EXCEPT ![c] = r])
  BY <1>5 DEF onConsumerError
<1> QED
  BY <1>1, <1>2, <1>7, <1>8, ConsumerErrorStep

LEMMA ChannelErrorStep ==
  ASSUME ChannelInv, NEW c \in Channels, onChannelError(c)
  PROVE  Stepped
<1> DEFINE r       == [chan[c] EXCEPT !.onError = "none"]
           closure == chan[c].onError
           chs     == [chan EXCEPT ![c] = r]
<1>1. /\ UNCHANGED m_listener /\ chan[c].broken /\ chan[c].pending = <<>>
      /\ ~chan[c].consumer
  BY DEF onChannelError, config
<1>2. chan[c] \in Channel /\ chan \in [Channels -> Channel]
  BY DEF ChannelInv, TypeOK
<1>3. /\ r \in Channel
      /\ r.pending = <<>> /\ r.onError = "none" /\ ~r.consumer
      /\ r.broken = chan[c].broken
  BY <1>1, <1>2 DEF Channel, OnError
<1>4. [chan EXCEPT ![c].onError = "none"] = chs
  OBVIOUS
<1> HIDE DEF r
<1>5. Ops(r) = {} /\ OneLast(r.pending) /\ Ops(chan[c]) = {}
  BY <1>1, <1>3 DEF Ops, OneLast, Elements
<1>6. Shrunk(chs)
  BY <1>3, <1>5, Silencing
<1>7. chs[c] = r /\ \A d \in Channels : d # c => chs[d] = chan[d]
  BY <1>2
<1> HIDE DEF chs
<1>8. CASE closure \in DOMAIN OpenedIn /\ m_state = OpenedIn[closure] /\ EnterEnd(chs)
  <2>1. m_state \in {"eCreateChannel", "eRecreateChannel", "eUnbindQueue", "eRemoveQueue"}
    BY <1>8 DEF OpenedIn
  <2>2. Free(chs)
    <3>1. CASE m_state \in {"eCreateChannel", "eRecreateChannel"}
      BY <1>6, <3>1, Freeing DEF Stopping
    <3>2. CASE m_state \in {"eUnbindQueue", "eRemoveQueue"}
      <4>1. closure \in {"unbind", "remove"}
        BY <1>8, <3>2 DEF OpenedIn
      <4>2. c = m_channel
        BY <4>1 DEF ChannelInv, ClosureInv
      <4>3. \A d \in Channels : d # c =>
              Ops(chan[d]) \cap Last = {} /\ chan[d].onError \notin {"unbind", "remove"}
        BY <4>2 DEF ChannelInv, LastInv, ClosureInv
      <4> QED
        BY <1>3, <1>5, <1>7, <4>3 DEF Free
    <3> QED
      BY <2>1, <3>1, <3>2
  <2>3. Calm(chs)
    BY <1>6, <2>1, <2>2, Calming
  <2>4. \A d \in Channels : chs[d].onError # "ready"
    BY <2>1, <2>3 DEF Calm
  <2> QED
    BY <1>1, <1>8, <2>1, <2>3, <2>4, Over DEF Calm
<1>9. CASE Ignored(chs)
  BY <1>1, <1>6, <1>9, Ignoring
<1>10. CASE closure = "ready" /\ EnterEnd(chs)
  <2>1. /\ ~m_listener
        /\ \/ c = m_channel /\ m_state \in {"eReady", "eCloseChannel"}
           \/ m_state = "eEnd"
    BY <1>10 DEF ChannelInv, ClosureInv
  <2>2. \A d \in Channels : d # c => Ops(chan[d]) \cap Last = {}
    BY <2>1, Names DEF ChannelInv, LastInv, Stopping
  <2>3. \A d \in Channels : chan[d].onError \notin {"unbind", "remove"}
    BY <2>1 DEF ChannelInv, ClosureInv
  <2>4. Free(chs)
    BY <1>3, <1>5, <1>7, <2>2, <2>3 DEF Free
  <2>5. \A d \in Channels : chs[d].onError = "ready" => chs[d].broken
    BY <1>3, <1>7, <2>1 DEF ChannelInv, ClosureInv
  <2> QED
    BY <1>1, <1>6, <1>10, <2>1, <2>4, <2>5, Calming, Over
<1> QED
  BY <1>4, <1>8, <1>9, <1>10 DEF onChannelError

\* The fields that no callback needs to find in a certain state.
ScalarsOK ==
  /\ m_consumerTag \in Channels \cup {NoChannel}
  /\ m_ec \in ExitCode
  /\ queue \in {"absent", "created", "existing"}
  /\ starts \in Nat
  /\ stops \in Nat
  /\ stoppedIn \in State
  /\ exits \in Nat

\* What a state machine does to its memory: nothing, or it forgets it at its end.
LEMMA Memory ==
  ASSUME FlagsOK, ScalarsOK,
         \/ Keep
         \/ \E code \in ExitCode : Fault(code)
         \/ \E chs : Ignored(chs)
         \/ End /\ m_ec' \in ExitCode
  PROVE  /\ m_connection' \in BOOLEAN /\ m_queueExist' \in BOOLEAN /\ m_recvQueue' \in BOOLEAN
         /\ m_consumerTag' \in Channels \cup {NoChannel}
         /\ m_ec' \in ExitCode
         /\ exits' \in Nat
<1>1. CASE Keep
  BY <1>1 DEF Keep, FlagsOK, ScalarsOK
<1>2. ASSUME NEW code \in ExitCode, Fault(code)
      PROVE  /\ m_connection' \in BOOLEAN /\ m_queueExist' \in BOOLEAN /\ m_recvQueue' \in BOOLEAN
             /\ m_consumerTag' \in Channels \cup {NoChannel}
             /\ m_ec' \in ExitCode
             /\ exits' \in Nat
  BY <1>2 DEF Fault, FlagsOK, ScalarsOK
<1>3. ASSUME NEW chs, Ignored(chs)
      PROVE  /\ m_connection' \in BOOLEAN /\ m_queueExist' \in BOOLEAN /\ m_recvQueue' \in BOOLEAN
             /\ m_consumerTag' \in Channels \cup {NoChannel}
             /\ m_ec' \in ExitCode
             /\ exits' \in Nat
  BY <1>3 DEF Ignored, memory, FlagsOK, ScalarsOK
<1>4. CASE End /\ m_ec' \in ExitCode
  <2>1. m_connection' = FALSE /\ m_queueExist' = FALSE /\ m_recvQueue' = FALSE
        /\ m_consumerTag' = NoChannel
    BY <1>4 DEF End
  <2>2. exits' \in Nat
    BY <1>4 DEF End, ScalarsOK
  <2> QED
    BY <1>4, <2>1, <2>2
<1> QED
  BY <1>1, <1>2, <1>3, <1>4

LEMMA Fields ==
  ASSUME FlagsOK, ScalarsOK, [Next]_vars
  PROVE  FlagsOK' /\ ScalarsOK'
<1> USE DEF config, broker
<1>1. ASSUME NEW connection \in BOOLEAN, start(connection) PROVE FlagsOK' /\ ScalarsOK'
  <2>1. /\ starts' \in Nat /\ stops' \in Nat /\ stoppedIn' \in State /\ exits' \in Nat
        /\ m_consumerTag' = m_consumerTag /\ m_ec' \in ExitCode
        /\ queue' \in {"absent", "existing"}
    BY <1>1 DEF start, ScalarsOK, memory, ExitCode, State
  <2>2. /\ UNCHANGED <<m_listener, named, connUp, m_queueExist, m_recvQueue>>
        /\ m_connection' = TRUE \/ m_connection' = m_connection
        /\ bound' = FALSE
    BY <1>1 DEF start, memory
  <2> QED
    BY <2>1, <2>2 DEF FlagsOK, ScalarsOK
<1>2. CASE stop
  <2>1. Keep \/ (End /\ m_ec' \in ExitCode)
    BY <1>2 DEF stop, EnterEnd, ScalarsOK
  <2>2. stoppedIn' \in State
    BY <1>2 DEF stop, StopTransit, State
  <2> QED
    BY <1>2, <2>1, <2>2, Memory DEF stop, FlagsOK, ScalarsOK
<1>3. CASE drop
  <2>1. (\E chs : Ignored(chs)) \/ (End /\ m_ec' \in ExitCode)
    BY <1>3 DEF drop, Ignored, ExitCode
  <2> QED
    BY <1>3, <2>1, Memory DEF drop, FlagsOK, ScalarsOK
<1>4. ASSUME NEW c \in Channels,
             onReady(c) \/ onCancelled(c) \/ onQueueUnbound(c) \/ onQueueRemoved(c)
                        \/ onExchangeDeclared(c) \/ onQueueBound(c)
      PROVE  FlagsOK' /\ ScalarsOK'
  <2>1. Keep \/ \E chs : Ignored(chs)
    BY <1>4 DEF onReady, onCancelled, onQueueUnbound, onQueueRemoved, onExchangeDeclared,
                onQueueBound, In
  <2>2. /\ UNCHANGED <<m_listener, named, connUp, starts, stops, stoppedIn>>
        /\ bound' \in BOOLEAN
        /\ queue' \in {"absent", "created", "existing"}
    BY <1>4 DEF onReady, onCancelled, onQueueUnbound, onQueueRemoved, onExchangeDeclared,
                onQueueBound, FlagsOK, ScalarsOK
  <2> QED
    BY <2>1, <2>2, Memory DEF FlagsOK, ScalarsOK
<1>5. ASSUME NEW c \in Channels, onQueueChecked(c) \/ onQueueDeclared(c) \/ onConsuming(c)
      PROVE  FlagsOK' /\ ScalarsOK'
  BY <1>5 DEF onQueueChecked, onQueueDeclared, onConsuming, In, Ignored, memory,
              FlagsOK, ScalarsOK
<1>6. ASSUME NEW c \in Channels, onChannelClosed(c) PROVE FlagsOK' /\ ScalarsOK'
  <2>1. (\E chs : Ignored(chs)) \/ (End /\ m_ec' \in ExitCode)
    BY <1>6 DEF onChannelClosed, EnterEnd, ScalarsOK
  <2> QED
    BY <1>6, <2>1, Memory DEF onChannelClosed, FlagsOK, ScalarsOK
<1>7. ASSUME NEW chs, ConsumerError(chs)
      PROVE  \/ \E code \in ExitCode : Fault(code)
             \/ \E q : Ignored(q)
             \/ End /\ m_ec' \in ExitCode
  BY <1>7 DEF ConsumerError, EnterEnd, ExitCode
<1>8. ASSUME NEW c \in Channels, onRequestError(c) PROVE FlagsOK' /\ ScalarsOK'
  <2>1. \/ Keep
        \/ \E code \in ExitCode : Fault(code)
        \/ \E chs : Ignored(chs)
        \/ End /\ m_ec' \in ExitCode
    <3>1. FirstFault("eUnbindQueueError") \in ExitCode /\ FirstFault("eRemoveQueueError") \in ExitCode
          /\ FirstFault("eCloseChannelError") \in ExitCode
      BY DEF FirstFault, ScalarsOK, ExitCode
    <3>2. {"eCreateExchangeError", "eCreateQueueError", "eBindQueueError", "eConsumerCancelError"}
             \subseteq ExitCode
      BY DEF ExitCode
    <3> QED
      BY <1>7, <1>8, <3>1, <3>2 DEF onRequestError, In, EnterEnd
  <2> QED
    BY <1>8, <2>1, Memory DEF onRequestError, FlagsOK, ScalarsOK
<1>9. ASSUME NEW c \in Channels, onConsumerError(c) PROVE FlagsOK' /\ ScalarsOK'
  <2>1. ConsumerError([chan EXCEPT ![c].consumer = FALSE])
    BY <1>9 DEF onConsumerError
  <2> QED
    BY <1>7, <1>9, <2>1, Memory DEF onConsumerError, FlagsOK, ScalarsOK
<1>10. ASSUME NEW c \in Channels, onChannelError(c) PROVE FlagsOK' /\ ScalarsOK'
  <2>1. (\E chs : Ignored(chs)) \/ (End /\ m_ec' \in ExitCode)
    BY <1>10 DEF onChannelError, EnterEnd, ExitCode
  <2> QED
    BY <1>10, <2>1, Memory DEF onChannelError, FlagsOK, ScalarsOK
<1>11. ASSUME NEW c \in Channels, BreakChannel(c) PROVE FlagsOK' /\ ScalarsOK'
  BY <1>11 DEF BreakChannel, memory, history, FlagsOK, ScalarsOK
<1>12. CASE BreakConnection \/ OthersDeclare
  BY <1>12 DEF BreakConnection, OthersDeclare, memory, history, FlagsOK, ScalarsOK
<1>13. CASE UNCHANGED vars
  BY <1>13 DEF vars, memory, history, FlagsOK, ScalarsOK
<1> QED
  BY <1>1, <1>2, <1>3, <1>4, <1>5, <1>6, <1>8, <1>9, <1>10, <1>11, <1>12, <1>13
     DEF Next, Success, Report

LEMMA BreakSteps ==
  ASSUME ChannelInv, (\E c \in Channels : BreakChannel(c)) \/ BreakConnection \/ OthersDeclare
  PROVE  Stepped
<1>1. UNCHANGED <<m_listener, m_state, m_channel, m_connection, exits>>
  BY DEF BreakChannel, BreakConnection, OthersDeclare, config, memory, history
<1> DEFINE broke(d) == [chan[d] EXCEPT !.broken = TRUE]
<1>2. ASSUME NEW d \in Channels
      PROVE  /\ chan[d] \in Channel /\ broke(d) \in Channel
             /\ broke(d).pending = chan[d].pending /\ broke(d).onError = chan[d].onError
             /\ broke(d).consumer = chan[d].consumer /\ broke(d).broken
             /\ OneLast(chan[d].pending)
             /\ chan[d].consumer => m_listener
  BY DEF ChannelInv, TypeOK, Channel, LastInv, RoleInv
<1> HIDE DEF broke
<1>3. /\ chan \in [Channels -> Channel] /\ chan' \in [Channels -> Channel]
      /\ \A d \in Channels : chan'[d] \in {chan[d], broke(d)}
  <2>1. ASSUME NEW c \in Channels, BreakChannel(c)
        PROVE  chan' = [chan EXCEPT ![c] = broke(c)]
    BY <2>1 DEF BreakChannel, broke
  <2>2. ASSUME BreakConnection PROVE chan' = [d \in Channels |-> broke(d)]
    BY <2>2 DEF BreakConnection, broke
  <2>3. ASSUME OthersDeclare PROVE chan' = chan
    BY <2>3 DEF OthersDeclare
  <2>4. chan \in [Channels -> Channel]
    BY DEF ChannelInv, TypeOK
  <2> QED
    BY <1>2, <2>1, <2>2, <2>3, <2>4
<1>4. Shrunk(chan')
  <2>1. \A d \in Channels : Ops(chan'[d]) = Ops(chan[d])
    BY <1>2, <1>3 DEF Ops
  <2> QED
    BY <1>2, <1>3, <2>1 DEF Shrunk
<1>5. Placed
  BY <1>1, <1>4, Shrinking
<1> QED
  BY <1>1, <1>5 DEF Stepped, Moves, ChannelInv, NothingNull

LEMMA Step ==
  ASSUME ChannelInv, Next
  PROVE  Stepped
BY Starts, Stops, Drops, ReadyStep, DeclarationSteps, ConsumingStep, CancelledStep, UndoneSteps,
   ClosedStep, RequestErrorStep, ConsumerGoneStep, ChannelErrorStep, BreakSteps
   DEF Next, Success, Report

LEMMA ChannelStep ==
  ASSUME ChannelInv, [Next]_vars
  PROVE  ChannelInv'
<1>1. CASE Next
  <2>1. Stepped
    BY <1>1, Step
  <2>2. FlagsOK' /\ ScalarsOK'
    BY Fields DEF ChannelInv, TypeOK, ScalarsOK
  <2> QED
    BY <2>1, <2>2 DEF Stepped, Placed, ChannelInv, TypeOK, ScalarsOK, NothingNull
<1>2. CASE UNCHANGED vars
  <2>1. ChannelInv' = ChannelInv
    BY <1>2 DEF vars, config, memory, broker, history, ChannelInv, TypeOK, FlagsOK, NothingNull,
                LastInv, ClosureInv, RoleInv
  <2> QED
    BY <2>1
<1> QED
  BY <1>1, <1>2

LEMMA ChannelInit == Init => ChannelInv
<1> SUFFICES ASSUME Init PROVE ChannelInv
  OBVIOUS
<1>1. chan = [c \in Channels |-> Idle]
  BY DEF Init
<1>2. chan \in [Channels -> Channel]
      /\ \A c \in Channels : /\ Ops(chan[c]) = {} /\ OneLast(chan[c].pending)
                             /\ chan[c].onError = "none" /\ ~chan[c].consumer
  BY <1>1, IdleChannel DEF Idle
<1>3. LastInv /\ ClosureInv
  BY <1>2 DEF LastInv, ClosureInv
<1>4. RoleInv
  BY <1>2 DEF RoleInv, ReceiverState, Init, InitialState
<1>5. NothingNull
  BY DEF NothingNull, Init, InitialState
<1>6. FlagsOK
  BY ParametersAssumption DEF FlagsOK, Init
<1>7. TypeOK
  BY <1>2, <1>6 DEF TypeOK, Init, InitialState, State, ExitCode
<1> QED
  BY <1>3, <1>4, <1>5, <1>7 DEF ChannelInv

\* The channels, whatever the broker does and whoever else uses it.
THEOREM Requests == Spec => []ChannelInv
BY ChannelInit, ChannelStep, PTL DEF Spec

\* The types, for every kind of transceiver and every interference.
THEOREM TypeCorrect == Spec => []TypeOK
BY Requests, PTL DEF ChannelInv

\* m_channel and m_connection are set in every state that uses them.
THEOREM NothingNullHolds == Spec => []NothingNull
BY Requests, PTL DEF ChannelInv

\* The callbacks of cancel(), unbindQueue(), removeQueue() and close() need no
\* test of m_state: on whatever channel they come, they come to the state that
\* issued the request.
THEOREM UnguardedAreCurrentHolds == Spec => []UnguardedAreCurrent
<1>1. ChannelInv => UnguardedAreCurrent
  <2> SUFFICES ASSUME ChannelInv, NEW c \in Channels, NEW i \in DOMAIN chan[c].pending,
                      chan[c].pending[i] \in Unguarded
               PROVE  c = m_channel /\ m_state = IssuedIn[chan[c].pending[i]]
    BY DEF UnguardedAreCurrent
  <2> DEFINE op == chan[c].pending[i]
  <2>1. op \in Ops(chan[c]) /\ op \in Last
    BY Names DEF Ops, Elements
  <2>2. c = m_channel /\ m_state = Home[op]
    BY <2>1 DEF ChannelInv, LastInv
  <2>3. Home[op] = IssuedIn[op]
    BY Names DEF IssuedIn, Unguarded
  <2> QED
    BY <2>2, <2>3
<1> QED
  BY <1>1, Requests, PTL

-----------------------------------------------------------------------------
(* The life of a receiver.                                                 *)

LEMMA Phases ==
  /\ m_state = "eEnd" => Phase = "ended"
  /\ m_state \in Starting => Phase = "starting"
  /\ m_state = "eReady" => Phase = "ready"
  /\ m_state \in Stopping => Phase = "stopping"
BY DEF Phase, Starting, Stopping

LEMMA NextPhases ==
  /\ m_state' = "eEnd" => Phase' = "ended"
  /\ m_state' \in Starting => Phase' = "starting"
  /\ m_state' = "eReady" => Phase' = "ready"
  /\ m_state' \in Stopping => Phase' = "stopping"
BY DEF Phase, Starting, Stopping

LEMMA LifeStep ==
  ASSUME ChannelInv, m_listener, [Next]_vars
  PROVE  [Life!LifeNext]_<<Phase, exits>>
<1>1. CASE UNCHANGED vars
  <2>1. Phase' = Phase /\ exits' = exits
    BY <1>1 DEF vars, history, Phase
  <2> QED
    BY <2>1
<1>2. CASE Next
  <2>1. Moves
    BY <1>2, Step DEF Stepped
  <2>2. m_state \in State
    BY DEF ChannelInv, TypeOK
  <2>3. CASE m_state' = m_state /\ exits' = exits
    <3>1. Phase' = Phase
      BY <2>3 DEF Phase
    <3> QED
      BY <2>3, <3>1
  <2>4. CASE m_state = "eEnd" /\ m_state' \in Starting /\ exits' = 0
    BY <2>4, Phases, NextPhases DEF Life!LifeNext, Life!Begin
  <2>5. CASE m_state = "eEnd" /\ m_state' = "eEnd" /\ exits' = 1
    BY <2>5, Phases, NextPhases DEF Life!LifeNext, Life!Refuse
  <2>6. CASE m_state \in Starting /\ m_state' \in State \ {"eEnd"} /\ exits' = exits
    <3>1. Phase = "starting" /\ Phase' \in {"starting", "ready", "stopping"}
      BY <2>6, Phases, NextPhases DEF State
    <3> QED
      BY <2>6, <3>1 DEF Life!LifeNext, Life!BecomeReady, Life!WindDown
  <2>7. CASE m_state \in Stopping \cup {"eReady"} /\ m_state' \in Stopping /\ exits' = exits
    <3>1. Phase \in {"ready", "stopping"} /\ Phase' = "stopping"
      BY <2>7, Phases, NextPhases
    <3> QED
      BY <2>7, <3>1 DEF Life!LifeNext, Life!WindDown
  <2>8. CASE m_state # "eEnd" /\ m_state' = "eEnd" /\ exits' = exits + 1
    <3>1. Phase # "ended" /\ Phase' = "ended"
      BY <2>2, <2>8, Phases, NextPhases DEF State
    <3> QED
      BY <2>8, <3>1 DEF Life!LifeNext, Life!Finish
  <2> QED
    BY <2>1, <2>3, <2>4, <2>5, <2>6, <2>7, <2>8 DEF Moves
<1> QED
  BY <1>1, <1>2

LEMMA ListenerStays ==
  ASSUME Roles \subseteq {TRUE}
  PROVE  Spec => []m_listener
<1>1. Init => m_listener
  BY DEF Init
<1>2. m_listener /\ [Next]_vars => m_listener'
  BY DEF Next, start, stop, drop, Success, Report, onReady, onQueueChecked, onExchangeDeclared,
         onQueueDeclared, onQueueBound, onConsuming, onCancelled, onQueueUnbound, onQueueRemoved,
         onChannelClosed, onRequestError, onConsumerError, onChannelError, BreakChannel,
         BreakConnection, OthersDeclare, vars, config
<1> QED
  BY <1>1, <1>2, PTL DEF Spec

\* A receiver keeps its promise to the Connector: its states form one life that
\* is never re-entered from behind, and every end of it calls m_onExit once.  A
\* sender does not, as its closure of onError() outlives the shutdown.
THEOREM Refinement ==
  ASSUME Roles \subseteq {TRUE}
  PROVE  Spec => ImplementsLifecycle
<1>1. Init => Life!LifeInit
  BY Phases DEF Init, InitialState, Life!LifeInit
<1>2. ChannelInv /\ m_listener /\ [Next]_vars => [Life!LifeNext]_(Life!lifeVars)
  BY LifeStep DEF Life!lifeVars
<1> QED
  BY <1>1, <1>2, ListenerStays, Requests, PTL DEF Spec, ImplementsLifecycle, Life!LifeSpec

\* The end of a receiver is told once for every start().
ExitInv == exits <= 1 /\ (m_state # "eEnd" => exits = 0)

LEMMA ExitStep ==
  ASSUME ChannelInv, m_listener, ExitInv, [Next]_vars
  PROVE  ExitInv'
<1>1. CASE Next
  <2>1. Moves /\ exits \in Nat
    BY <1>1, Step DEF Stepped, ChannelInv, TypeOK
  <2>2. "eEnd" \notin Starting \cup Stopping \cup {"eReady"}
    BY DEF Starting, Stopping
  <2> QED
    BY <2>1, <2>2 DEF Moves, ExitInv
<1>2. CASE UNCHANGED vars
  BY <1>2 DEF vars, history, ExitInv
<1> QED
  BY <1>1, <1>2

\* m_onExit of a receiver runs once for a start(); that of a sender may run
\* again, see the closure of onError() in eReady.
THEOREM ExitOnceForReceivers ==
  ASSUME Roles \subseteq {TRUE}
  PROVE  Spec => []ExitOnce
<1>1. Init => ExitInv
  BY DEF Init, InitialState, ExitInv
<1>2. ExitInv => ExitOnce
  BY DEF ExitInv, ExitOnce
<1>3. ChannelInv /\ m_listener /\ ExitInv /\ [Next]_vars => ExitInv'
  BY ExitStep
<1> QED
  BY <1>1, <1>2, <1>3, ListenerStays, Requests, PTL DEF Spec

=============================================================================
