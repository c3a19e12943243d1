----------------------- MODULE TransceiverBroker_proofs ----------------------
(***************************************************************************)
(* Proofs about Transceiver and the broker, for every value of the         *)
(* constants: what a run leaves in the broker, and what it has there when  *)
(* it calls itself ready.                                                  *)
(***************************************************************************)
EXTENDS Transceiver_proofs

\* The requests that are answered before a start has declared its queue, and
\* the states that issue them.
Issuer == [checkQueue |-> "eCheckQueue", declareExchange |-> "eCreateExchange",
           declareQueue |-> "eCreateQueue"]
Stage  == DOMAIN Issuer

\* What a channel that works has outstanding in these states: the request of
\* the state, behind the opening that an older channel has answered for it.
Own == [eCreateChannel |-> "openCreate", eCheckQueue |-> "checkQueue",
        eRecreateChannel |-> "openRecreate", eCreateExchange |-> "declareExchange",
        eCreateQueue |-> "declareQueue"]

Shape(state, p) ==
  \/ p = <<Own[state]>>
  \/ /\ state \in {"eCheckQueue", "eCreateExchange"}
     /\ p \in {<<"openCreate", Own[state]>>, <<"openRecreate", Own[state]>>}

\* A request of the start that can still succeed is that of this run, which has
\* met no error.
StageInv ==
  \A c \in Channels : \A op \in Ops(chan[c]) \cap Stage :
    /\ ~chan[c].broken =>
         c = m_channel /\ m_state \in {Issuer[op], "eCloseChannel"} /\ m_ec = "eNoError"
    /\ m_state = Issuer[op] => c = m_channel

ShapeInv ==
  m_state \in DOMAIN Own => chan[m_channel].broken \/ Shape(m_state, chan[m_channel].pending)

CodeInv ==
  /\ m_state \in Starting \cup {"eReady"} => m_ec = "eNoError"
  /\ m_ec = "eBindQueueError" => m_state \in {"eRemoveQueue", "eCloseChannel", "eEnd"}

\* What the machine knows of its queue, in the states that rely on it.
QueueInv ==
  /\ m_queueExist => queue = "existing" /\ m_recvQueue /\ m_state # "eEnd"
  /\ m_state \in {"eCreateChannel", "eCheckQueue", "eRecreateChannel", "eCreateExchange"} =>
       queue # "created"
  /\ m_state = "eRemoveQueue" => ~m_queueExist
  /\ m_state \in {"eBindQueue", "eCreateConsumer", "eShutdown"} => m_recvQueue /\ queue # "absent"
  /\ m_state = "eReady" /\ m_listener => m_recvQueue /\ queue # "absent"
  /\ CleanAfterBindError

BrokerInv == StageInv /\ ShapeInv /\ CodeInv /\ QueueInv

-----------------------------------------------------------------------------
(* What the entry into a state does to the channels.                       *)

\* Nothing is outstanding that was not before, but the requests of X on the
\* current channel.
Kept(chs, X) ==
  \A d \in Channels : \A op \in Ops(chan'[d]) \ {"discard"} :
    \/ op \in Ops(chs[d]) /\ (~chan'[d].broken => ~chs[d].broken)
    \/ d = m_channel' /\ op \in X

LEMMA Asking ==
  ASSUME NEW chs \in [Channels -> Channel], m_channel \in Channels,
         NEW op \in Request, NEW state, Enter(state, Ask(chs, op))
  PROVE  /\ m_state' = state /\ m_channel' = m_channel
         /\ Kept(chs, {op})
         /\ \A d \in Channels : Same(chs[d], chan'[d])
         /\ \A d \in Channels \ {m_channel} : chan'[d] = chs[d]
         /\ ~chs[m_channel].broken =>
              chan'[m_channel].pending = Append(chs[m_channel].pending, op)
<1> DEFINE r == Asked(chs[m_channel], op)
<1>1. /\ r \in Channel
      /\ Same(chs[m_channel], r)
      /\ Ops(r) = Ops(chs[m_channel]) \cup {op}
  BY AskedChannel
<1>2. ~chs[m_channel].broken => r.pending = Append(chs[m_channel].pending, op)
  BY DEF Asked, Channel
<1>3. chan' = [chs EXCEPT ![m_channel] = r] /\ m_state' = state /\ m_channel' = m_channel
  BY DEF Enter, Ask
<1> HIDE DEF r
<1>4. \A d \in Channels : Same(chs[d], chan'[d])
  BY <1>1, <1>3 DEF Same
<1>5. Kept(chs, {op})
  BY <1>1, <1>3 DEF Kept, Same
<1> QED
  BY <1>2, <1>3, <1>4, <1>5

LEMMA ReleasedChannels ==
  ASSUME NEW chs \in [Channels -> Channel], m_channel \in Channels \cup {NoChannel}
  PROVE  /\ Released(chs) \in [Channels -> Channel]
         /\ \A d \in Channels : /\ Same(chs[d], Released(chs)[d])
                                /\ Ops(Released(chs)[d]) \subseteq Ops(chs[d]) \cup {"discard"}
<1>1. CASE m_channel = NoChannel
  BY <1>1 DEF Released, Same
<1>2. CASE m_channel # NoChannel
  <2> DEFINE r == Dropped(chs[m_channel])
  <2>1. /\ m_channel \in Channels /\ r \in Channel /\ Same(chs[m_channel], r)
        /\ Ops(r) \subseteq Ops(chs[m_channel]) \cup {"discard"}
    BY <1>2, DroppedChannel
  <2>2. Released(chs) = [chs EXCEPT ![m_channel] = r]
    BY <1>2 DEF Released
  <2> HIDE DEF r
  <2> QED
    BY <2>1, <2>2 DEF Same
<1> QED
  BY <1>1, <1>2

LEMMA Replacing ==
  ASSUME NEW chs \in [Channels -> Channel], m_channel \in Channels \cup {NoChannel},
         NEW op \in Openings, NEW closure, NEW state, Reopen(state, chs, op, closure)
  PROVE  /\ m_state' = state /\ m_channel' \in Channels \ {m_channel}
         /\ Kept(chs, {op})
         /\ chan'[m_channel'].pending = <<op>> /\ Ops(chan'[m_channel']) = {op}
         /\ chan'[m_channel'].onError = closure
         /\ ~chan'[m_channel'].consumer
         /\ \A d \in Channels : d # m_channel' => Same(chs[d], chan'[d])
<1>1. PICK c \in Available(chs), failed \in BOOLEAN :
        /\ m_state' = state
        /\ m_channel' = c
        /\ chan' = [Released(chs) EXCEPT ![c] =
                      [pending |-> <<op>>, consumer |-> FALSE,
                       onError |-> closure, broken |-> failed]]
  BY DEF Reopen
<1> DEFINE r == [pending |-> <<op>>, consumer |-> FALSE, onError |-> closure, broken |-> failed]
<1>2. c \in Channels \ {m_channel}
  BY DEF Available
<1>3. /\ Released(chs) \in [Channels -> Channel]
      /\ \A d \in Channels : /\ Same(chs[d], Released(chs)[d])
                             /\ Ops(Released(chs)[d]) \subseteq Ops(chs[d]) \cup {"discard"}
  BY ReleasedChannels
<1>4. r.pending = <<op>> /\ r.onError = closure /\ r.consumer = FALSE
  OBVIOUS
<1>5. Ops(r) = {op}
  BY <1>4 DEF Ops, Elements
<1>6. chan' = [Released(chs) EXCEPT ![c] = r]
  BY <1>1
<1> HIDE DEF r
<1>7. chan'[c] = r /\ \A d \in Channels \ {c} : chan'[d] = Released(chs)[d]
  BY <1>2, <1>3, <1>6
<1>8. Kept(chs, {op})
  BY <1>1, <1>3, <1>5, <1>7 DEF Kept, Same
<1> QED
  BY <1>1, <1>2, <1>3, <1>4, <1>5, <1>7, <1>8

LEMMA Leaving ==
  ASSUME NEW chs \in [Channels -> Channel], m_channel \in Channels \cup {NoChannel}, EnterEnd(chs)
  PROVE  /\ m_state' = "eEnd" /\ m_channel' = NoChannel /\ ~m_queueExist'
         /\ Kept(chs, {})
         /\ \A d \in Channels : Same(chs[d], chan'[d])
<1>1. chan' = Released(chs) /\ m_state' = "eEnd" /\ m_channel' = NoChannel /\ ~m_queueExist'
  BY DEF EnterEnd, End
<1> QED
  BY <1>1, ReleasedChannels DEF Kept, Same

-----------------------------------------------------------------------------
(* The requests of the start.                                              *)

LEMMA StageNames ==
  /\ Stage = {"checkQueue", "declareExchange", "declareQueue"}
  /\ Issuer["checkQueue"] = "eCheckQueue"
  /\ Issuer["declareExchange"] = "eCreateExchange"
  /\ Issuer["declareQueue"] = "eCreateQueue"
  /\ DOMAIN Own = {"eCreateChannel", "eCheckQueue", "eRecreateChannel", "eCreateExchange",
                   "eCreateQueue"}
  /\ Own["eCreateChannel"] = "openCreate" /\ Own["eCheckQueue"] = "checkQueue"
  /\ Own["eRecreateChannel"] = "openRecreate"
  /\ Own["eCreateExchange"] = "declareExchange" /\ Own["eCreateQueue"] = "declareQueue"
  /\ Stage \cap Openings = {} /\ Stage \subseteq Request /\ "discard" \notin Stage
BY DEF Stage, Issuer, Own, Openings, Request, Guarded

\* None of them is outstanding, or none that can succeed.
NoStage(chs) == \A d \in Channels : Ops(chs[d]) \cap Stage = {}
NoLive(chs)  == \A d \in Channels : Ops(chs[d]) \cap Stage = {} \/ chs[d].broken

LEMMA SpentChannel == ASSUME NEW r, Spent(r) PROVE Ops(r) = {}
BY DEF Spent, Ops, Elements

LEMMA NoStageHere ==
  ASSUME StageInv, Quiet, m_state \notin {"eCheckQueue", "eCreateExchange", "eCreateQueue", "eCloseChannel"}
  PROVE  NoStage(chan)
<1> SUFFICES ASSUME NEW d \in Channels, NEW op \in Ops(chan[d]) \cap Stage PROVE FALSE
  BY DEF NoStage
<1>1. ~chan[d].broken
  BY SpentChannel DEF Quiet
<1> QED
  BY <1>1, StageNames DEF StageInv

LEMMA NoLiveHere ==
  ASSUME StageInv,
         \/ m_state \notin {"eCheckQueue", "eCreateExchange", "eCreateQueue", "eCloseChannel"}
         \/ m_channel \in Channels /\ chan[m_channel].broken
  PROVE  NoLive(chan)
BY StageNames DEF StageInv, NoLive

LEMMA StagePopped ==
  ASSUME ChannelInv, StageInv, ShapeInv, NEW c \in Channels, NEW op \in Stage, Answers(c, op),
         m_state # "eCloseChannel"
  PROVE  /\ m_state = Issuer[op] /\ c = m_channel
         /\ chan[c].pending = <<op>>
         /\ Popped(c)[c].pending = <<>>
         /\ NoStage(Popped(c))
<1>1. ~chan[c].broken /\ chan[c].pending # <<>> /\ Head(chan[c].pending) = op /\ Quiet
  BY DEF Answers
<1>2. op \in Ops(chan[c])
  BY <1>1, Popping
<1>3. m_state = Issuer[op] /\ c = m_channel
  BY <1>1, <1>2 DEF StageInv
<1>4. m_state \in DOMAIN Own /\ Own[m_state] = op
  BY <1>3, StageNames
<1>5. Shape(m_state, chan[c].pending)
  BY <1>1, <1>3, <1>4 DEF ShapeInv
<1>6. chan[c].pending = <<op>>
  <2>1. op \notin {"openCreate", "openRecreate"}
    BY StageNames
  <2> QED
    BY <1>1, <1>4, <1>5, <2>1 DEF Shape
<1>7. Popped(c) \in [Channels -> Channel] /\ Popped(c)[c].pending = <<>>
      /\ \A d \in Channels \ {c} : Popped(c)[d] = chan[d]
  <2>1. chan \in [Channels -> Channel]
    BY DEF ChannelInv, TypeOK
  <2>2. Shrunk(Popped(c))
    BY <1>1, Popping
  <2>3. Popped(c)[c].pending = Tail(chan[c].pending)
    BY <2>1 DEF Popped, Channel
  <2>4. Tail(<<op>>) = <<>>
    OBVIOUS
  <2> QED
    BY <1>6, <2>1, <2>2, <2>3, <2>4 DEF Popped, Shrunk
<1>8. Ops(Popped(c)[c]) = {}
  BY <1>7 DEF Ops, Elements
<1>9. \A d \in Channels \ {c} : Ops(chan[d]) \cap Stage = {}
  <2> SUFFICES ASSUME NEW d \in Channels \ {c}, NEW o \in Ops(chan[d]) \cap Stage PROVE FALSE
    OBVIOUS
  <2>1. ~chan[d].broken
    BY <1>1, SpentChannel DEF Quiet
  <2> QED
    BY <1>3, <2>1 DEF StageInv
<1> QED
  BY <1>3, <1>6, <1>7, <1>8, <1>9 DEF NoStage

\* A request of the start is asked for when there is none.
LEMMA StageAsked ==
  ASSUME NEW chs, NEW X, Kept(chs, X), NoStage(chs), m_channel' \in Channels \cup {NoChannel},
         \A op \in X \cap Stage : m_state' = Issuer[op] /\ m_ec' = "eNoError"
  PROVE  StageInv'
<1>1. ASSUME NEW d \in Channels, NEW op \in Ops(chan'[d]) \cap Stage
      PROVE  d = m_channel' /\ m_state' = Issuer[op] /\ m_ec' = "eNoError"
  BY <1>1, StageNames DEF Kept, NoStage
<1> QED
  BY <1>1 DEF StageInv

\* Otherwise the machine goes where it issues none.
LEMMA StageLeft ==
  ASSUME NEW chs, NEW X, Kept(chs, X), NoLive(chs), X \cap Stage = {},
         m_state' \notin {"eCheckQueue", "eCreateExchange", "eCreateQueue"}
  PROVE  StageInv'
<1>1. ASSUME NEW d \in Channels, NEW op \in Ops(chan'[d]) \cap Stage
      PROVE  chan'[d].broken /\ m_state' # Issuer[op]
  BY <1>1, StageNames DEF Kept, NoLive
<1> QED
  BY <1>1 DEF StageInv

\* ... or stays where it is.
LEMMA StageStays ==
  ASSUME StageInv, NEW chs, NEW X, Kept(chs, X), X \cap Stage = {},
         \A d \in Channels : Ops(chs[d]) \subseteq Ops(chan[d]) /\ (chan[d].broken => chs[d].broken),
         UNCHANGED <<m_channel, m_ec>>, m_state' \in {m_state, "eCloseChannel"}
  PROVE  StageInv'
<1>1. ASSUME NEW d \in Channels, NEW op \in Ops(chan'[d]) \cap Stage
      PROVE  op \in Ops(chan[d]) /\ (~chan'[d].broken => ~chan[d].broken)
  BY <1>1, StageNames DEF Kept
<1>2. \A op \in Stage : Issuer[op] # "eCloseChannel"
  BY StageNames
<1> QED
  BY <1>1, <1>2 DEF StageInv

\* A callback that is ignored takes the opening of an older run away.
LEMMA ShapeIgnored ==
  ASSUME ChannelInv, ShapeInv, NEW c \in Channels, chan[c].pending # <<>>,
         \/ chan[c].broken
         \/ m_state \in DOMAIN Own => Head(chan[c].pending) # Own[m_state],
         UNCHANGED <<m_state, m_channel>>,
         \A d \in Channels : \/ chan'[d].broken
                             \/ /\ chan'[d].pending = Popped(c)[d].pending
                                /\ chan'[d].broken = Popped(c)[d].broken
  PROVE  ShapeInv'
<1> SUFFICES ASSUME m_state \in DOMAIN Own, ~chan'[m_channel].broken
             PROVE  Shape(m_state, chan'[m_channel].pending)
  BY DEF ShapeInv
<1>1. m_channel \in Channels /\ chan \in [Channels -> Channel]
  BY StageNames, Current DEF ChannelInv, TypeOK
<1>2. /\ ~chan[m_channel].broken
      /\ chan'[m_channel].pending =
           IF c = m_channel THEN Tail(chan[c].pending) ELSE chan[m_channel].pending
  BY <1>1 DEF Popped, Channel
<1>3. Shape(m_state, chan[m_channel].pending)
  BY <1>2 DEF ShapeInv
<1>4. CASE c # m_channel
  BY <1>2, <1>3, <1>4
<1>5. CASE c = m_channel
  <2> DEFINE own == Own[m_state]
  <2>1. Head(chan[c].pending) # own
    BY <1>2, <1>5
  <2>2. chan[c].pending \in {<<own>>, <<"openCreate", own>>, <<"openRecreate", own>>}
    BY <1>3, <1>5 DEF Shape
  <2> HIDE DEF own
  <2>3. Head(<<own>>) = own /\ \A first : Tail(<<first, own>>) = <<own>>
    OBVIOUS
  <2>4. Tail(chan[c].pending) = <<own>>
    BY <2>1, <2>2, <2>3
  <2> QED
    BY <1>2, <1>5, <2>4 DEF Shape, own
<1> QED
  BY <1>4, <1>5

LEMMA ShapeKept ==
  ASSUME ChannelInv, ShapeInv, UNCHANGED <<m_state, m_channel>>,
         \A d \in Channels : chan'[d].broken \/ chan'[d] = chan[d]
  PROVE  ShapeInv'
BY StageNames, Current DEF ShapeInv

-----------------------------------------------------------------------------
(* The steps, and what they leave outstanding of the start.                *)

Staged == StageInv' /\ ShapeInv'

Beyond == {"eCheckQueue", "eCreateExchange", "eCreateQueue"}

\* Every entry but those that declare something.
LEMMA EntersBeyond ==
  ASSUME NEW chs \in [Channels -> Channel], m_channel \in Channels, NoLive(chs),
         \/ EnterCreateChannel(chs) \/ EnterRecreateChannel(chs) \/ EnterBindQueue(chs)
         \/ EnterCreateConsumer(chs) \/ EnterReady(chs) \/ EnterShutdown(chs)
         \/ EnterUnbindQueue(chs) \/ EnterRemoveQueue(chs) \/ EnterCloseChannel(chs)
         \/ EnterEnd(chs)
  PROVE  Staged
<1>1. ASSUME NEW op \in Request \ Stage, NEW state, state \notin DOMAIN Own,
             Enter(state, Ask(chs, op))
      PROVE  Staged
  <2>1. Kept(chs, {op}) /\ m_state' = state
    BY <1>1, Asking
  <2>2. StageInv'
    BY <1>1, <2>1, StageLeft, StageNames
  <2> QED
    BY <1>1, <2>1, <2>2 DEF ShapeInv, Staged
<1>2. ASSUME NEW op \in Openings, NEW closure, NEW state, state \notin Beyond,
             state \in DOMAIN Own => Own[state] = op,
             Reopen(state, chs, op, closure)
      PROVE  Staged
  <2>1. /\ Kept(chs, {op}) /\ m_state' = state /\ m_channel' \in Channels
        /\ chan'[m_channel'].pending = <<op>>
    BY <1>2, Replacing
  <2>2. StageInv'
    BY <1>2, <2>1, StageLeft, StageNames DEF Beyond
  <2>3. ShapeInv'
    BY <1>2, <2>1 DEF ShapeInv, Shape
  <2> QED
    BY <2>2, <2>3 DEF Staged
<1>3. ASSUME EnterReady(chs) PROVE Staged
  <2>1. m_state' = "eReady" /\ chan' \in {chs, Install(chs, "ready")} /\ m_channel' = m_channel
    BY <1>3 DEF EnterReady, Enter
  <2> DEFINE r == [chs[m_channel] EXCEPT !.onError = "ready"]
  <2>2. /\ Install(chs, "ready") = [chs EXCEPT ![m_channel] = r]
        /\ r.pending = chs[m_channel].pending /\ r.broken = chs[m_channel].broken
    BY DEF Install, Channel
  <2> HIDE DEF r
  <2>3. Kept(chs, {})
    BY <2>1, <2>2 DEF Kept, Ops
  <2>4. StageInv'
    BY <2>1, <2>3, StageLeft
  <2> QED
    BY <2>1, <2>4, StageNames DEF ShapeInv, Staged
<1>4. ASSUME EnterEnd(chs) PROVE Staged
  <2>1. m_state' = "eEnd" /\ Kept(chs, {})
    BY <1>4, Leaving
  <2>2. StageInv'
    BY <2>1, StageLeft
  <2> QED
    BY <2>1, <2>2, StageNames DEF ShapeInv, Staged
<1>5. ASSUME EnterCloseChannel(chs) PROVE Staged
  BY <1>1, <1>5, StageNames DEF EnterCloseChannel, Request, Unguarded
<1>6. ASSUME EnterUnbindQueue(chs) PROVE Staged
  BY <1>2, <1>5, <1>6, StageNames DEF EnterUnbindQueue, Openings, Beyond
<1>7. ASSUME EnterRemoveQueue(chs) PROVE Staged
  BY <1>2, <1>5, <1>7, StageNames DEF EnterRemoveQueue, Openings, Beyond
<1>8. ASSUME EnterShutdown(chs) PROVE Staged
  BY <1>1, <1>5, <1>6, <1>8, StageNames DEF EnterShutdown, Request, Unguarded
<1>9. ASSUME EnterCreateConsumer(chs) \/ EnterBindQueue(chs) PROVE Staged
  BY <1>1, <1>9, StageNames DEF EnterCreateConsumer, EnterBindQueue, Request, Guarded
<1>10. ASSUME EnterCreateChannel(chs) \/ EnterRecreateChannel(chs) PROVE Staged
  BY <1>2, <1>10, StageNames DEF EnterCreateChannel, EnterRecreateChannel, Openings, Beyond
<1> QED
  BY <1>3, <1>4, <1>5, <1>6, <1>7, <1>8, <1>9, <1>10

\* Nothing but an opening precedes a declaration.
Opened(r) == r.broken \/ r.pending \in {<<>>, <<"openCreate">>, <<"openRecreate">>}

LEMMA EntersStage ==
  ASSUME NEW chs \in [Channels -> Channel], m_channel \in Channels, NoStage(chs),
         m_ec' = "eNoError",
         \/ Opened(chs[m_channel]) /\ (EnterCheckQueue(chs) \/ EnterCreateExchange(chs))
         \/ chs[m_channel].pending = <<>> /\ EnterCreateQueue(chs)
  PROVE  Staged
<1>1. ASSUME NEW op \in Stage, Enter(Issuer[op], Ask(chs, op)),
             \/ chs[m_channel].pending = <<>>
             \/ Opened(chs[m_channel]) /\ Issuer[op] \in {"eCheckQueue", "eCreateExchange"}
      PROVE  Staged
  <2>1. /\ Kept(chs, {op}) /\ m_state' = Issuer[op] /\ m_channel' = m_channel
        /\ Same(chs[m_channel], chan'[m_channel])
        /\ ~chs[m_channel].broken =>
             chan'[m_channel].pending = Append(chs[m_channel].pending, op)
    <3>1. op \in Request
      BY StageNames
    <3> QED
      BY <1>1, <3>1, Asking
  <2>2. StageInv'
    BY <1>1, <2>1, StageAsked
  <2>3. Issuer[op] \in DOMAIN Own /\ Own[Issuer[op]] = op
    BY StageNames
  <2>4. Append(<<>>, op) = <<op>> /\ \A first \in Request : Append(<<first>>, op) = <<first, op>>
    <3>1. op \in Request
      BY StageNames
    <3>2. ASSUME NEW first \in Request PROVE Append(<<first>>, op) = <<first, op>>
      <4> DEFINE q == Append(<<first>>, op)
                 r == <<first, op>>
      <4>1. <<first>> \in Seq(Request) /\ r \in Seq(Request)
        BY <3>1
      <4>2. q \in Seq(Request) /\ Len(q) = 2 /\ q[1] = first /\ q[2] = op
        BY <3>1, <4>1
      <4>3. Len(r) = 2 /\ r[1] = first /\ r[2] = op
        OBVIOUS
      <4> HIDE DEF q, r
      <4>4. DOMAIN q = 1 .. 2 /\ DOMAIN r = 1 .. 2 /\ \A i \in 1 .. 2 : q[i] = r[i]
        BY <4>1, <4>2, <4>3
      <4>5. q = r
        BY <4>1, <4>2, <4>3, <4>4, SeqEqual
      <4> QED
        BY <4>5 DEF q, r
    <3> QED
      BY <3>1, <3>2
  <2>5. ASSUME ~chan'[m_channel].broken PROVE Shape(Issuer[op], chan'[m_channel].pending)
    <3>1. /\ ~chs[m_channel].broken
          /\ chan'[m_channel].pending = Append(chs[m_channel].pending, op)
      BY <2>1, <2>5 DEF Same
    <3> QED
      BY <1>1, <2>3, <2>4, <3>1 DEF Shape, Opened, Request, Guarded, Openings
  <2> QED
    BY <2>1, <2>2, <2>5 DEF ShapeInv, Staged
<1>2. ASSUME EnterCreateExchange(chs), Opened(chs[m_channel]) PROVE Staged
  BY <1>1, <1>2, StageNames DEF EnterCreateExchange
<1>3. ASSUME EnterCheckQueue(chs), Opened(chs[m_channel]) PROVE Staged
  BY <1>1, <1>2, <1>3, StageNames DEF EnterCheckQueue
<1>4. ASSUME EnterCreateQueue(chs), chs[m_channel].pending = <<>> PROVE Staged
  <2>1. CASE m_queueExist
    <3>1. NoLive(chs)
      BY DEF NoStage, NoLive
    <3> QED
      BY <1>4, <2>1, <3>1, EntersBeyond DEF EnterCreateQueue
  <2>2. CASE ~m_queueExist
    BY <1>1, <1>4, <2>2, StageNames DEF EnterCreateQueue
  <2> QED
    BY <2>1, <2>2
<1> QED
  BY <1>2, <1>3, <1>4

LEMMA StageShrunk ==
  ASSUME StageInv, NEW chs, Shrunk(chs), Ignored(chs)
  PROVE  StageInv'
<1>1. Kept(chs, {})
  BY DEF Ignored, Kept
<1> QED
  BY <1>1, StageStays DEF Shrunk, Ignored, memory

-----------------------------------------------------------------------------
(* The steps, and what the machine knows of its queue.                     *)

Known == CodeInv' /\ QueueInv'

LEMMA Reached ==
  ASSUME NEW chs
  PROVE  /\ EnterCreateChannel(chs) => m_state' = "eCreateChannel"
         /\ EnterRecreateChannel(chs) => m_state' = "eRecreateChannel"
         /\ EnterCheckQueue(chs) => m_state' \in {"eCheckQueue", "eCreateExchange"}
         /\ EnterCreateExchange(chs) => m_state' = "eCreateExchange"
         /\ EnterCreateQueue(chs) => \/ m_queueExist /\ m_state' = "eBindQueue"
                                     \/ m_state' = "eCreateQueue"
         /\ EnterBindQueue(chs) => m_state' = "eBindQueue"
         /\ EnterCreateConsumer(chs) => m_state' = "eCreateConsumer"
         /\ EnterReady(chs) => m_state' = "eReady"
         /\ EnterShutdown(chs) => \/ m_listener /\ m_state' = "eShutdown"
                                  \/ m_state' \in {"eUnbindQueue", "eCloseChannel"}
         /\ EnterUnbindQueue(chs) => m_state' \in {"eUnbindQueue", "eCloseChannel"}
         /\ EnterRemoveQueue(chs) => \/ m_queueExist /\ m_state' = "eCloseChannel"
                                     \/ ~m_queueExist /\ m_state' = "eRemoveQueue"
         /\ EnterCloseChannel(chs) => m_state' = "eCloseChannel"
         /\ EnterEnd(chs) => m_state' = "eEnd" /\ ~m_queueExist'
BY DEF EnterCreateChannel, EnterRecreateChannel, EnterCheckQueue, EnterCreateExchange,
       EnterCreateQueue, EnterBindQueue, EnterCreateConsumer, EnterReady, EnterShutdown,
       EnterUnbindQueue, EnterRemoveQueue, EnterCloseChannel, EnterEnd, End, Enter, Reopen

\* The machine stays, or ends, and so does the broker.
LEMMA KnownStays ==
  ASSUME BrokerInv, UNCHANGED <<m_listener, m_state, m_ec, m_queueExist, m_recvQueue, queue>>
  PROVE  Known
BY DEF BrokerInv, CodeInv, QueueInv, CleanAfterBindError, RemovedAfter, Known

LEMMA KnownEnd ==
  ASSUME m_state' = "eEnd", ~m_queueExist'
  PROVE  Known
BY DEF CodeInv, QueueInv, CleanAfterBindError, RemovedAfter, Known, Starting

LEMMA KnownCalls ==
  ASSUME ChannelInv, BrokerInv, (\E connection \in BOOLEAN : start(connection)) \/ stop \/ drop
  PROVE  Known
<1>1. UNCHANGED m_listener
  BY DEF start, stop, drop, config
<1>2. ASSUME NEW connection \in BOOLEAN, start(connection) PROVE Known
  <2>1. ~m_queueExist /\ ~m_queueExist' /\ queue' # "created"
    BY <1>2 DEF start, BrokerInv, QueueInv, memory
  <2>2. CASE m_state' = "eEnd"
    BY <2>1, <2>2, KnownEnd
  <2>3. CASE m_state' = "eCreateChannel" /\ m_ec' = "eNoError"
    BY <2>1, <2>3 DEF CodeInv, QueueInv, CleanAfterBindError, RemovedAfter, Known
  <2> QED
    BY <1>2, <2>2, <2>3, Reached DEF start
<1>3. CASE stop
  <2>1. m_state \in Starting \cup {"eReady"} /\ m_ec = "eNoError"
    BY <1>3 DEF stop, StopTransit, BrokerInv, CodeInv
  <2>2. CASE m_state' = "eEnd" /\ ~m_queueExist'
    BY <2>2, KnownEnd
  <2>3. CASE Keep /\ \/ m_state' \in {"eCloseChannel", "eUnbindQueue"}
                     \/ ~m_queueExist /\ m_state' = "eRemoveQueue"
                     \/ m_state = "eReady" /\ m_listener /\ m_state' = "eShutdown"
                     \/ m_state = "eRecreateChannel" /\ m_state' = "eCreateChannel"
    <3>1. UNCHANGED <<queue, m_ec, m_queueExist, m_recvQueue>>
      BY <1>3, <2>3 DEF stop, broker, Keep
    <3> QED
      BY <1>1, <2>1, <2>3, <3>1
         DEF BrokerInv, CodeInv, QueueInv, CleanAfterBindError, RemovedAfter, Known, Starting
  <2>4. StopTransit[m_state] = "eCreateChannel" => m_state = "eRecreateChannel"
    BY <2>1 DEF StopTransit, Starting
  <2>5. StopTransit[m_state] = "eShutdown" => m_state = "eReady"
    BY <2>1 DEF StopTransit, Starting
  <2> QED
    BY <1>3, <2>2, <2>3, <2>4, <2>5, Reached DEF stop
<1>4. CASE drop
  <2>1. CASE m_state = "eEnd"
    <3>1. UNCHANGED <<m_state, m_queueExist>>
      BY <1>4, <2>1 DEF drop, memory, End
    <3> QED
      BY <2>1, <3>1, KnownEnd DEF BrokerInv, QueueInv
  <2>2. CASE m_state # "eEnd"
    BY <1>4, <2>2, KnownEnd DEF drop, End
  <2> QED
    BY <2>1, <2>2
<1> QED
  BY <1>2, <1>3, <1>4

LEMMA KnownAnswers ==
  ASSUME ChannelInv, BrokerInv, NEW c \in Channels,
         onReady(c) \/ onQueueChecked(c) \/ onExchangeDeclared(c) \/ onQueueBound(c) \/ onConsuming(c)
  PROVE  Known
<1>1. UNCHANGED <<m_listener, queue>> /\ m_listener \in BOOLEAN
  BY DEF onReady, onQueueChecked, onExchangeDeclared, onQueueBound, onConsuming, config, broker,
         ChannelInv, TypeOK, FlagsOK
<1>2. ASSUME NEW chs, Ignored(chs) PROVE Known
  BY <1>1, <1>2, KnownStays DEF Ignored, memory
<1>3. m_state \in ReceiverState => m_listener
  BY DEF ChannelInv, RoleInv
<1>4. CASE onReady(c)
  <2>1. CASE Keep /\ \/ m_state = "eCreateChannel" /\ m_state' \in {"eCheckQueue", "eCreateExchange"}
                     \/ m_state = "eRecreateChannel" /\ m_state' = "eCreateExchange"
                     \/ m_state \in {"eUnbindQueue", "eRemoveQueue"} /\ m_state' = m_state
    BY <1>1, <2>1
       DEF BrokerInv, CodeInv, QueueInv, CleanAfterBindError, RemovedAfter, Known, Starting, Keep
  <2>2. ASSUME NEW chs, NEW state, NEW op, Enter(state, Ask(chs, op)) PROVE m_state' = state
    BY <2>2 DEF Enter
  <2> QED
    BY <1>2, <1>4, <2>1, <2>2, Reached DEF onReady, In
<1>5. CASE onQueueChecked(c)
  <2>1. CASE /\ m_state = "eCheckQueue" /\ m_state' = "eCreateExchange"
             /\ m_queueExist' /\ m_recvQueue' /\ m_ec' = m_ec
    <3>1. queue = "existing"
      BY <1>5, <2>1 DEF onQueueChecked, BrokerInv, QueueInv, ChannelInv, TypeOK
    <3> QED
      BY <1>1, <2>1, <3>1
         DEF BrokerInv, CodeInv, QueueInv, CleanAfterBindError, RemovedAfter, Known, Starting
  <2> QED
    BY <1>2, <1>5, <2>1, Reached DEF onQueueChecked, In
<1>6. CASE onExchangeDeclared(c)
  <2>1. CASE Keep /\ m_state = "eCreateExchange"
             /\ \/ m_queueExist /\ m_state' = "eBindQueue"
                \/ m_state' = "eCreateQueue"
                \/ ~m_listener /\ m_state' = "eReady"
    BY <1>1, <2>1
       DEF BrokerInv, CodeInv, QueueInv, CleanAfterBindError, RemovedAfter, Known, Starting, Keep
  <2> QED
    BY <1>1, <1>2, <1>6, <2>1, Reached DEF onExchangeDeclared, In
<1>7. CASE onQueueBound(c)
  <2>1. CASE Keep /\ m_state = "eBindQueue" /\ m_state' = "eCreateConsumer"
    BY <1>1, <2>1
       DEF BrokerInv, CodeInv, QueueInv, CleanAfterBindError, RemovedAfter, Known, Starting, Keep
  <2> QED
    BY <1>2, <1>7, <2>1, Reached DEF onQueueBound, In
<1>8. CASE onConsuming(c)
  <2>1. CASE /\ m_state = "eCreateConsumer" /\ m_state' = "eReady"
             /\ UNCHANGED <<m_queueExist, m_recvQueue, m_ec>>
    BY <1>1, <2>1
       DEF BrokerInv, CodeInv, QueueInv, CleanAfterBindError, RemovedAfter, Known, Starting
  <2> QED
    BY <1>2, <1>8, <2>1, Reached DEF onConsuming
<1> QED
  BY <1>4, <1>5, <1>6, <1>7, <1>8

\* The only answers that change the queue.
LEMMA KnownDeclared ==
  ASSUME ChannelInv, BrokerInv, NEW c \in Channels, onQueueDeclared(c)
  PROVE  Known
<1>1. /\ Head(chan[c].pending) = "declareQueue" /\ ~chan[c].broken /\ chan[c].pending # <<>>
      /\ queue' = IF queue = "absent" THEN "created" ELSE queue
      /\ UNCHANGED m_listener
  BY DEF onQueueDeclared, Answers, config
<1>2. m_state \in {"eCreateQueue", "eCloseChannel"} /\ m_ec = "eNoError"
  BY <1>1, Popping, StageNames DEF BrokerInv, StageInv
<1>3. CASE m_state = "eCreateQueue"
  <2>1. /\ EnterBindQueue(Popped(c)) /\ m_recvQueue'
        /\ UNCHANGED <<m_queueExist, m_ec>>
    BY <1>3 DEF onQueueDeclared, In
  <2> QED
    BY <1>1, <1>2, <1>3, <2>1, Reached
       DEF BrokerInv, CodeInv, QueueInv, CleanAfterBindError, RemovedAfter, Known, Starting
<1>4. CASE m_state = "eCloseChannel"
  <2>1. UNCHANGED <<m_state, m_queueExist, m_recvQueue, m_ec>>
    BY <1>4 DEF onQueueDeclared, In, Ignored, memory
  <2> QED
    BY <1>1, <1>2, <1>4, <2>1
       DEF BrokerInv, CodeInv, QueueInv, CleanAfterBindError, RemovedAfter, Known, Starting
<1> QED
  BY <1>2, <1>3, <1>4

LEMMA KnownUndone ==
  ASSUME ChannelInv, BrokerInv, NEW c \in Channels,
         onCancelled(c) \/ onQueueUnbound(c) \/ onQueueRemoved(c) \/ onChannelClosed(c)
  PROVE  Known
<1>1. UNCHANGED m_listener
  BY DEF onCancelled, onQueueUnbound, onQueueRemoved, onChannelClosed, config
<1>2. ASSUME NEW op \in Last, Answers(c, op) PROVE m_state = Home[op]
  BY <1>2, Popping DEF Answers
<1>3. CASE onCancelled(c)
  <2>1. m_state = "eShutdown" /\ UNCHANGED queue
    BY <1>2, <1>3, Names DEF onCancelled, broker
  <2>2. CASE Keep /\ m_state' \in {"eUnbindQueue", "eCloseChannel"}
    BY <1>1, <2>1, <2>2
       DEF BrokerInv, CodeInv, QueueInv, CleanAfterBindError, RemovedAfter, Known, Starting, Keep
  <2>3. ASSUME NEW chs, Ignored(chs) PROVE Known
    BY <1>1, <2>1, <2>3, KnownStays DEF Ignored, memory
  <2> QED
    BY <1>3, <2>2, <2>3, Reached DEF onCancelled
<1>4. CASE onQueueUnbound(c)
  <2>1. m_state = "eUnbindQueue" /\ Keep /\ m_state' = "eCloseChannel" /\ UNCHANGED queue
    BY <1>2, <1>4, Names, Reached DEF onQueueUnbound
  <2> QED
    BY <1>1, <2>1
       DEF BrokerInv, CodeInv, QueueInv, CleanAfterBindError, RemovedAfter, Known, Starting, Keep
<1>5. CASE onQueueRemoved(c)
  <2>1. m_state = "eRemoveQueue" /\ Keep /\ m_state' = "eCloseChannel" /\ queue' = "absent"
    BY <1>2, <1>5, Names, Reached DEF onQueueRemoved
  <2> QED
    BY <1>1, <2>1
       DEF BrokerInv, CodeInv, QueueInv, CleanAfterBindError, RemovedAfter, Known, Starting, Keep
<1>6. CASE onChannelClosed(c)
  <2>1. ASSUME NEW chs, Ignored(chs) PROVE Known
    BY <1>1, <1>6, <2>1, KnownStays DEF Ignored, memory, onChannelClosed, broker
  <2> QED
    BY <1>6, <2>1, Reached, KnownEnd DEF onChannelClosed
<1> QED
  BY <1>3, <1>4, <1>5, <1>6

LEMMA KnownErrors ==
  ASSUME ChannelInv, BrokerInv, NEW c \in Channels, Report(c)
  PROVE  Known
<1>1. UNCHANGED <<m_listener, queue>>
  BY DEF Report, onRequestError, onConsumerError, onChannelError, config, broker
<1>2. ASSUME NEW chs, Ignored(chs) PROVE Known
  BY <1>1, <1>2, KnownStays DEF Ignored, memory
<1>3. ASSUME NEW chs, EnterEnd(chs) PROVE Known
  BY <1>3, Reached, KnownEnd
<1>4. ASSUME NEW code, Fault(code), code \notin {"eNoError", "eBindQueueError"},
             m_state \notin {"eRemoveQueue", "eCloseChannel", "eEnd"},
             m_state' \in {"eUnbindQueue", "eCloseChannel"}
      PROVE  Known
  BY <1>1, <1>4
     DEF BrokerInv, CodeInv, QueueInv, CleanAfterBindError, RemovedAfter, Known, Starting, Fault
<1>5. ASSUME NEW chs, ConsumerError(chs) PROVE Known
  BY <1>2, <1>3, <1>4, <1>5, Reached DEF ConsumerError
<1>6. CASE onRequestError(c)
  <2>1. ASSUME m_state = "eCheckQueue", Keep, m_state' = "eRecreateChannel" PROVE Known
    BY <1>1, <2>1
       DEF BrokerInv, CodeInv, QueueInv, CleanAfterBindError, RemovedAfter, Known, Starting, Keep
  <2>2. ASSUME m_state = "eBindQueue", Fault("eBindQueueError"),
               \/ m_queueExist /\ m_state' = "eCloseChannel"
               \/ ~m_queueExist /\ m_state' = "eRemoveQueue"
        PROVE  Known
    BY <1>1, <2>2
       DEF BrokerInv, CodeInv, QueueInv, CleanAfterBindError, RemovedAfter, Known, Starting, Fault
  <2>3. ASSUME Fails(c, "cancel") PROVE m_state = "eShutdown"
    BY <2>3, Popping, Names DEF Fails
  <2>4. ASSUME In("eCheckQueue", c, Keep /\ EnterRecreateChannel(Popped(c))) PROVE Known
    BY <1>2, <2>1, <2>4, Reached DEF In
  <2>5. ASSUME NEW state \in {"eCreateExchange", "eCreateQueue"},
               NEW code, code \notin {"eNoError", "eBindQueueError"},
               In(state, c, Fault(code) /\ EnterCloseChannel(Popped(c)))
        PROVE  Known
    BY <1>2, <1>4, <2>5, Reached DEF In
  <2>6. ASSUME In("eBindQueue", c, Fault("eBindQueueError") /\ EnterRemoveQueue(Popped(c)))
        PROVE  Known
    BY <1>2, <2>2, <2>6, Reached DEF In
  <2>7. ASSUME Fails(c, "cancel"), Fault("eConsumerCancelError"), EnterUnbindQueue(Popped(c))
        PROVE  Known
    BY <1>4, <2>3, <2>7, Reached
  <2> QED
    BY <1>2, <1>3, <1>5, <1>6, <2>4, <2>5, <2>6, <2>7 DEF onRequestError
<1>7. CASE onConsumerError(c)
  BY <1>5, <1>7 DEF onConsumerError
<1>8. CASE onChannelError(c)
  BY <1>2, <1>3, <1>8 DEF onChannelError
<1> QED
  BY <1>6, <1>7, <1>8 DEF Report

LEMMA KnownEnvironment ==
  ASSUME BrokerInv, (\E c \in Channels : BreakChannel(c)) \/ BreakConnection \/ OthersDeclare
  PROVE  Known
<1>1. UNCHANGED <<m_listener, m_state, m_ec, m_queueExist, m_recvQueue>>
  BY DEF BreakChannel, BreakConnection, OthersDeclare, config, memory
<1>2. \/ queue' = queue
      \/ queue = "absent" /\ queue' = "existing"
  BY DEF BreakChannel, BreakConnection, OthersDeclare, broker
<1> QED
  BY <1>1, <1>2 DEF BrokerInv, CodeInv, QueueInv, CleanAfterBindError, RemovedAfter, Known

LEMMA KnownStep == ASSUME ChannelInv, BrokerInv, Next PROVE Known
BY KnownCalls, KnownAnswers, KnownDeclared, KnownUndone, KnownErrors, KnownEnvironment
   DEF Next, Success

-----------------------------------------------------------------------------
(* The steps, and the requests of the start.                               *)

\* What a callback finds when it comes from a channel that works.
LEMMA StageIgnored ==
  ASSUME ChannelInv, BrokerInv, NEW c \in Channels, chan[c].pending # <<>>,
         \/ chan[c].broken
         \/ m_state \in DOMAIN Own => Head(chan[c].pending) # Own[m_state],
         NEW chs, Shrunk(chs), Ignored(chs),
         \A d \in Channels : \/ chs[d].broken
                             \/ /\ chs[d].pending = Popped(c)[d].pending
                                /\ chs[d].broken = Popped(c)[d].broken
  PROVE  Staged
<1>1. chan' = chs /\ UNCHANGED <<m_state, m_channel>>
  BY DEF Ignored, memory
<1>2. StageInv'
  BY StageShrunk DEF BrokerInv
<1>3. ShapeInv'
  BY <1>1, ShapeIgnored DEF BrokerInv
<1> QED
  BY <1>2, <1>3 DEF Staged

\* A test of m_state that fails.
LEMMA NotIn ==
  ASSUME ChannelInv, BrokerInv, NEW c \in Channels, chan[c].pending # <<>>,
         NEW state, m_state # state,
         \/ chan[c].broken
         \/ Head(chan[c].pending) \notin {Own[s] : s \in DOMAIN Own}
         \/ state \in DOMAIN Own /\ Head(chan[c].pending) = Own[state],
         Ignored(Popped(c))
  PROVE  Staged
<1>1. \A s, t \in DOMAIN Own : Own[s] = Own[t] => s = t
  BY StageNames
<1>2. chan[c].broken \/ (m_state \in DOMAIN Own => Head(chan[c].pending) # Own[m_state])
  BY <1>1
<1> QED
  BY <1>2, StageIgnored, Popping

LEMMA StageUntouched ==
  ASSUME NEW chs, Shrunk(chs)
  PROVE  (NoStage(chan) => NoStage(chs)) /\ (NoLive(chan) => NoLive(chs))
BY DEF Shrunk, NoStage, NoLive

LEMMA StagedStart ==
  ASSUME ChannelInv, BrokerInv, NEW connection \in BOOLEAN, start(connection)
  PROVE  Staged
<1>1. Quiet /\ m_state = "eEnd" /\ m_channel = NoChannel /\ NoChannel \notin Channels
  BY ChannelsAssumption DEF start, ChannelInv, NothingNull
<1>2. NoStage(chan)
  BY <1>1, NoStageHere DEF BrokerInv
<1>3. CASE EnterCreateChannel(chan)
  <2>1. /\ Kept(chan, {"openCreate"}) /\ m_state' = "eCreateChannel" /\ m_channel' \in Channels
        /\ chan'[m_channel'].pending = <<"openCreate">>
    BY <1>1, <1>3, Replacing DEF EnterCreateChannel, Openings, ChannelInv, TypeOK
  <2>2. NoLive(chan)
    BY <1>2 DEF NoStage, NoLive
  <2>3. StageInv'
    BY <2>1, <2>2, StageLeft, StageNames DEF Openings
  <2> QED
    BY <2>1, <2>3, StageNames DEF ShapeInv, Shape, Staged
<1>4. CASE m_state' = "eEnd" /\ chan' = chan
  BY <1>2, <1>4, StageNames DEF NoStage, StageInv, ShapeInv, Staged
<1> QED
  BY <1>1, <1>3, <1>4 DEF start

LEMMA StagedStop ==
  ASSUME ChannelInv, BrokerInv, stop
  PROVE  Staged
<1>1. /\ Quiet /\ m_state \in Starting \cup {"eReady"}
      /\ m_channel \in Channels /\ chan \in [Channels -> Channel]
  BY Current DEF stop, StopTransit, Starting, ChannelInv, TypeOK
<1>2. CASE m_state \notin Beyond
  <2>1. NoLive(chan)
    BY <1>1, <1>2, NoLiveHere DEF BrokerInv, Starting, Beyond
  <2> QED
    BY <1>1, <2>1, EntersBeyond DEF stop
<1>3. CASE m_state \in Beyond
  <2>1. StopTransit[m_state] = "eCloseChannel"
    BY <1>1, <1>3 DEF StopTransit, Beyond
  <2>2. EnterCloseChannel(chan) /\ UNCHANGED m_ec
    BY <2>1 DEF stop, Keep
  <2>3. Kept(chan, {"close"}) /\ m_state' = "eCloseChannel" /\ m_channel' = m_channel
    BY <1>1, <2>2, Asking DEF EnterCloseChannel, Request, Unguarded
  <2>4. StageInv'
    BY <2>2, <2>3, StageStays, StageNames DEF BrokerInv
  <2> QED
    BY <2>3, <2>4, StageNames DEF ShapeInv, Staged
<1> QED
  BY <1>2, <1>3

LEMMA StagedDrop ==
  ASSUME ChannelInv, drop
  PROVE  Staged
<1>1. m_state' = "eEnd" /\ chan' = [d \in Channels |-> Idle]
  BY DEF drop, End
<1>2. \A d \in Channels : Ops(chan'[d]) = {}
  BY <1>1, IdleChannel
<1> QED
  BY <1>1, <1>2, StageNames DEF StageInv, ShapeInv, Staged

\* A callback of a channel that works, in a state that declares nothing.
LEMMA StagedOn ==
  ASSUME ChannelInv, BrokerInv, Quiet, m_state \notin Beyond \cup {"eCloseChannel", "eEnd"},
         NEW chs, Shrunk(chs)
  PROVE  NoStage(chs) /\ NoLive(chs) /\ chs \in [Channels -> Channel] /\ m_channel \in Channels
<1>1. NoStage(chan)
  BY NoStageHere DEF BrokerInv, Beyond
<1>2. NoStage(chs)
  BY <1>1, StageUntouched
<1> QED
  BY <1>2, Current DEF NoStage, NoLive, Shrunk

LEMMA StagedReady ==
  ASSUME ChannelInv, BrokerInv, NEW c \in Channels, onReady(c)
  PROVE  Staged
<1>1. Quiet /\ chan[c].pending # <<>> /\ ~chan[c].broken
  BY DEF onReady, Answers
<1>2. Shrunk(Popped(c)) /\ \A d \in Channels : Same(chan[d], Popped(c)[d])
  BY <1>1, Popping
<1>3. ASSUME m_channel \in Channels
      PROVE  /\ Shrunk(Ready(c))
             /\ Ready(c)[m_channel].pending = Popped(c)[m_channel].pending
             /\ Ready(c)[m_channel].broken = chan[m_channel].broken
  <2>1. Shrunk(Ready(c))
    BY <1>2, <1>3, Installing DEF Ready
  <2>2. /\ Popped(c) \in [Channels -> Channel]
        /\ Popped(c)[m_channel].broken = chan[m_channel].broken
    BY <1>2, <1>3 DEF Shrunk, Same
  <2> QED
    BY <1>3, <2>1, <2>2 DEF Ready, Install, Channel
<1>4. ASSUME NEW state \in {"eCreateChannel", "eRecreateChannel"}, m_state = state,
             Head(chan[c].pending) = Own[state], Keep,
             EnterCheckQueue(Ready(c)) \/ EnterCreateExchange(Ready(c))
      PROVE  Staged
  <2>1. m_state \notin Beyond \cup {"eCloseChannel", "eEnd"} /\ m_state \in DOMAIN Own
    BY <1>4, StageNames DEF Beyond
  <2>2. m_channel \in Channels
    BY <2>1, Current
  <2>3. NoStage(Ready(c)) /\ Ready(c) \in [Channels -> Channel]
    BY <1>1, <1>3, <2>1, <2>2, StagedOn
  <2>4. m_ec' = "eNoError"
    BY <1>4 DEF Keep, BrokerInv, CodeInv, Starting
  <2>5. Opened(Ready(c)[m_channel])
    <3>1. chan[m_channel].broken \/ chan[m_channel].pending = <<Own[state]>>
      BY <1>4, <2>1, StageNames DEF BrokerInv, ShapeInv, Shape
    <3>2. chan \in [Channels -> Channel]
      BY DEF ChannelInv, TypeOK
    <3>3. /\ c = m_channel => Popped(c)[m_channel].pending = Tail(chan[m_channel].pending)
          /\ c # m_channel => Popped(c)[m_channel].pending = chan[m_channel].pending
      BY <2>2, <3>2 DEF Popped, Channel
    <3>4. Own[state] \in {"openCreate", "openRecreate"} /\ Tail(<<Own[state]>>) = <<>>
      BY <1>4, StageNames
    <3> QED
      BY <1>3, <2>2, <3>1, <3>3, <3>4 DEF Opened
  <2> QED
    BY <1>4, <2>2, <2>3, <2>4, <2>5, EntersStage
<1>5. ASSUME NEW op \in {"unbindQueue", "removeQueue"}, NEW state \in {"eUnbindQueue", "eRemoveQueue"},
             m_state = state, Enter(state, Ask(Ready(c), op))
      PROVE  Staged
  <2>1. m_state \notin Beyond \cup {"eCloseChannel", "eEnd"}
    BY <1>5 DEF Beyond
  <2>2. m_channel \in Channels
    BY <2>1, Current
  <2>3. NoLive(Ready(c)) /\ Ready(c) \in [Channels -> Channel]
    BY <1>1, <1>3, <2>1, <2>2, StagedOn
  <2>4. Kept(Ready(c), {op}) /\ m_state' = state
    BY <1>5, <2>2, <2>3, Asking DEF Request, Unguarded
  <2>5. StageInv'
    BY <1>5, <2>3, <2>4, StageLeft, StageNames
  <2> QED
    BY <1>5, <2>4, <2>5, StageNames DEF ShapeInv, Staged
<1>6. ASSUME NEW state \in {"eCreateChannel", "eRecreateChannel", "eUnbindQueue", "eRemoveQueue"},
             NEW op, Head(chan[c].pending) = op, m_state # state,
             op = (CASE state = "eCreateChannel" -> "openCreate"
                     [] state = "eRecreateChannel" -> "openRecreate"
                     [] state = "eUnbindQueue" -> "openUnbind"
                     [] state = "eRemoveQueue" -> "openRemove"),
             Ignored(Popped(c))
      PROVE  Staged
  BY <1>1, <1>6, NotIn, StageNames
<1>7. CASE Answers(c, "openCreate")
           /\ In("eCreateChannel", c,
                 Keep /\ IF m_listener THEN EnterCheckQueue(Ready(c))
                                       ELSE EnterCreateExchange(Ready(c)))
  BY <1>4, <1>6, <1>7, StageNames DEF In, Answers
<1>8. CASE Answers(c, "openRecreate")
           /\ In("eRecreateChannel", c, Keep /\ EnterCreateExchange(Ready(c)))
  BY <1>4, <1>6, <1>8, StageNames DEF In, Answers
<1>9. CASE Answers(c, "openUnbind")
           /\ In("eUnbindQueue", c,
                 Keep /\ Enter("eUnbindQueue", Ask(Ready(c), "unbindQueue")))
  BY <1>5, <1>6, <1>9 DEF In, Answers
<1>10. CASE Answers(c, "openRemove")
            /\ In("eRemoveQueue", c,
                  Keep /\ Enter("eRemoveQueue", Ask(Ready(c), "removeQueue")))
  BY <1>5, <1>6, <1>10 DEF In, Answers
<1> QED
  BY <1>7, <1>8, <1>9, <1>10 DEF onReady

LEMMA StagedDeclarations ==
  ASSUME ChannelInv, BrokerInv, NEW c \in Channels,
         onQueueChecked(c) \/ onExchangeDeclared(c) \/ onQueueDeclared(c)
  PROVE  Staged
<1>1. PICK op \in Stage : Answers(c, op) /\ Head(chan[c].pending) = op
  BY StageNames DEF onQueueChecked, onExchangeDeclared, onQueueDeclared, Answers
<1>2. Quiet /\ chan[c].pending # <<>> /\ ~chan[c].broken
  BY <1>1 DEF Answers
<1>3. Shrunk(Popped(c))
  BY <1>2, Popping
<1>4. CASE m_state = "eCloseChannel"
  <2>1. Ignored(Popped(c))
    BY <1>4 DEF onQueueChecked, onExchangeDeclared, onQueueDeclared, In
  <2>2. StageInv'
    BY <1>3, <2>1, StageShrunk DEF BrokerInv
  <2>3. m_state' = "eCloseChannel"
    BY <1>4, <2>1 DEF Ignored
  <2> QED
    BY <2>2, <2>3, StageNames DEF ShapeInv, Staged
<1>5. CASE m_state # "eCloseChannel"
  <2>1. /\ m_state = Issuer[op] /\ c = m_channel /\ Popped(c)[c].pending = <<>>
        /\ NoStage(Popped(c))
    BY <1>1, <1>5, StagePopped DEF BrokerInv
  <2>2. NoLive(Popped(c)) /\ Popped(c) \in [Channels -> Channel]
    BY <1>3, <2>1 DEF NoStage, NoLive, Shrunk
  <2>3. m_ec = "eNoError"
    BY <2>1, StageNames DEF BrokerInv, CodeInv, Starting
  <2>4. CASE onQueueChecked(c)
    <3>1. m_state = "eCheckQueue"
      BY <1>1, <2>1, <2>4, StageNames DEF onQueueChecked, Answers
    <3> QED
      BY <2>1, <2>2, <2>3, <2>4, <3>1, EntersStage DEF onQueueChecked, In, Opened
  <2>5. CASE onExchangeDeclared(c)
    <3>1. m_state = "eCreateExchange"
      BY <1>1, <2>1, <2>5, StageNames DEF onExchangeDeclared, Answers
    <3> QED
      BY <2>1, <2>2, <2>3, <2>5, <3>1, EntersStage, EntersBeyond DEF onExchangeDeclared, In, Keep
  <2>6. CASE onQueueDeclared(c)
    <3>1. m_state = "eCreateQueue"
      BY <1>1, <2>1, <2>6, StageNames DEF onQueueDeclared, Answers
    <3> QED
      BY <2>1, <2>2, <2>6, <3>1, EntersBeyond DEF onQueueDeclared, In
  <2> QED
    BY <2>4, <2>5, <2>6
<1> QED
  BY <1>4, <1>5

\* A consumer comes or goes.
LEMMA Registering ==
  ASSUME ChannelInv, NEW c \in Channels, chan[c].pending # <<>>,
         NEW b \in BOOLEAN, b => m_listener
  PROVE  LET chs == [Popped(c) EXCEPT ![c].consumer = b] IN
         /\ Shrunk(chs)
         /\ \A d \in Channels : /\ chs[d].pending = Popped(c)[d].pending
                                /\ chs[d].broken = Popped(c)[d].broken
                                /\ chs[d].onError = Popped(c)[d].onError
                                /\ chs[d].consumer = IF d = c THEN b ELSE chan[d].consumer
<1> DEFINE r   == [Popped(c)[c] EXCEPT !.consumer = b]
           chs == [Popped(c) EXCEPT ![c].consumer = b]
<1>1. Shrunk(Popped(c)) /\ \A d \in Channels : Same(chan[d], Popped(c)[d])
  BY Popping
<1>2. Popped(c) \in [Channels -> Channel] /\ Popped(c)[c] \in Channel
  BY <1>1 DEF Shrunk
<1>3. /\ r \in Channel
      /\ r.pending = Popped(c)[c].pending /\ r.onError = Popped(c)[c].onError
      /\ r.broken = Popped(c)[c].broken /\ r.consumer = b
  BY <1>2 DEF Channel
<1>4. chs = [Popped(c) EXCEPT ![c] = r]
  BY <1>2
<1> HIDE DEF r
<1>5. /\ chs \in [Channels -> Channel]
      /\ \A d \in Channels : chs[d] = IF d = c THEN r ELSE Popped(c)[d]
  BY <1>2, <1>3, <1>4
<1>6. Ops(r) = Ops(Popped(c)[c])
  BY <1>3 DEF Ops
<1> HIDE DEF chs
<1>7. Shrunk(chs)
  BY <1>1, <1>3, <1>5, <1>6 DEF Shrunk
<1>8. ASSUME NEW d \in Channels
      PROVE  /\ chs[d].pending = Popped(c)[d].pending
             /\ chs[d].broken = Popped(c)[d].broken
             /\ chs[d].onError = Popped(c)[d].onError
             /\ chs[d].consumer = IF d = c THEN b ELSE chan[d].consumer
  BY <1>1, <1>3, <1>5 DEF Same
<1> QED
  BY <1>7, <1>8 DEF chs

LEMMA StagedRegistration ==
  ASSUME ChannelInv, BrokerInv, NEW c \in Channels,
         onQueueBound(c) \/ onConsuming(c) \/ onCancelled(c)
  PROVE  Staged
<1>1. /\ Quiet /\ chan[c].pending # <<>> /\ ~chan[c].broken
      /\ Head(chan[c].pending) \in {"bindQueue", "consume", "cancel"}
  BY DEF onQueueBound, onConsuming, onCancelled, Answers
<1>2. \A s \in DOMAIN Own : Head(chan[c].pending) # Own[s]
  BY <1>1, StageNames
<1>3. Head(chan[c].pending) \in Ops(chan[c]) /\ Shrunk(Popped(c))
  BY <1>1, Popping
<1>4. CASE onQueueBound(c)
  <2>1. CASE m_state = "eBindQueue" /\ EnterCreateConsumer(Popped(c))
    <3>1. NoLive(Popped(c)) /\ Popped(c) \in [Channels -> Channel] /\ m_channel \in Channels
      BY <1>1, <1>3, <2>1, StagedOn DEF Beyond
    <3> QED
      BY <2>1, <3>1, EntersBeyond
  <2>2. CASE Ignored(Popped(c))
    BY <1>1, <1>2, <1>3, <2>2, StageIgnored
  <2> QED
    BY <1>4, <2>1, <2>2 DEF onQueueBound, In
<1>5. CASE onConsuming(c)
  <2> DEFINE chs == [Popped(c) EXCEPT ![c].consumer = TRUE]
  <2>1. Head(chan[c].pending) = "consume"
    BY <1>5 DEF onConsuming, Answers
  <2>2. m_listener
    BY <1>3, <2>1 DEF ChannelInv, RoleInv
  <2>3. /\ Shrunk(chs)
        /\ \A d \in Channels : /\ chs[d].pending = Popped(c)[d].pending
                               /\ chs[d].broken = Popped(c)[d].broken
    BY <1>1, <2>2, Registering
  <2>4. \/ m_state = "eCreateConsumer" /\ EnterReady(chs)
        \/ Ignored(chs)
    BY <1>5 DEF onConsuming
  <2> HIDE DEF chs
  <2>5. CASE m_state = "eCreateConsumer" /\ EnterReady(chs)
    <3>1. NoLive(chs) /\ chs \in [Channels -> Channel] /\ m_channel \in Channels
      BY <1>1, <2>3, <2>5, StagedOn DEF Beyond
    <3> QED
      BY <2>5, <3>1, EntersBeyond
  <2>6. CASE Ignored(chs)
    BY <1>1, <1>2, <2>3, <2>6, StageIgnored
  <2> QED
    BY <2>4, <2>5, <2>6
<1>6. CASE onCancelled(c)
  <2> DEFINE chs == [Popped(c) EXCEPT ![c].consumer = FALSE]
  <2>1. Head(chan[c].pending) = "cancel"
    BY <1>6 DEF onCancelled, Answers
  <2>2. m_state = "eShutdown"
    BY <1>1, <2>1, Popping, Names
  <2>3. /\ Shrunk(chs)
        /\ \A d \in Channels : /\ chs[d].pending = Popped(c)[d].pending
                               /\ chs[d].broken = Popped(c)[d].broken
    BY <1>1, Registering
  <2>4. EnterUnbindQueue(chs) \/ Ignored(chs)
    BY <1>6 DEF onCancelled
  <2> HIDE DEF chs
  <2>5. CASE EnterUnbindQueue(chs)
    <3>1. NoLive(chs) /\ chs \in [Channels -> Channel] /\ m_channel \in Channels
      BY <1>1, <2>2, <2>3, StagedOn DEF Beyond
    <3> QED
      BY <2>5, <3>1, EntersBeyond
  <2>6. CASE Ignored(chs)
    BY <1>1, <1>2, <2>3, <2>6, StageIgnored
  <2> QED
    BY <2>4, <2>5, <2>6
<1> QED
  BY <1>4, <1>5, <1>6

LEMMA StagedUndone ==
  ASSUME ChannelInv, BrokerInv, NEW c \in Channels, onQueueUnbound(c) \/ onQueueRemoved(c)
  PROVE  Staged
<1>1. /\ Quiet /\ chan[c].pending # <<>> /\ EnterCloseChannel(Popped(c))
      /\ Head(chan[c].pending) \in {"unbindQueue", "removeQueue"}
  BY DEF onQueueUnbound, onQueueRemoved, Answers
<1>2. m_state \in {"eUnbindQueue", "eRemoveQueue"} /\ Shrunk(Popped(c))
  BY <1>1, Popping, Names
<1>3. NoLive(Popped(c)) /\ Popped(c) \in [Channels -> Channel] /\ m_channel \in Channels
  BY <1>1, <1>2, StagedOn DEF Beyond
<1> QED
  BY <1>1, <1>3, EntersBeyond

LEMMA StagedClosed ==
  ASSUME ChannelInv, BrokerInv, NEW c \in Channels, onChannelClosed(c)
  PROVE  Staged
<1> DEFINE chs == [chan EXCEPT ![c] = Idle]
<1>1. /\ Quiet /\ chan[c].pending # <<>> /\ ~chan[c].broken
      /\ Head(chan[c].pending) \in {"close", "discard"}
  BY DEF onChannelClosed, Answers
<1>2. Shrunk(chs)
  BY IdleChannel, Silencing DEF Idle
<1>3. chan \in [Channels -> Channel]
  BY DEF ChannelInv, TypeOK
<1>4. chs[c] = Idle /\ \A d \in Channels \ {c} : chs[d] = chan[d]
  BY <1>3
<1> HIDE DEF chs
<1>5. CASE Head(chan[c].pending) = "close" /\ EnterEnd(chs)
  <2>1. c = m_channel
    BY <1>1, <1>5, Popping, Names
  <2>2. \A d \in Channels \ {c} : Ops(chan[d]) \cap Stage = {}
    <3> SUFFICES ASSUME NEW d \in Channels \ {c}, NEW o \in Ops(chan[d]) \cap Stage PROVE FALSE
      OBVIOUS
    <3>1. ~chan[d].broken
      BY <1>1, SpentChannel DEF Quiet
    <3> QED
      BY <2>1, <3>1 DEF BrokerInv, StageInv
  <2>3. NoLive(chs) /\ chs \in [Channels -> Channel]
    BY <1>2, <1>4, <2>2, IdleChannel DEF NoLive, Shrunk
  <2> QED
    BY <1>5, <2>1, <2>3, EntersBeyond
<1>6. CASE Ignored(chs) /\ Head(chan[c].pending) = "discard"
  <2>1. \A s \in DOMAIN Own : Head(chan[c].pending) # Own[s]
    BY <1>6, StageNames
  <2>2. \A d \in Channels : \/ chs[d].broken
                            \/ /\ chs[d].pending = Popped(c)[d].pending
                               /\ chs[d].broken = Popped(c)[d].broken
    <3>1. chs[c].broken
      BY <1>4 DEF Idle
    <3>2. \A d \in Channels \ {c} : Popped(c)[d] = chan[d]
      BY <1>3 DEF Popped
    <3> QED
      BY <1>4, <3>1, <3>2
  <2> QED
    BY <1>1, <1>2, <1>6, <2>1, <2>2, StageIgnored
<1> QED
  BY <1>5, <1>6 DEF onChannelClosed, Answers, chs

\* A channel that has failed tells a consumer, or its own closure.
LEMMA StagedReport ==
  ASSUME ChannelInv, BrokerInv, NEW c \in Channels, chan[c].broken, chan[c].pending = <<>>,
         NEW chs, Shrunk(chs), Ignored(chs),
         \A d \in Channels : chs[d].broken \/ chs[d] = chan[d]
  PROVE  Staged
<1>1. chan' = chs /\ UNCHANGED <<m_state, m_channel>>
  BY DEF Ignored, memory
<1>2. StageInv'
  BY StageShrunk DEF BrokerInv
<1>3. ShapeInv'
  BY <1>1, ShapeKept DEF BrokerInv
<1> QED
  BY <1>2, <1>3 DEF Staged

\* A failure that ends what the machine was at.
LEMMA StagedFault ==
  ASSUME ChannelInv, BrokerInv, NEW chs, Shrunk(chs), m_state # "eEnd",
         m_state \notin Beyond \cup {"eCloseChannel"} \/ chan[m_channel].broken,
         \/ EnterRecreateChannel(chs) \/ EnterUnbindQueue(chs) \/ EnterRemoveQueue(chs)
         \/ EnterCloseChannel(chs) \/ EnterEnd(chs)
  PROVE  Staged
<1>1. m_channel \in Channels
  BY Current
<1>2. NoLive(chan)
  BY <1>1, NoLiveHere DEF BrokerInv, Beyond
<1>3. NoLive(chs) /\ chs \in [Channels -> Channel]
  BY <1>2, StageUntouched DEF Shrunk
<1> QED
  BY <1>1, <1>3, EntersBeyond

LEMMA StagedConsumerError ==
  ASSUME ChannelInv, BrokerInv, NEW chs, Shrunk(chs), ConsumerError(chs),
         Ignored(chs) => Staged
  PROVE  Staged
BY StagedFault DEF ConsumerError, Beyond

LEMMA StagedRequestError ==
  ASSUME ChannelInv, BrokerInv, NEW c \in Channels, onRequestError(c)
  PROVE  Staged
<1> DEFINE op == Head(chan[c].pending)
<1>1. chan[c].broken /\ chan[c].pending # <<>>
  BY DEF onRequestError, Fails
<1>2. Shrunk(Popped(c)) /\ op \in Ops(chan[c])
  BY <1>1, Popping
<1>3. ASSUME Ignored(Popped(c)) PROVE Staged
  BY <1>1, <1>2, <1>3, StageIgnored
<1>4. ASSUME op \in Stage, m_state = Issuer[op] PROVE chan[m_channel].broken /\ m_state # "eEnd"
  BY <1>1, <1>2, <1>4, StageNames DEF BrokerInv, StageInv
<1>5. ASSUME op \in {"cancel", "unbindQueue", "removeQueue", "close"}
      PROVE  chan[m_channel].broken /\ m_state # "eEnd"
  BY <1>1, <1>5, Popping, Names
<1>6. ASSUME Fails(c, "checkQueue"), In("eCheckQueue", c, Keep /\ EnterRecreateChannel(Popped(c)))
      PROVE  Staged
  BY <1>2, <1>3, <1>4, <1>6, StagedFault, StageNames DEF In, Fails
<1>7. ASSUME NEW code, Fails(c, "declareExchange"),
             In("eCreateExchange", c, Fault(code) /\ EnterCloseChannel(Popped(c)))
      PROVE  Staged
  BY <1>2, <1>3, <1>4, <1>7, StagedFault, StageNames DEF In, Fails
<1>8. ASSUME NEW code, Fails(c, "declareQueue"),
             In("eCreateQueue", c, Fault(code) /\ EnterCloseChannel(Popped(c)))
      PROVE  Staged
  BY <1>2, <1>3, <1>4, <1>8, StagedFault, StageNames DEF In, Fails
<1>9. ASSUME NEW code, In("eBindQueue", c, Fault(code) /\ EnterRemoveQueue(Popped(c)))
      PROVE  Staged
  BY <1>2, <1>3, <1>9, StagedFault DEF In, Beyond
<1>10. ASSUME ConsumerError(Popped(c)) PROVE Staged
  BY <1>2, <1>3, <1>10, StagedConsumerError
<1>11. ASSUME Fails(c, "cancel"), EnterUnbindQueue(Popped(c)) PROVE Staged
  BY <1>2, <1>5, <1>11, StagedFault DEF Fails
<1>12. ASSUME NEW last \in {"unbindQueue", "removeQueue", "close"}, Fails(c, last), EnterEnd(Popped(c))
       PROVE  Staged
  BY <1>2, <1>5, <1>12, StagedFault DEF Fails
<1> HIDE DEF op
<1> QED
  BY <1>3, <1>6, <1>7, <1>8, <1>9, <1>10, <1>11, <1>12 DEF onRequestError

LEMMA StagedConsumerGone ==
  ASSUME ChannelInv, BrokerInv, NEW c \in Channels, onConsumerError(c)
  PROVE  Staged
<1> DEFINE r == [chan[c] EXCEPT !.consumer = FALSE]
<1>1. chan[c].broken /\ chan[c].pending = <<>>
  BY DEF onConsumerError
<1>2. chan[c] \in Channel /\ chan \in [Channels -> Channel]
  BY DEF ChannelInv, TypeOK
<1>3. /\ r \in Channel
      /\ r.pending = <<>> /\ r.onError = chan[c].onError
      /\ r.broken /\ ~r.consumer
  BY <1>1, <1>2 DEF Channel
<1>4. ConsumerError([chan EXCEPT ![c] = r])
  BY DEF onConsumerError
<1> HIDE DEF r
<1>5. Ops(r) = {} /\ OneLast(r.pending)
  BY <1>3 DEF Ops, Elements, OneLast
<1>6. Shrunk([chan EXCEPT ![c] = r])
  BY <1>3, <1>5, Silencing
<1>7. \A d \in Channels : [chan EXCEPT ![c] = r][d].broken \/ [chan EXCEPT ![c] = r][d] = chan[d]
  BY <1>2, <1>3
<1> QED
  BY <1>1, <1>4, <1>6, <1>7, StagedReport, StagedConsumerError

LEMMA StagedChannelError ==
  ASSUME ChannelInv, BrokerInv, NEW c \in Channels, onChannelError(c)
  PROVE  Staged
<1> DEFINE r       == [chan[c] EXCEPT !.onError = "none"]
           closure == chan[c].onError
           chs     == [chan EXCEPT ![c] = r]
<1>1. chan[c].broken /\ chan[c].pending = <<>> /\ ~chan[c].consumer
  BY DEF onChannelError
<1>2. chan[c] \in Channel /\ chan \in [Channels -> Channel]
  BY DEF ChannelInv, TypeOK
<1>3. /\ r \in Channel
      /\ r.pending = <<>> /\ r.onError = "none"
      /\ r.broken /\ ~r.consumer
  BY <1>1, <1>2 DEF Channel, OnError
<1>4. [chan EXCEPT ![c].onError = "none"] = chs
  OBVIOUS
<1> HIDE DEF r
<1>5. Ops(r) = {} /\ OneLast(r.pending)
  BY <1>3 DEF Ops, Elements, OneLast
<1>6. Shrunk(chs)
  BY <1>3, <1>5, Silencing
<1>7. \A d \in Channels : chs[d].broken \/ chs[d] = chan[d]
  BY <1>2, <1>3
<1> HIDE DEF chs
<1>8. CASE closure \in DOMAIN OpenedIn /\ m_state = OpenedIn[closure] /\ EnterEnd(chs)
  <2>1. m_state \in {"eCreateChannel", "eRecreateChannel", "eUnbindQueue", "eRemoveQueue"}
    BY <1>8 DEF OpenedIn
  <2> QED
    BY <1>6, <1>8, <2>1, StagedFault DEF Beyond
<1>9. CASE Ignored(chs)
  BY <1>1, <1>6, <1>7, <1>9, StagedReport
<1>10. CASE closure = "ready" /\ EnterEnd(chs)
  <2>1. \/ c = m_channel /\ m_state \in {"eReady", "eCloseChannel"}
        \/ m_state = "eEnd"
    BY <1>10 DEF ChannelInv, ClosureInv
  <2>2. CASE m_state # "eEnd"
    BY <1>1, <1>6, <1>10, <2>1, <2>2, StagedFault
  <2>3. CASE m_state = "eEnd"
    <3>1. NoLive(chan)
      BY <2>3, NoLiveHere DEF BrokerInv
    <3>2. NoLive(chs) /\ chs \in [Channels -> Channel]
      BY <1>6, <3>1, StageUntouched DEF Shrunk
    <3>3. m_state' = "eEnd" /\ Kept(chs, {})
      BY <1>10, <3>2, Leaving DEF ChannelInv, TypeOK
    <3>4. StageInv'
      BY <3>2, <3>3, StageLeft
    <3> QED
      BY <3>3, <3>4, StageNames DEF ShapeInv, Staged
  <2> QED
    BY <2>2, <2>3
<1> QED
  BY <1>4, <1>8, <1>9, <1>10 DEF onChannelError

\* Channels that break keep what is outstanding.
LEMMA StagedEnvironment ==
  ASSUME ChannelInv, BrokerInv,
         (\E c \in Channels : BreakChannel(c)) \/ BreakConnection \/ OthersDeclare
  PROVE  Staged
<1>1. UNCHANGED <<m_state, m_channel, m_ec>>
  BY DEF BreakChannel, BreakConnection, OthersDeclare, memory
<1> DEFINE broke(d) == [chan[d] EXCEPT !.broken = TRUE]
<1>2. ASSUME NEW d \in Channels
      PROVE  broke(d).pending = chan[d].pending /\ broke(d).broken
  BY DEF ChannelInv, TypeOK, Channel
<1> HIDE DEF broke
<1>3. \A d \in Channels : chan'[d] = chan[d] \/ chan'[d] = broke(d)
  <2>1. ASSUME NEW c \in Channels, BreakChannel(c)
        PROVE  chan' = [chan EXCEPT ![c] = broke(c)]
    BY <2>1 DEF BreakChannel, broke
  <2>2. ASSUME BreakConnection PROVE chan' = [d \in Channels |-> broke(d)]
    BY <2>2 DEF BreakConnection, broke
  <2>3. ASSUME OthersDeclare PROVE chan' = chan
    BY <2>3 DEF OthersDeclare
  <2>4. chan \in [Channels -> Channel]
    BY DEF ChannelInv, TypeOK
  <2> QED
    BY <2>1, <2>2, <2>3, <2>4
<1>4. \A d \in Channels : Ops(chan'[d]) = Ops(chan[d]) /\ (~chan'[d].broken => ~chan[d].broken)
  BY <1>2, <1>3 DEF Ops
<1>5. StageInv'
  BY <1>1, <1>4 DEF BrokerInv, StageInv
<1>6. ShapeInv'
  BY <1>1, <1>2, <1>3, ShapeKept DEF BrokerInv
<1> QED
  BY <1>5, <1>6 DEF Staged

LEMMA StagedStep == ASSUME ChannelInv, BrokerInv, Next PROVE Staged
BY StagedStart, StagedStop, StagedDrop, StagedReady, StagedDeclarations, StagedRegistration,
   StagedUndone, StagedClosed, StagedRequestError, StagedConsumerGone, StagedChannelError,
   StagedEnvironment
   DEF Next, Success, Report

LEMMA BrokerStep ==
  ASSUME ChannelInv, BrokerInv, [Next]_vars
  PROVE  BrokerInv'
<1>1. CASE Next
  BY <1>1, StagedStep, KnownStep DEF Staged, Known, BrokerInv
<1>2. CASE UNCHANGED vars
  BY <1>2 DEF vars, config, memory, broker, history, BrokerInv, StageInv, ShapeInv, CodeInv,
              QueueInv, CleanAfterBindError, RemovedAfter
<1> QED
  BY <1>1, <1>2

LEMMA BrokerInit == Init => BrokerInv
<1> SUFFICES ASSUME Init PROVE BrokerInv
  OBVIOUS
<1>1. m_state = "eEnd" /\ \A c \in Channels : Ops(chan[c]) = {}
  BY IdleChannel DEF Init, InitialState
<1>2. StageInv /\ ShapeInv
  BY <1>1, StageNames DEF StageInv, ShapeInv
<1>3. CodeInv /\ QueueInv
  BY <1>1 DEF Init, CodeInv, QueueInv, CleanAfterBindError, RemovedAfter, Starting
<1> QED
  BY <1>2, <1>3 DEF BrokerInv

\* The requests of a start are those of the run, and what the machine remembers
\* of its queue is so in the broker, whatever the broker and others do.
THEOREM Records == Spec => [](ChannelInv /\ BrokerInv)
<1>1. ChannelInv /\ BrokerInv /\ [Next]_vars => (ChannelInv /\ BrokerInv)'
  BY ChannelStep, BrokerStep
<1> QED
  BY <1>1, ChannelInit, BrokerInit, PTL DEF Spec

\* When the machine closes its channel after the binding of its queue was
\* refused, the queue it created itself has been removed.
THEOREM CleanAfterBindErrorHolds == Spec => []CleanAfterBindError
BY Records, PTL DEF BrokerInv, QueueInv

-----------------------------------------------------------------------------
(* A queue that was there before.                                          *)

Alone == Interference \cap {"othersDeclare", "checkRefused"} = {}

\* The states in which a receiver relies on what the check of its queue told.
Relying == {"eRecreateChannel", "eCreateExchange", "eCreateQueue", "eBindQueue", "eRemoveQueue"}

\* A machine that did not see the queue is on a connection that has failed.
SurviveInv ==
  /\ queue = "existing" => named
  /\ connUp /\ m_listener /\ queue = "existing" /\ m_state \in Relying => m_queueExist
  /\ m_state = "eCreateChannel" => chan[m_channel].onError = "create"
  /\ /\ m_state = "eCheckQueue" /\ connUp /\ chan[m_channel].broken
     /\ "checkQueue" \in Ops(chan[m_channel])
     => queue # "existing"

Survives == SurviveInv'

LEMMA SurvivesAside ==
  ASSUME SurviveInv, UNCHANGED named, queue' = "existing" => queue = "existing",
         m_state' \notin Relying \cup {"eCreateChannel", "eCheckQueue"}
  PROVE  Survives
BY DEF SurviveInv, Survives

LEMMA SurvivesRelying ==
  ASSUME SurviveInv, UNCHANGED <<named, m_listener, connUp, m_queueExist>>,
         queue' = "existing" => queue = "existing",
         m_state \in Relying, m_state' \in Relying
  PROVE  Survives
BY DEF SurviveInv, Survives, Relying

LEMMA SurvivesOpening ==
  ASSUME ChannelInv, SurviveInv, UNCHANGED named, queue' = "existing" => named,
         EnterCreateChannel(chan)
  PROVE  Survives
<1>1. m_state' = "eCreateChannel" /\ chan'[m_channel'].onError = "create"
  BY Replacing DEF EnterCreateChannel, Openings, ChannelInv, TypeOK
<1> QED
  BY <1>1 DEF SurviveInv, Survives, Relying

LEMMA SurvivesIgnored ==
  ASSUME ChannelInv, SurviveInv, UNCHANGED <<named, m_listener, connUp, queue>>,
         NEW chs, Shrunk(chs), Ignored(chs),
         m_state = "eCreateChannel" => chs[m_channel].onError # "none",
         m_state = "eCheckQueue" => \/ Ops(chs[m_channel]) = {}
                                    \/ chs[m_channel].broken = chan[m_channel].broken
  PROVE  Survives
<1>1. chan' = chs /\ UNCHANGED <<m_state, m_channel, m_queueExist>>
  BY DEF Ignored, memory
<1>2. m_state \in {"eCreateChannel", "eCheckQueue"} => m_channel \in Channels
  BY Current
<1> QED
  BY <1>1, <1>2 DEF SurviveInv, Survives, Shrunk

LEMMA SurvivesSame ==
  ASSUME ChannelInv, SurviveInv, UNCHANGED <<named, m_listener, connUp, queue>>,
         NEW chs, Shrunk(chs), Ignored(chs),
         m_channel \in Channels => Same(chan[m_channel], chs[m_channel])
  PROVE  Survives
<1>1. m_state \in {"eCreateChannel", "eCheckQueue"} => m_channel \in Channels
  BY Current
<1> QED
  BY <1>1, SurvivesIgnored DEF SurviveInv, Same

LEMMA SurvivesCalls ==
  ASSUME ChannelInv, BrokerInv, SurviveInv,
         (\E connection \in BOOLEAN : start(connection)) \/ stop \/ drop
  PROVE  Survives
<1>1. UNCHANGED <<named, m_listener>>
  BY DEF start, stop, drop, config
<1>2. ASSUME NEW connection \in BOOLEAN, start(connection) PROVE Survives
  <2>1. m_state = "eEnd" /\ (queue' = "existing" => named)
    BY <1>2 DEF start
  <2>2. CASE EnterCreateChannel(chan)
    BY <1>1, <2>1, <2>2, SurvivesOpening
  <2>3. CASE m_state' = m_state
    BY <1>1, <2>1, <2>3 DEF SurviveInv, Survives, Relying
  <2> QED
    BY <1>2, <2>2, <2>3 DEF start
<1>3. CASE stop
  <2>1. UNCHANGED <<queue, connUp>> /\ m_state \in Starting \cup {"eReady"}
    BY <1>3 DEF stop, broker, StopTransit
  <2>2. CASE EnterCreateChannel(chan)
    BY <1>1, <2>1, <2>2, SurvivesOpening DEF SurviveInv
  <2>3. CASE m_state' \in {"eEnd", "eCloseChannel", "eUnbindQueue", "eShutdown"}
    BY <1>1, <2>1, <2>3, SurvivesAside DEF Relying
  <2>4. CASE m_state = "eBindQueue" /\ EnterRemoveQueue(chan) /\ Keep
    <3>1. CASE m_state' = "eCloseChannel"
      BY <2>3, <3>1
    <3>2. CASE m_state' = "eRemoveQueue"
      BY <1>1, <2>1, <2>4, <3>2, SurvivesRelying DEF Relying, Keep
    <3> QED
      BY <2>4, <3>1, <3>2, Reached
  <2>5. StopTransit[m_state] = "eRemoveQueue" => m_state = "eBindQueue"
    BY <2>1 DEF StopTransit, Starting
  <2> QED
    BY <1>3, <2>2, <2>3, <2>4, <2>5, Reached DEF stop
<1>4. CASE drop
  <2>1. m_state' = "eEnd" /\ UNCHANGED queue
    BY <1>4 DEF drop, End, broker
  <2> QED
    BY <1>1, <2>1, SurvivesAside DEF Relying
<1> QED
  BY <1>2, <1>3, <1>4

LEMMA SurvivesReady ==
  ASSUME ChannelInv, BrokerInv, SurviveInv, NEW c \in Channels, onReady(c)
  PROVE  Survives
<1>1. /\ UNCHANGED <<named, m_listener, connUp, queue>> /\ Quiet
      /\ chan[c].pending # <<>>
  BY DEF onReady, Answers, config, broker
<1>2. Shrunk(Popped(c)) /\ \A d \in Channels : Same(chan[d], Popped(c)[d])
  BY <1>1, Popping
<1>3. ASSUME Ignored(Popped(c)) PROVE Survives
  BY <1>1, <1>2, <1>3, SurvivesSame
<1>4. ASSUME m_state = "eCreateChannel",
             IF m_listener THEN EnterCheckQueue(Ready(c)) ELSE EnterCreateExchange(Ready(c))
      PROVE  Survives
  <2>1. CASE ~m_listener
    <3>1. m_state' = "eCreateExchange"
      BY <1>4, <2>1, Reached
    <3> QED
      BY <1>1, <2>1, <3>1 DEF SurviveInv, Survives
  <2>2. CASE m_listener /\ ~named
    <3>1. m_state' = "eCreateExchange" /\ queue # "existing"
      BY <1>4, <2>2, Reached DEF EnterCheckQueue, SurviveInv
    <3> QED
      BY <1>1, <3>1 DEF SurviveInv, Survives
  <2>3. CASE m_listener /\ named
    <3>1. m_channel \in Channels /\ ~chan[m_channel].broken
      BY <1>1, <1>4, Current DEF SurviveInv, Quiet, Spent
    <3>2. Ready(c) \in [Channels -> Channel] /\ ~Ready(c)[m_channel].broken
      <4>1. Shrunk(Ready(c))
        BY <1>2, <3>1, Installing DEF Ready
      <4>2. Popped(c) \in [Channels -> Channel] /\ ~Popped(c)[m_channel].broken
        BY <1>2, <3>1 DEF Same, Shrunk
      <4> QED
        BY <3>1, <4>1, <4>2 DEF Ready, Install, Shrunk, Channel
    <3>3. Enter("eCheckQueue", Ask(Ready(c), "checkQueue")) /\ "checkQueue" \in Request
      BY <1>4, <2>3 DEF EnterCheckQueue, Request, Guarded
    <3>4. /\ m_state' = "eCheckQueue" /\ m_channel' = m_channel
          /\ Same(Ready(c)[m_channel], chan'[m_channel])
      BY <3>1, <3>2, <3>3, Asking
    <3>5. ~chan'[m_channel'].broken
      BY <3>2, <3>4 DEF Same
    <3> QED
      BY <1>1, <3>4, <3>5 DEF SurviveInv, Survives, Relying
  <2> QED
    BY <2>1, <2>2, <2>3
<1>5. ASSUME m_state \in {"eRecreateChannel", "eRemoveQueue"}, Keep,
             m_state' \in {"eCreateExchange", "eRemoveQueue"}
      PROVE  Survives
  BY <1>1, <1>5, SurvivesRelying DEF Relying, Keep
<1>6. ASSUME m_state' = "eUnbindQueue" PROVE Survives
  BY <1>1, <1>6, SurvivesAside DEF Relying
<1>7. ASSUME NEW state, NEW op, Enter(state, Ask(Ready(c), op)) PROVE m_state' = state
  BY <1>7 DEF Enter
<1> QED
  BY <1>3, <1>4, <1>5, <1>6, <1>7, Reached DEF onReady, In

LEMMA SurvivesDeclarations ==
  ASSUME ChannelInv, BrokerInv, SurviveInv, NEW c \in Channels,
         onQueueChecked(c) \/ onExchangeDeclared(c) \/ onQueueDeclared(c)
  PROVE  Survives
<1>1. /\ UNCHANGED <<named, m_listener, connUp>> /\ chan[c].pending # <<>>
      /\ queue' = "existing" => queue = "existing"
  BY DEF onQueueChecked, onExchangeDeclared, onQueueDeclared, Answers, config, broker
<1>2. Shrunk(Popped(c)) /\ \A d \in Channels : Same(chan[d], Popped(c)[d])
  BY <1>1, Popping
<1>3. ASSUME UNCHANGED queue, Ignored(Popped(c)) PROVE Survives
  BY <1>1, <1>2, <1>3, SurvivesSame
<1>4. CASE onQueueChecked(c)
  <2>1. CASE m_queueExist' /\ m_state' = "eCreateExchange"
    BY <1>1, <2>1 DEF SurviveInv, Survives
  <2> QED
    BY <1>3, <1>4, <2>1, Reached DEF onQueueChecked, broker, In
<1>5. CASE onExchangeDeclared(c)
  <2>1. CASE m_state = "eCreateExchange" /\ Keep /\ m_state' \in {"eBindQueue", "eCreateQueue"}
    BY <1>1, <2>1, SurvivesRelying DEF Relying, Keep
  <2>2. CASE m_state' = "eReady"
    BY <1>1, <2>2, SurvivesAside DEF Relying
  <2> QED
    BY <1>3, <1>5, <2>1, <2>2, Reached DEF onExchangeDeclared, broker, In
<1>6. CASE onQueueDeclared(c)
  <2>1. ~chan[c].broken /\ "declareQueue" \in Ops(chan[c])
    BY <1>1, <1>6, Popping DEF onQueueDeclared, Answers
  <2>2. m_state \in {"eCreateQueue", "eCloseChannel"}
    BY <2>1, StageNames DEF BrokerInv, StageInv
  <2>3. CASE m_state = "eCreateQueue"
    <3>1. m_state' = "eBindQueue" /\ UNCHANGED m_queueExist
      BY <1>6, <2>3, Reached DEF onQueueDeclared, In
    <3> QED
      BY <1>1, <2>3, <3>1, SurvivesRelying DEF Relying
  <2>4. CASE m_state = "eCloseChannel"
    <3>1. m_state' = "eCloseChannel"
      BY <1>6, <2>4 DEF onQueueDeclared, In, Ignored
    <3> QED
      BY <1>1, <3>1, SurvivesAside DEF Relying
  <2> QED
    BY <2>2, <2>3, <2>4
<1> QED
  BY <1>4, <1>5, <1>6

LEMMA SurvivesRegistration ==
  ASSUME ChannelInv, BrokerInv, SurviveInv, NEW c \in Channels,
         onQueueBound(c) \/ onConsuming(c) \/ onCancelled(c)
  PROVE  Survives
<1>1. /\ UNCHANGED <<named, m_listener, connUp, queue>> /\ chan[c].pending # <<>>
  BY DEF onQueueBound, onConsuming, onCancelled, Answers, config, broker
<1>2. Shrunk(Popped(c)) /\ \A d \in Channels : Same(chan[d], Popped(c)[d])
  BY <1>1, Popping
<1>3. ASSUME m_state' \in {"eCreateConsumer", "eReady", "eUnbindQueue", "eCloseChannel"}
      PROVE  Survives
  BY <1>1, <1>3, SurvivesAside DEF Relying
<1>4. CASE onQueueBound(c)
  <2>1. CASE Ignored(Popped(c))
    BY <1>1, <1>2, <2>1, SurvivesSame
  <2> QED
    BY <1>3, <1>4, <2>1, Reached DEF onQueueBound, In
<1>5. ASSUME NEW b \in BOOLEAN, b => m_listener,
             Ignored([Popped(c) EXCEPT ![c].consumer = b])
      PROVE  Survives
  <2> DEFINE chs == [Popped(c) EXCEPT ![c].consumer = b]
  <2>1. /\ Shrunk(chs)
        /\ \A d \in Channels : /\ chs[d].broken = Popped(c)[d].broken
                               /\ chs[d].onError = Popped(c)[d].onError
    BY <1>1, <1>5, Registering
  <2>2. Ignored(chs)
    BY <1>5
  <2> HIDE DEF chs
  <2>3. m_state \in {"eCreateChannel", "eCheckQueue"} => m_channel \in Channels
    BY Current
  <2>4. /\ m_state = "eCreateChannel" => chs[m_channel].onError # "none"
        /\ m_state = "eCheckQueue" => chs[m_channel].broken = chan[m_channel].broken
    BY <1>2, <2>1, <2>3 DEF SurviveInv, Same
  <2> QED
    BY <1>1, <2>1, <2>2, <2>4, SurvivesIgnored
<1>6. CASE onConsuming(c)
  <2>1. m_listener
    <3>1. "consume" \in Ops(chan[c])
      BY <1>1, <1>6, Popping DEF onConsuming, Answers
    <3> QED
      BY <3>1 DEF ChannelInv, RoleInv
  <2>2. CASE EnterReady([Popped(c) EXCEPT ![c].consumer = TRUE])
    BY <1>3, <2>2, Reached
  <2> QED
    BY <1>5, <1>6, <2>1, <2>2 DEF onConsuming
<1>7. CASE onCancelled(c)
  <2>1. CASE EnterUnbindQueue([Popped(c) EXCEPT ![c].consumer = FALSE])
    BY <1>3, <2>1, Reached
  <2> QED
    BY <1>5, <1>7, <2>1 DEF onCancelled
<1> QED
  BY <1>4, <1>6, <1>7

LEMMA SurvivesUndone ==
  ASSUME ChannelInv, BrokerInv, SurviveInv, NEW c \in Channels,
         onQueueUnbound(c) \/ onQueueRemoved(c) \/ onChannelClosed(c)
  PROVE  Survives
<1>1. /\ UNCHANGED <<named, m_listener, connUp>> /\ chan[c].pending # <<>> /\ ~chan[c].broken
      /\ queue' = "existing" => queue = "existing"
  BY DEF onQueueUnbound, onQueueRemoved, onChannelClosed, Answers, config, broker
<1>2. CASE onQueueUnbound(c) \/ onQueueRemoved(c)
  BY <1>1, <1>2, Reached, SurvivesAside DEF onQueueUnbound, onQueueRemoved, Relying
<1>3. CASE onChannelClosed(c)
  <2> DEFINE chs == [chan EXCEPT ![c] = Idle]
  <2>1. Shrunk(chs)
    BY IdleChannel, Silencing DEF Idle
  <2>2. chs[c] = Idle /\ \A d \in Channels \ {c} : chs[d] = chan[d]
    BY DEF ChannelInv, TypeOK
  <2>3. CASE EnterEnd(chs)
    BY <1>1, <2>3, Reached, SurvivesAside DEF Relying
  <2>4. CASE Answers(c, "discard") /\ Ignored(chs)
    <3> HIDE DEF chs
    <3>1. m_state \in {"eCreateChannel", "eCheckQueue"} => m_channel \in Channels
      BY Current
    <3>2. ASSUME m_state = "eCreateChannel" PROVE c # m_channel
      <4>1. ~chan[m_channel].broken => Head(chan[m_channel].pending) = "openCreate"
        BY <3>2, StageNames DEF BrokerInv, ShapeInv, Shape
      <4> QED
        BY <2>4, <4>1 DEF Answers
    <3>3. m_state = "eCreateChannel" => chs[m_channel].onError # "none"
      BY <2>2, <3>1, <3>2 DEF SurviveInv
    <3>4. m_state = "eCheckQueue" => \/ Ops(chs[m_channel]) = {}
                                     \/ chs[m_channel].broken = chan[m_channel].broken
      BY <2>2, <3>1, IdleChannel
    <3>5. UNCHANGED queue
      BY <1>3 DEF onChannelClosed, broker
    <3> QED
      BY <1>1, <2>1, <2>4, <3>3, <3>4, <3>5, SurvivesIgnored
  <2> QED
    BY <1>3, <2>3, <2>4 DEF onChannelClosed
<1> QED
  BY <1>2, <1>3

LEMMA SurvivesRequestError ==
  ASSUME ChannelInv, BrokerInv, SurviveInv, NEW c \in Channels, onRequestError(c)
  PROVE  Survives
<1>1. /\ UNCHANGED <<named, m_listener, connUp, queue>>
      /\ chan[c].broken /\ chan[c].pending # <<>>
  BY DEF onRequestError, Fails, config, broker
<1>2. Shrunk(Popped(c)) /\ \A d \in Channels : Same(chan[d], Popped(c)[d])
  BY <1>1, Popping
<1>3. ASSUME Ignored(Popped(c)) PROVE Survives
  BY <1>1, <1>2, <1>3, SurvivesSame
<1>4. ASSUME m_state' \in {"eCloseChannel", "eUnbindQueue", "eEnd"} PROVE Survives
  BY <1>1, <1>4, SurvivesAside DEF Relying
<1>5. ASSUME Fails(c, "checkQueue"), m_state = "eCheckQueue", m_state' = "eRecreateChannel"
      PROVE  Survives
  <2>1. "checkQueue" \in Ops(chan[c])
    BY <1>1, <1>5, Popping DEF Fails
  <2>2. c = m_channel
    BY <1>5, <2>1, StageNames DEF BrokerInv, StageInv
  <2>3. connUp => queue # "existing"
    BY <1>1, <1>5, <2>1, <2>2 DEF SurviveInv
  <2> QED
    BY <1>1, <1>5, <2>3 DEF SurviveInv, Survives
<1>6. ASSUME m_state = "eBindQueue", Fault("eBindQueueError"), m_state' = "eRemoveQueue" PROVE Survives
  BY <1>1, <1>6, SurvivesRelying DEF Relying, Fault
<1>7. ASSUME NEW chs, ConsumerError(chs) PROVE Ignored(chs) \/ m_state' \in {"eCloseChannel", "eUnbindQueue", "eEnd"}
  BY <1>7, Reached DEF ConsumerError
<1> QED
  BY <1>3, <1>4, <1>5, <1>6, <1>7, Reached DEF onRequestError, In

LEMMA SurvivesReport ==
  ASSUME ChannelInv, BrokerInv, SurviveInv, NEW c \in Channels,
         onConsumerError(c) \/ onChannelError(c)
  PROVE  Survives
<1>1. /\ UNCHANGED <<named, m_listener, connUp, queue>>
      /\ chan[c].broken /\ chan[c].pending = <<>>
  BY DEF onConsumerError, onChannelError, config, broker
<1>2. chan[c] \in Channel /\ chan \in [Channels -> Channel]
  BY DEF ChannelInv, TypeOK
<1>3. ASSUME m_state' \in {"eCloseChannel", "eUnbindQueue", "eEnd"} PROVE Survives
  BY <1>1, <1>3, SurvivesAside DEF Relying
<1>4. m_state = "eCreateChannel" => m_channel \in Channels /\ chan[m_channel].onError = "create"
  BY Current DEF SurviveInv
<1>5. m_state = "eCheckQueue" => m_channel \in Channels
  BY Current
<1>6. ASSUME NEW r \in Channel, r.broken, r.pending = <<>>,
             r.onError \in {chan[c].onError, "none"}, ~r.consumer,
             m_state = "eCreateChannel" => c # m_channel \/ r.onError = chan[c].onError,
             Ignored([chan EXCEPT ![c] = r])
      PROVE  Survives
  <2> DEFINE chs == [chan EXCEPT ![c] = r]
  <2>1. Ops(r) = {} /\ OneLast(r.pending)
    BY <1>6 DEF Ops, Elements, OneLast
  <2>2. Shrunk(chs)
    BY <1>6, <2>1, Silencing
  <2>3. chs[c] = r /\ \A d \in Channels \ {c} : chs[d] = chan[d]
    BY <1>2
  <2>4. Ignored(chs)
    BY <1>6
  <2> HIDE DEF chs
  <2>5. m_state = "eCreateChannel" => chs[m_channel].onError # "none"
    BY <1>4, <1>6, <2>3
  <2>6. m_state = "eCheckQueue" => \/ Ops(chs[m_channel]) = {}
                                   \/ chs[m_channel].broken = chan[m_channel].broken
    BY <1>5, <2>1, <2>3
  <2> QED
    BY <1>1, <2>2, <2>4, <2>5, <2>6, SurvivesIgnored
<1>7. CASE onConsumerError(c)
  <2> DEFINE r == [chan[c] EXCEPT !.consumer = FALSE]
  <2>1. /\ r \in Channel /\ r.broken /\ r.pending = <<>> /\ r.onError = chan[c].onError
        /\ ~r.consumer
    BY <1>1, <1>2 DEF Channel
  <2>2. ConsumerError([chan EXCEPT ![c] = r])
    BY <1>7 DEF onConsumerError
  <2> HIDE DEF r
  <2>3. CASE Ignored([chan EXCEPT ![c] = r])
    BY <1>6, <2>1, <2>3
  <2> QED
    BY <1>3, <2>2, <2>3, Reached DEF ConsumerError
<1>8. CASE onChannelError(c)
  <2> DEFINE r == [chan[c] EXCEPT !.onError = "none"]
  <2>1. /\ r \in Channel /\ r.broken /\ r.pending = <<>> /\ r.onError = "none"
        /\ ~r.consumer
    BY <1>1, <1>2, <1>8 DEF Channel, OnError, onChannelError
  <2>2. \/ EnterEnd([chan EXCEPT ![c] = r])
        \/ /\ Ignored([chan EXCEPT ![c] = r])
           /\ chan[c].onError \in DOMAIN OpenedIn /\ m_state # OpenedIn[chan[c].onError]
    BY <1>8 DEF onChannelError
  <2> HIDE DEF r
  <2>3. ASSUME Ignored([chan EXCEPT ![c] = r]), m_state # OpenedIn[chan[c].onError] PROVE Survives
    <3>1. m_state = "eCreateChannel" => c # m_channel
      BY <1>4, <2>3 DEF OpenedIn
    <3> QED
      BY <1>6, <2>1, <2>3, <3>1
  <2> QED
    BY <1>3, <2>2, <2>3, Reached
<1> QED
  BY <1>7, <1>8

\* A channel that works fails on the check of its queue only when it is absent.
LEMMA SurvivesEnvironment ==
  ASSUME Alone, ChannelInv, BrokerInv, SurviveInv,
         (\E c \in Channels : BreakChannel(c)) \/ BreakConnection \/ OthersDeclare
  PROVE  Survives
<1>1. UNCHANGED <<named, m_listener, m_state, m_channel, m_queueExist, queue>>
      /\ ~OthersDeclare
  BY DEF BreakChannel, BreakConnection, OthersDeclare, config, memory, broker, Alone
<1>2. CASE BreakConnection
  <2>1. ~connUp'
    BY <1>2 DEF BreakConnection
  <2>2. ASSUME m_state = "eCreateChannel" PROVE chan'[m_channel].onError = "create"
    <3>1. m_channel \in Channels /\ chan[m_channel] \in Channel
      BY <2>2, Current DEF ChannelInv, TypeOK
    <3>2. chan'[m_channel] = [chan[m_channel] EXCEPT !.broken = TRUE]
      BY <1>2, <3>1 DEF BreakConnection
    <3> QED
      BY <2>2, <3>1, <3>2 DEF SurviveInv, Channel
  <2> QED
    BY <1>1, <2>1, <2>2 DEF SurviveInv, Survives
<1>3. ASSUME NEW c \in Channels, BreakChannel(c) PROVE Survives
  <2> DEFINE r == [chan[c] EXCEPT !.broken = TRUE]
  <2>1. chan' = [chan EXCEPT ![c] = r] /\ UNCHANGED connUp
    BY <1>3 DEF BreakChannel
  <2>2. chan[c] \in Channel /\ chan \in [Channels -> Channel]
    BY DEF ChannelInv, TypeOK
  <2>3. r.pending = chan[c].pending /\ r.onError = chan[c].onError
    BY <2>2 DEF Channel
  <2> HIDE DEF r
  <2>4. m_state = "eCreateChannel" => chan'[m_channel].onError = "create"
    BY <2>1, <2>2, <2>3, Current DEF SurviveInv
  <2>5. ASSUME m_state = "eCheckQueue", chan'[m_channel].broken, connUp,
               "checkQueue" \in Ops(chan'[m_channel])
        PROVE  queue # "existing"
    <3>1. m_channel \in Channels
      BY <2>5, Current
    <3>2. CASE c # m_channel
      BY <2>1, <2>2, <2>5, <3>1, <3>2 DEF SurviveInv, Ops
    <3>3. CASE c = m_channel
      <4>1. chan[c].pending \in {<<"checkQueue">>, <<"openCreate", "checkQueue">>,
                                 <<"openRecreate", "checkQueue">>}
        BY <1>3, <2>5, <3>3, StageNames DEF BreakChannel, BrokerInv, ShapeInv, Shape
      <4>2. chan[c].pending # <<>> /\ Head(chan[c].pending) \in {"checkQueue", "openCreate", "openRecreate"}
        BY <4>1
      <4>3. Head(chan[c].pending) = "checkQueue"
        BY <1>3, <4>2 DEF BreakChannel, Answers, Openings
      <4>4. Answers(c, "checkQueue")
        BY <1>3, <4>2, <4>3 DEF BreakChannel, Answers
      <4> QED
        BY <1>3, <4>4 DEF BreakChannel, Alone
    <3> QED
      BY <3>2, <3>3
  <2> QED
    BY <1>1, <2>1, <2>4, <2>5 DEF SurviveInv, Survives
<1> QED
  BY <1>1, <1>2, <1>3

LEMMA SurviveStep ==
  ASSUME Alone, ChannelInv, BrokerInv, SurviveInv, [Next]_vars
  PROVE  SurviveInv'
<1>1. CASE Next
  <2>1. Survives
    BY <1>1, SurvivesCalls, SurvivesReady, SurvivesDeclarations, SurvivesRegistration,
       SurvivesUndone, SurvivesRequestError, SurvivesReport, SurvivesEnvironment
       DEF Next, Success, Report
  <2> QED
    BY <2>1 DEF Survives
<1>2. CASE UNCHANGED vars
  BY <1>2 DEF vars, config, memory, broker, SurviveInv
<1> QED
  BY <1>1, <1>2

LEMMA SurviveInit == Init => SurviveInv
BY DEF Init, InitialState, SurviveInv, Relying

\* A queue that was there before is not removed, unless the broker refuses to
\* show it or another client declares it in the middle of a start.
THEOREM ExistingQueueSurvivesHolds ==
  ASSUME Interference \cap {"othersDeclare", "checkRefused"} = {}
  PROVE  Spec => ExistingQueueSurvives
<1>1. Alone
  BY DEF Alone
<1>2. ChannelInv /\ BrokerInv /\ SurviveInv /\ [Next]_vars => SurviveInv'
  BY <1>1, SurviveStep
<1>3. Spec => []SurviveInv
  BY <1>2, SurviveInit, Records, PTL DEF Spec
<1>4. ASSUME ChannelInv, BrokerInv, SurviveInv, Next, queue = "existing"
      PROVE  queue' = "existing"
  <2>1. ~\E c \in Channels : onQueueRemoved(c)
    <3> SUFFICES ASSUME NEW c \in Channels, onQueueRemoved(c) PROVE FALSE
      OBVIOUS
    <3>1. chan[c].pending # <<>> /\ Head(chan[c].pending) = "removeQueue" /\ connUp
      BY DEF onQueueRemoved, Answers
    <3>2. m_state = "eRemoveQueue"
      BY <1>4, <3>1, Popping, Names
    <3>3. m_listener
      BY <1>4, <3>2 DEF ChannelInv, RoleInv, ReceiverState
    <3> QED
      BY <1>4, <3>1, <3>2, <3>3 DEF SurviveInv, Relying, BrokerInv, QueueInv
  <2> QED
    BY <1>4, <2>1
       DEF Next, start, stop, drop, Success, Report, onReady, onQueueChecked, onExchangeDeclared,
           onQueueDeclared, onQueueBound, onConsuming, onCancelled, onQueueUnbound,
           onChannelClosed, onRequestError, onConsumerError, onChannelError, BreakChannel,
           BreakConnection, OthersDeclare, broker, SurviveInv
<1>5. ChannelInv /\ BrokerInv /\ SurviveInv /\ [Next]_vars => [queue = "existing" => queue' = "existing"]_vars
  BY <1>4
<1> QED
  BY <1>3, <1>5, Records, PTL DEF Spec, ExistingQueueSurvives

-----------------------------------------------------------------------------
(* A machine that is ready, when channels are served in turn.              *)

InTurns == "slowChannels" \notin Interference

\* The states that are reached through an answer on the current channel.
Settled == {"eCreateQueue", "eBindQueue", "eCreateConsumer", "eReady", "eShutdown"}

\* Every other channel is done.
SoleInv == m_state \in Settled => \A d \in Channels \ {m_channel} : Spent(chan[d])

\* The current channel is not the one that was dropped.
HeldInv == m_state # "eEnd" => "discard" \notin Ops(chan[m_channel])

TurnInv ==
  /\ SoleInv
  /\ HeldInv
  /\ m_state = "eCreateConsumer" => bound
  /\ ReadyIsComplete

LEMMA EntersHeld ==
  ASSUME NEW chs \in [Channels -> Channel], m_channel \in Channels, "discard" \notin Ops(chs[m_channel]),
         \/ EnterCreateChannel(chs) \/ EnterRecreateChannel(chs) \/ EnterCheckQueue(chs)
         \/ EnterCreateExchange(chs) \/ EnterCreateQueue(chs) \/ EnterBindQueue(chs)
         \/ EnterCreateConsumer(chs) \/ EnterReady(chs) \/ EnterShutdown(chs)
         \/ EnterUnbindQueue(chs) \/ EnterRemoveQueue(chs) \/ EnterCloseChannel(chs)
         \/ EnterEnd(chs)
         \/ \E op \in {"unbindQueue", "removeQueue"} : Enter(m_state, Ask(chs, op))
  PROVE  HeldInv'
<1>1. ASSUME NEW op \in Request \ {"discard"}, NEW state, Enter(state, Ask(chs, op)) PROVE HeldInv'
  <2> DEFINE r == Asked(chs[m_channel], op)
  <2>1. Ops(r) = Ops(chs[m_channel]) \cup {op}
    BY AskedChannel
  <2>2. chan' = [chs EXCEPT ![m_channel] = r] /\ m_channel' = m_channel
    BY <1>1 DEF Enter, Ask
  <2> HIDE DEF r
  <2> QED
    BY <1>1, <2>1, <2>2 DEF HeldInv
<1>2. ASSUME NEW op \in Openings, NEW closure, NEW state, Reopen(state, chs, op, closure)
      PROVE  HeldInv'
  <2>1. Ops(chan'[m_channel']) = {op} /\ op # "discard"
    BY <1>2, Replacing DEF Openings
  <2> QED
    BY <2>1 DEF HeldInv
<1>3. \A op \in Request \ {"discard"} : op \in Request
  OBVIOUS
<1>4. /\ {"openCreate", "openRecreate", "openUnbind", "openRemove"} \subseteq Openings
      /\ {"checkQueue", "declareExchange", "declareQueue", "bindQueue", "consume", "cancel",
          "unbindQueue", "removeQueue", "close"} \subseteq Request \ {"discard"}
  BY DEF Openings, Request, Guarded, Unguarded
<1>5. ASSUME EnterReady(chs) PROVE HeldInv'
  <2> DEFINE r == [chs[m_channel] EXCEPT !.onError = "ready"]
  <2>1. chan' \in {chs, Install(chs, "ready")} /\ m_channel' = m_channel
    BY <1>5 DEF EnterReady, Enter
  <2>2. Install(chs, "ready") = [chs EXCEPT ![m_channel] = r] /\ r.pending = chs[m_channel].pending
    BY DEF Install, Channel
  <2> HIDE DEF r
  <2> QED
    BY <2>1, <2>2 DEF HeldInv, Ops
<1>6. ASSUME EnterEnd(chs) PROVE HeldInv'
  BY <1>6, Reached DEF HeldInv
<1>7. ASSUME EnterCreateChannel(chs) \/ EnterRecreateChannel(chs) PROVE HeldInv'
  BY <1>2, <1>4, <1>7 DEF EnterCreateChannel, EnterRecreateChannel
<1>8. ASSUME EnterCreateExchange(chs) PROVE HeldInv'
  BY <1>1, <1>4, <1>8 DEF EnterCreateExchange
<1>9. ASSUME EnterCheckQueue(chs) PROVE HeldInv'
  BY <1>1, <1>4, <1>8, <1>9 DEF EnterCheckQueue
<1>10. ASSUME EnterBindQueue(chs) PROVE HeldInv'
  BY <1>1, <1>4, <1>10 DEF EnterBindQueue
<1>11. ASSUME EnterCreateQueue(chs) PROVE HeldInv'
  BY <1>1, <1>4, <1>10, <1>11 DEF EnterCreateQueue
<1>12. ASSUME EnterCreateConsumer(chs) PROVE HeldInv'
  BY <1>1, <1>4, <1>12 DEF EnterCreateConsumer
<1>13. ASSUME EnterCloseChannel(chs) PROVE HeldInv'
  BY <1>1, <1>4, <1>13 DEF EnterCloseChannel
<1>14. ASSUME EnterUnbindQueue(chs) PROVE HeldInv'
  BY <1>2, <1>4, <1>13, <1>14 DEF EnterUnbindQueue
<1>15. ASSUME EnterRemoveQueue(chs) PROVE HeldInv'
  BY <1>2, <1>4, <1>13, <1>15 DEF EnterRemoveQueue
<1>16. ASSUME EnterShutdown(chs) PROVE HeldInv'
  BY <1>1, <1>4, <1>13, <1>14, <1>16 DEF EnterShutdown
<1>17. ASSUME NEW op \in {"unbindQueue", "removeQueue"}, Enter(m_state, Ask(chs, op)) PROVE HeldInv'
  BY <1>1, <1>4, <1>17
<1> QED
  BY <1>5, <1>6, <1>7, <1>8, <1>9, <1>10, <1>11, <1>12, <1>13, <1>14, <1>15, <1>16, <1>17

LEMMA TurnAside ==
  ASSUME HeldInv', m_state' \notin Settled
  PROVE  TurnInv'
BY DEF TurnInv, SoleInv, ReadyIsComplete, Settled

\* A channel that is not done is the current one.
LEMMA SettledHere ==
  ASSUME SoleInv, m_state \in Settled, NEW c \in Channels,
         chan[c].pending # <<>> \/ chan[c].consumer \/ chan[c].onError # "none"
  PROVE  c = m_channel
BY DEF SoleInv, Spent

LEMMA EntersSole ==
  ASSUME NEW chs \in [Channels -> Channel], m_channel \in Channels,
         \A d \in Channels \ {m_channel} : Spent(chs[d]),
         \/ EnterCreateQueue(chs) \/ EnterBindQueue(chs) \/ EnterCreateConsumer(chs)
         \/ EnterReady(chs) \/ EnterShutdown(chs)
  PROVE  SoleInv'
<1>1. ASSUME NEW op, NEW state, Enter(state, Ask(chs, op)) PROVE SoleInv'
  BY <1>1 DEF Enter, Ask, SoleInv
<1>2. ASSUME EnterReady(chs) PROVE SoleInv'
  BY <1>2 DEF EnterReady, Enter, Install, SoleInv
<1>3. ASSUME m_state' \in {"eUnbindQueue", "eCloseChannel"} PROVE SoleInv'
  BY <1>3 DEF SoleInv, Settled
<1>4. ASSUME EnterUnbindQueue(chs) \/ EnterCloseChannel(chs) PROVE SoleInv'
  BY <1>3, <1>4, Reached
<1> QED
  BY <1>1, <1>2, <1>4
     DEF EnterCreateQueue, EnterBindQueue, EnterCreateConsumer, EnterShutdown

LEMMA TurnIgnored ==
  ASSUME ChannelInv, TurnInv, BrokerInv', UNCHANGED m_listener, bound => bound',
         NEW chs, Shrunk(chs), Ignored(chs),
         m_state \in Settled => \A d \in Channels : Spent(chan[d]) => Spent(chs[d]),
         m_state = "eReady" => /\ chan[m_channel].consumer => chs[m_channel].consumer
                               /\ chs[m_channel].onError = chan[m_channel].onError
  PROVE  TurnInv'
<1>1. chan' = chs /\ UNCHANGED <<m_state, m_channel, m_consumerTag>>
  BY DEF Ignored, memory
<1>2. SoleInv'
  BY <1>1 DEF TurnInv, SoleInv
<1>3. HeldInv'
  BY <1>1, Current DEF TurnInv, HeldInv, Shrunk
<1>4. ReadyIsComplete'
  BY <1>1 DEF TurnInv, ReadyIsComplete, BrokerInv, QueueInv
<1> QED
  BY <1>1, <1>2, <1>3, <1>4 DEF TurnInv

LEMMA TurnPopped ==
  ASSUME ChannelInv, TurnInv, BrokerInv', UNCHANGED m_listener, bound => bound',
         NEW c \in Channels, chan[c].pending # <<>>, Ignored(Popped(c))
  PROVE  TurnInv'
<1>1. Shrunk(Popped(c)) /\ \A d \in Channels : Same(chan[d], Popped(c)[d])
  BY Popping
<1>2. \A d \in Channels \ {c} : Popped(c)[d] = chan[d]
  BY DEF Popped, ChannelInv, TypeOK
<1>3. ~Spent(chan[c])
  BY DEF Spent
<1>4. \A d \in Channels : Spent(chan[d]) => Spent(Popped(c)[d])
  BY <1>2, <1>3
<1>5. m_state = "eReady" => m_channel \in Channels
  BY Current
<1> QED
  BY <1>1, <1>4, <1>5, TurnIgnored DEF Same

LEMMA TurnCalls ==
  ASSUME ChannelInv, TurnInv,
         (\E connection \in BOOLEAN : start(connection)) \/ stop \/ drop
  PROVE  TurnInv'
<1>1. ASSUME NEW connection \in BOOLEAN, start(connection) PROVE TurnInv'
  <2>1. CASE EnterCreateChannel(chan)
    <3>1. m_state' = "eCreateChannel" /\ Ops(chan'[m_channel']) = {"openCreate"}
      BY <2>1, Replacing DEF EnterCreateChannel, Openings, ChannelInv, TypeOK
    <3> QED
      BY <3>1, TurnAside DEF HeldInv, Settled
  <2>2. CASE m_state' = "eEnd"
    BY <2>2, TurnAside DEF HeldInv, Settled
  <2> QED
    BY <1>1, <2>1, <2>2 DEF start
<1>2. CASE stop
  <2>1. m_channel \in Channels /\ "discard" \notin Ops(chan[m_channel]) /\ chan \in [Channels -> Channel]
    BY <1>2, Current DEF stop, StopTransit, Starting, TurnInv, HeldInv, ChannelInv, TypeOK
  <2>2. HeldInv'
    BY <1>2, <2>1, EntersHeld DEF stop
  <2>3. CASE EnterShutdown(chan) /\ m_state = "eReady"
    <3>1. SoleInv'
      BY <2>1, <2>3, EntersSole DEF TurnInv, SoleInv, Settled
    <3>2. m_state' \notin {"eReady", "eCreateConsumer"}
      BY <2>3, Reached
    <3> QED
      BY <2>2, <3>1, <3>2 DEF TurnInv, ReadyIsComplete
  <2>4. CASE m_state' \notin Settled
    BY <2>2, <2>4, TurnAside
  <2>5. StopTransit[m_state] = "eShutdown" => m_state = "eReady"
    BY <1>2 DEF stop, StopTransit, Starting
  <2> QED
    BY <1>2, <2>3, <2>4, <2>5, Reached DEF stop, Settled
<1>3. CASE drop
  BY <1>3, TurnAside DEF drop, End, HeldInv, Settled
<1> QED
  BY <1>1, <1>2, <1>3

LEMMA TurnReady ==
  ASSUME ChannelInv, BrokerInv', TurnInv, NEW c \in Channels, onReady(c)
  PROVE  TurnInv'
<1>1. UNCHANGED <<m_listener, bound>> /\ chan[c].pending # <<>>
  BY DEF onReady, Answers, config, broker
<1>2. CASE Ignored(Popped(c))
  BY <1>1, <1>2, TurnPopped
<1>3. CASE \/ /\ m_state \in {"eCreateChannel", "eRecreateChannel"}
              /\ EnterCheckQueue(Ready(c)) \/ EnterCreateExchange(Ready(c))
           \/ /\ m_state \in {"eUnbindQueue", "eRemoveQueue"}
              /\ \E op \in {"unbindQueue", "removeQueue"} : Enter(m_state, Ask(Ready(c), op))
  <2>1. m_channel \in Channels /\ "discard" \notin Ops(chan[m_channel])
    BY <1>3, Current DEF TurnInv, HeldInv
  <2>2. Shrunk(Ready(c))
    BY <1>1, <2>1, Popping, Installing DEF Ready
  <2>3. HeldInv'
    BY <1>3, <2>1, <2>2, EntersHeld DEF Shrunk
  <2>4. \A op, chs : Enter(m_state, Ask(chs, op)) => m_state' = m_state
    BY DEF Enter
  <2>5. m_state' \in {"eCheckQueue", "eCreateExchange", "eUnbindQueue", "eRemoveQueue"}
    BY <1>3, <2>4, Reached
  <2> QED
    BY <2>3, <2>5, TurnAside DEF Settled
<1> QED
  BY <1>2, <1>3 DEF onReady, In

LEMMA TurnDeclarations ==
  ASSUME InTurns, ChannelInv, BrokerInv, BrokerInv', TurnInv, NEW c \in Channels,
         onQueueChecked(c) \/ onExchangeDeclared(c) \/ onQueueDeclared(c)
  PROVE  TurnInv'
<1>1. UNCHANGED <<m_listener, bound>> /\ chan[c].pending # <<>>
  BY DEF onQueueChecked, onExchangeDeclared, onQueueDeclared, Answers, config, broker
<1>2. CASE Ignored(Popped(c))
  BY <1>1, <1>2, TurnPopped
<1>3. ASSUME NEW op \in Stage, Answers(c, op), m_state # "eCloseChannel"
      PROVE  /\ m_channel \in Channels
             /\ Popped(c) \in [Channels -> Channel]
             /\ "discard" \notin Ops(Popped(c)[m_channel])
             /\ \A d \in Channels \ {m_channel} : Spent(Popped(c)[d])
  <2>1. m_state = Issuer[op] /\ c = m_channel
    BY <1>3, StagePopped DEF BrokerInv
  <2>2. Shrunk(Popped(c)) /\ m_state # "eEnd"
    BY <1>1, <2>1, Popping, StageNames
  <2>3. \A d \in Channels \ {c} : Spent(chan[d])
    BY <1>3, <2>1 DEF Answers, InTurn, InTurns
  <2>4. \A d \in Channels \ {c} : Popped(c)[d] = chan[d]
    BY DEF Popped, ChannelInv, TypeOK
  <2> QED
    BY <2>1, <2>2, <2>3, <2>4 DEF Shrunk, TurnInv, HeldInv
<1>4. CASE onQueueChecked(c) /\ m_state = "eCheckQueue"
  <2>1. EnterCreateExchange(Popped(c)) /\ Answers(c, "checkQueue")
    BY <1>4 DEF onQueueChecked, In
  <2>2. HeldInv'
    BY <1>3, <1>4, <2>1, StageNames, EntersHeld
  <2> QED
    BY <2>1, <2>2, Reached, TurnAside DEF Settled
<1>5. CASE onExchangeDeclared(c) /\ m_state = "eCreateExchange"
  <2>1. /\ Answers(c, "declareExchange")
        /\ IF m_listener THEN EnterCreateQueue(Popped(c)) ELSE EnterReady(Popped(c))
    BY <1>5 DEF onExchangeDeclared, In
  <2>2. /\ m_channel \in Channels
        /\ Popped(c) \in [Channels -> Channel]
        /\ "discard" \notin Ops(Popped(c)[m_channel])
        /\ \A d \in Channels \ {m_channel} : Spent(Popped(c)[d])
    BY <1>3, <1>5, <2>1, StageNames
  <2>3. HeldInv' /\ SoleInv'
    BY <2>1, <2>2, EntersHeld, EntersSole
  <2>4. CASE m_listener
    BY <2>1, <2>3, <2>4, Reached DEF TurnInv, ReadyIsComplete
  <2>5. CASE ~m_listener
    <3>1. m_state' = "eReady" /\ m_channel' = m_channel /\ chan' = Install(Popped(c), "ready")
      BY <2>1, <2>5 DEF EnterReady, Enter
    <3>2. chan'[m_channel].onError = "ready"
      BY <2>2, <3>1 DEF Install, Channel
    <3> QED
      BY <1>1, <2>3, <2>5, <3>1, <3>2 DEF TurnInv, ReadyIsComplete
  <2> QED
    BY <2>4, <2>5
<1>6. CASE onQueueDeclared(c) /\ m_state = "eCreateQueue"
  <2>1. EnterBindQueue(Popped(c)) /\ Answers(c, "declareQueue")
    BY <1>6 DEF onQueueDeclared, In
  <2>2. HeldInv' /\ SoleInv'
    BY <1>3, <1>6, <2>1, StageNames, EntersHeld, EntersSole
  <2> QED
    BY <2>1, <2>2, Reached DEF TurnInv, ReadyIsComplete
<1> QED
  BY <1>2, <1>4, <1>5, <1>6 DEF onQueueChecked, onExchangeDeclared, onQueueDeclared, In

LEMMA TurnBound ==
  ASSUME ChannelInv, BrokerInv', TurnInv, NEW c \in Channels, onQueueBound(c)
  PROVE  TurnInv'
<1>1. UNCHANGED m_listener /\ bound' /\ chan[c].pending # <<>>
  BY DEF onQueueBound, Answers, config
<1>2. CASE Ignored(Popped(c))
  BY <1>1, <1>2, TurnPopped
<1>3. CASE m_state = "eBindQueue" /\ EnterCreateConsumer(Popped(c))
  <2>1. /\ m_channel \in Channels /\ "discard" \notin Ops(chan[m_channel])
        /\ \A d \in Channels \ {m_channel} : Spent(chan[d])
    BY <1>3, Current DEF TurnInv, HeldInv, SoleInv, Settled
  <2>2. c = m_channel
    BY <1>1, <2>1 DEF Spent
  <2>3. Shrunk(Popped(c)) /\ \A d \in Channels \ {c} : Popped(c)[d] = chan[d]
    BY <1>1, Popping DEF Popped, ChannelInv, TypeOK
  <2>4. HeldInv' /\ SoleInv'
    BY <1>3, <2>1, <2>2, <2>3, EntersHeld, EntersSole DEF Shrunk
  <2> QED
    BY <1>1, <1>3, <2>4, Reached DEF TurnInv, ReadyIsComplete
<1> QED
  BY <1>2, <1>3 DEF onQueueBound, In

LEMMA TurnConsuming ==
  ASSUME ChannelInv, BrokerInv', TurnInv, NEW c \in Channels, onConsuming(c)
  PROVE  TurnInv'
<1> DEFINE chs == [Popped(c) EXCEPT ![c].consumer = TRUE]
<1>1. /\ UNCHANGED <<m_listener, bound>> /\ chan[c].pending # <<>>
      /\ Head(chan[c].pending) = "consume"
  BY DEF onConsuming, Answers, config, broker
<1>2. m_listener
  BY <1>1, Popping DEF ChannelInv, RoleInv
<1>3. /\ Shrunk(chs)
      /\ \A d \in Channels : /\ chs[d].onError = Popped(c)[d].onError
                             /\ chs[d].consumer = IF d = c THEN TRUE ELSE chan[d].consumer
  BY <1>1, <1>2, Registering
<1>4. /\ \A d \in Channels : Same(chan[d], Popped(c)[d])
      /\ \A d \in Channels \ {c} : Popped(c)[d] = chan[d] /\ chs[d] = chan[d]
  BY <1>1, Popping DEF Popped, ChannelInv, TypeOK
<1>5. ~Spent(chan[c])
  BY <1>1 DEF Spent
<1>6. \/ m_state = "eCreateConsumer" /\ m_consumerTag' = c /\ EnterReady(chs)
      \/ Ignored(chs)
  BY DEF onConsuming
<1> HIDE DEF chs
<1>7. CASE Ignored(chs)
  <2>1. m_state = "eReady" => m_channel \in Channels
    BY Current
  <2>2. m_state = "eReady" => /\ chan[m_channel].consumer => chs[m_channel].consumer
                              /\ chs[m_channel].onError = chan[m_channel].onError
    BY <1>3, <1>4, <2>1 DEF Same
  <2>3. \A d \in Channels : Spent(chan[d]) => Spent(chs[d])
    BY <1>4, <1>5
  <2> QED
    BY <1>1, <1>3, <1>7, <2>2, <2>3, TurnIgnored
<1>8. CASE m_state = "eCreateConsumer" /\ m_consumerTag' = c /\ EnterReady(chs)
  <2>1. /\ m_channel \in Channels /\ "discard" \notin Ops(chan[m_channel])
        /\ \A d \in Channels \ {m_channel} : Spent(chan[d])
        /\ bound
    BY <1>8, Current DEF TurnInv, HeldInv, SoleInv, Settled
  <2>2. c = m_channel
    BY <1>5, <2>1
  <2>3. HeldInv' /\ SoleInv'
    BY <1>3, <1>4, <1>8, <2>1, <2>2, EntersHeld, EntersSole DEF Shrunk
  <2>4. m_state' = "eReady" /\ m_channel' = c /\ chan' = chs
    BY <1>1, <1>2, <1>8, <2>2 DEF EnterReady, Enter
  <2>5. chan'[c].consumer
    BY <1>3, <2>4
  <2> QED
    BY <1>1, <1>2, <1>8, <2>1, <2>3, <2>4, <2>5 DEF TurnInv, ReadyIsComplete, BrokerInv, QueueInv
<1> QED
  BY <1>6, <1>7, <1>8

LEMMA TurnUndone ==
  ASSUME ChannelInv, BrokerInv', TurnInv, NEW c \in Channels,
         onCancelled(c) \/ onQueueUnbound(c) \/ onQueueRemoved(c)
  PROVE  TurnInv'
<1>1. UNCHANGED m_listener /\ chan[c].pending # <<>>
  BY DEF onCancelled, onQueueUnbound, onQueueRemoved, Answers, config
<1>2. Head(chan[c].pending) \in {"cancel", "unbindQueue", "removeQueue"}
  BY DEF onCancelled, onQueueUnbound, onQueueRemoved, Answers
<1>3. /\ c = m_channel /\ m_state \in {"eShutdown", "eUnbindQueue", "eRemoveQueue"}
      /\ Shrunk(Popped(c))
  BY <1>1, <1>2, Popping, Names
<1>4. "discard" \notin Ops(chan[m_channel]) /\ m_channel \in Channels
  BY <1>3, Current DEF TurnInv, HeldInv
<1>5. CASE onQueueUnbound(c) \/ onQueueRemoved(c)
  <2>1. EnterCloseChannel(Popped(c))
    BY <1>5 DEF onQueueUnbound, onQueueRemoved
  <2>2. HeldInv'
    BY <1>3, <1>4, <2>1, EntersHeld DEF Shrunk
  <2> QED
    BY <2>1, <2>2, Reached, TurnAside DEF Settled
<1>6. CASE onCancelled(c)
  <2> DEFINE chs == [Popped(c) EXCEPT ![c].consumer = FALSE]
  <2>1. Shrunk(chs)
    BY <1>1, Registering
  <2>2. \A d \in Channels \ {c} : chs[d] = chan[d]
    BY <1>3 DEF Popped, ChannelInv, TypeOK
  <2>3. EnterUnbindQueue(chs) \/ Ignored(chs)
    BY <1>6 DEF onCancelled
  <2>4. UNCHANGED bound
    BY <1>6 DEF onCancelled, broker
  <2>5. Head(chan[c].pending) = "cancel"
    BY <1>6 DEF onCancelled, Answers
  <2>6. m_state = "eShutdown"
    BY <1>1, <2>5, Popping, Names
  <2> HIDE DEF chs
  <2>7. CASE EnterUnbindQueue(chs)
    <3>1. HeldInv'
      BY <1>3, <1>4, <2>1, <2>7, EntersHeld DEF Shrunk
    <3> QED
      BY <2>7, <3>1, Reached, TurnAside DEF Settled
  <2>8. CASE Ignored(chs)
    <3>1. \A d \in Channels : Spent(chan[d]) => Spent(chs[d])
      BY <1>1, <2>2 DEF Spent
    <3> QED
      BY <1>1, <2>1, <2>4, <2>6, <2>8, <3>1, TurnIgnored
  <2> QED
    BY <2>3, <2>7, <2>8
<1> QED
  BY <1>5, <1>6

LEMMA TurnClosed ==
  ASSUME ChannelInv, BrokerInv', TurnInv, NEW c \in Channels, onChannelClosed(c)
  PROVE  TurnInv'
<1> DEFINE chs == [chan EXCEPT ![c] = Idle]
<1>1. UNCHANGED <<m_listener, bound>> /\ chan[c].pending # <<>>
  BY DEF onChannelClosed, Answers, config, broker
<1>2. Shrunk(chs)
  BY IdleChannel, Silencing DEF Idle
<1>3. chs[c] = Idle /\ \A d \in Channels \ {c} : chs[d] = chan[d]
  BY DEF ChannelInv, TypeOK
<1>4. CASE EnterEnd(chs)
  BY <1>4, Reached, TurnAside DEF HeldInv, Settled
<1>5. CASE Answers(c, "discard") /\ Ignored(chs)
  <2> HIDE DEF chs
  <2>1. \A d \in Channels : Spent(chan[d]) => Spent(chs[d])
    BY <1>3 DEF Spent, Idle
  <2>2. "discard" \in Ops(chan[c])
    BY <1>1, <1>5, Popping DEF Answers
  <2>3. m_state = "eReady" => m_channel \in Channels \ {c}
    BY <2>2, Current DEF TurnInv, HeldInv
  <2> QED
    BY <1>1, <1>2, <1>3, <1>5, <2>1, <2>3, TurnIgnored
<1> QED
  BY <1>4, <1>5 DEF onChannelClosed

LEMMA TurnRequestError ==
  ASSUME ChannelInv, BrokerInv', TurnInv, NEW c \in Channels, onRequestError(c)
  PROVE  TurnInv'
<1>1. /\ UNCHANGED <<m_listener, bound>> /\ chan[c].pending # <<>>
  BY DEF onRequestError, Fails, config, broker
<1>2. CASE Ignored(Popped(c))
  BY <1>1, <1>2, TurnPopped
<1>3. ASSUME EnterEnd(Popped(c)) PROVE TurnInv'
  BY <1>3, Reached, TurnAside DEF HeldInv, Settled
<1>4. ASSUME m_state # "eEnd",
             \/ EnterRecreateChannel(Popped(c)) \/ EnterCloseChannel(Popped(c))
             \/ EnterRemoveQueue(Popped(c)) \/ EnterUnbindQueue(Popped(c))
      PROVE  TurnInv'
  <2>1. m_channel \in Channels /\ "discard" \notin Ops(chan[m_channel])
    BY <1>4, Current DEF TurnInv, HeldInv
  <2>2. HeldInv'
    BY <1>1, <1>4, <2>1, Popping, EntersHeld DEF Shrunk
  <2> QED
    BY <1>4, <2>2, Reached, TurnAside DEF Settled
<1>5. Fails(c, "cancel") => m_state # "eEnd"
  BY <1>1, Popping, Names DEF Fails
<1>6. ASSUME ConsumerError(Popped(c)) PROVE TurnInv'
  BY <1>2, <1>3, <1>4, <1>6 DEF ConsumerError
<1> QED
  BY <1>2, <1>3, <1>4, <1>5, <1>6 DEF onRequestError, In

LEMMA TurnReport ==
  ASSUME ChannelInv, BrokerInv', TurnInv, NEW c \in Channels,
         onConsumerError(c) \/ onChannelError(c)
  PROVE  TurnInv'
<1>1. /\ UNCHANGED <<m_listener, bound>> /\ chan[c].broken /\ chan[c].pending = <<>>
  BY DEF onConsumerError, onChannelError, config, broker
<1>2. chan[c] \in Channel /\ chan \in [Channels -> Channel]
  BY DEF ChannelInv, TypeOK
<1>3. ASSUME NEW r \in Channel, r.broken, r.pending = <<>>,
             r.onError \in {chan[c].onError, "none"}, ~r.consumer
      PROVE  LET chs == [chan EXCEPT ![c] = r] IN
             /\ Shrunk(chs)
             /\ \A d \in Channels : Spent(chan[d]) => Spent(chs[d])
             /\ \A d \in Channels \ {c} : chs[d] = chan[d]
             /\ EnterUnbindQueue(chs) /\ m_state # "eEnd" => TurnInv'
             /\ EnterEnd(chs) => TurnInv'
  <2> DEFINE chs == [chan EXCEPT ![c] = r]
  <2>1. Ops(r) = {} /\ OneLast(r.pending)
    BY <1>3 DEF Ops, Elements, OneLast
  <2>2. Shrunk(chs)
    BY <1>3, <2>1, Silencing
  <2>3. chs[c] = r /\ \A d \in Channels \ {c} : chs[d] = chan[d]
    BY <1>2
  <2> HIDE DEF chs
  <2>4. \A d \in Channels : Spent(chan[d]) => Spent(chs[d])
    BY <1>3, <2>3 DEF Spent
  <2>5. ASSUME EnterUnbindQueue(chs), m_state # "eEnd" PROVE TurnInv'
    <3>1. m_channel \in Channels /\ "discard" \notin Ops(chan[m_channel])
      BY <2>5, Current DEF TurnInv, HeldInv
    <3>2. HeldInv'
      BY <2>2, <2>5, <3>1, EntersHeld DEF Shrunk
    <3> QED
      BY <2>5, <3>2, Reached, TurnAside DEF Settled
  <2>6. ASSUME EnterEnd(chs) PROVE TurnInv'
    BY <2>6, Reached, TurnAside DEF HeldInv, Settled
  <2> QED
    BY <2>2, <2>3, <2>4, <2>5, <2>6 DEF chs
<1>4. CASE onConsumerError(c)
  <2> DEFINE r   == [chan[c] EXCEPT !.consumer = FALSE]
             chs == [chan EXCEPT ![c] = r]
  <2>1. /\ r \in Channel /\ r.broken /\ r.pending = <<>> /\ r.onError = chan[c].onError
        /\ ~r.consumer
    BY <1>1, <1>2 DEF Channel
  <2>2. ConsumerError(chs)
    BY <1>4 DEF onConsumerError
  <2>3. /\ Shrunk(chs)
        /\ \A d \in Channels : Spent(chan[d]) => Spent(chs[d])
        /\ EnterUnbindQueue(chs) /\ m_state # "eEnd" => TurnInv'
        /\ EnterEnd(chs) => TurnInv'
    BY <1>3, <2>1
  <2> HIDE DEF chs
  <2>4. CASE Ignored(chs) /\ m_state # "eReady"
    BY <1>1, <2>3, <2>4, TurnIgnored
  <2> QED
    BY <2>2, <2>3, <2>4 DEF ConsumerError
<1>5. CASE onChannelError(c)
  <2> DEFINE r   == [chan[c] EXCEPT !.onError = "none"]
             chs == [chan EXCEPT ![c] = r]
  <2>1. ~chan[c].consumer
    BY <1>5 DEF onChannelError
  <2>2. /\ r \in Channel /\ r.broken /\ r.pending = <<>> /\ r.onError = "none"
        /\ ~r.consumer
    BY <1>1, <1>2, <2>1 DEF Channel, OnError
  <2>3. \/ EnterEnd(chs)
        \/ chan[c].onError \in DOMAIN OpenedIn /\ Ignored(chs)
    BY <1>5 DEF onChannelError
  <2>4. /\ Shrunk(chs)
        /\ \A d \in Channels : Spent(chan[d]) => Spent(chs[d])
        /\ \A d \in Channels \ {c} : chs[d] = chan[d]
        /\ EnterEnd(chs) => TurnInv'
    BY <1>3, <2>2
  <2> HIDE DEF chs
  <2>5. CASE chan[c].onError \in DOMAIN OpenedIn /\ Ignored(chs)
    <3>1. m_state = "eReady" => m_channel \in Channels
      BY Current
    <3>2. m_state = "eReady" => c # m_channel
      BY <2>1, <2>5 DEF TurnInv, ReadyIsComplete, OpenedIn
    <3>3. m_state = "eReady" => chs[m_channel] = chan[m_channel]
      BY <2>4, <3>1, <3>2
    <3> QED
      BY <1>1, <2>4, <2>5, <3>3, TurnIgnored
  <2> QED
    BY <2>3, <2>4, <2>5
<1> QED
  BY <1>4, <1>5

LEMMA TurnEnvironment ==
  ASSUME ChannelInv, BrokerInv', TurnInv,
         (\E c \in Channels : BreakChannel(c)) \/ BreakConnection \/ OthersDeclare
  PROVE  TurnInv'
<1>1. UNCHANGED <<m_listener, m_state, m_channel, m_consumerTag, bound>>
  BY DEF BreakChannel, BreakConnection, OthersDeclare, config, memory, broker
<1> DEFINE broke(d) == [chan[d] EXCEPT !.broken = TRUE]
<1>2. ASSUME NEW d \in Channels
      PROVE  /\ broke(d).pending = chan[d].pending /\ broke(d).onError = chan[d].onError
             /\ broke(d).consumer = chan[d].consumer
  BY DEF ChannelInv, TypeOK, Channel
<1> HIDE DEF broke
<1>3. \A d \in Channels : chan'[d] = chan[d] \/ chan'[d] = broke(d)
  <2>1. ASSUME NEW c \in Channels, BreakChannel(c)
        PROVE  chan' = [chan EXCEPT ![c] = broke(c)]
    BY <2>1 DEF BreakChannel, broke
  <2>2. ASSUME BreakConnection PROVE chan' = [d \in Channels |-> broke(d)]
    BY <2>2 DEF BreakConnection, broke
  <2>3. ASSUME OthersDeclare PROVE chan' = chan
    BY <2>3 DEF OthersDeclare
  <2>4. chan \in [Channels -> Channel]
    BY DEF ChannelInv, TypeOK
  <2> QED
    BY <2>1, <2>2, <2>3, <2>4
<1>4. \A d \in Channels : /\ chan'[d].pending = chan[d].pending /\ chan'[d].onError = chan[d].onError
                          /\ chan'[d].consumer = chan[d].consumer
  BY <1>2, <1>3
<1>5. SoleInv'
  BY <1>1, <1>4 DEF TurnInv, SoleInv, Spent
<1>6. HeldInv'
  BY <1>1, <1>4, Current DEF TurnInv, HeldInv, Ops
<1>7. ReadyIsComplete'
  BY <1>1, <1>4, Current DEF TurnInv, ReadyIsComplete, BrokerInv, QueueInv
<1> QED
  BY <1>1, <1>5, <1>6, <1>7 DEF TurnInv

LEMMA TurnStep ==
  ASSUME InTurns, ChannelInv, BrokerInv, BrokerInv', TurnInv, [Next]_vars
  PROVE  TurnInv'
<1>1. CASE Next
  BY <1>1, TurnCalls, TurnReady, TurnDeclarations, TurnBound, TurnConsuming, TurnUndone,
     TurnClosed, TurnRequestError, TurnReport, TurnEnvironment
     DEF Next, Success, Report
<1>2. CASE UNCHANGED vars
  BY <1>2 DEF vars, config, memory, broker, TurnInv, SoleInv, HeldInv, ReadyIsComplete
<1> QED
  BY <1>1, <1>2

\* Served in turn, the machine meets its own channel in the states that follow
\* the answer to a declaration.
THEOREM Turns ==
  ASSUME "slowChannels" \notin Interference
  PROVE  Spec => []TurnInv
<1>1. InTurns
  BY DEF InTurns
<1>2. Init => TurnInv
  BY DEF Init, InitialState, TurnInv, SoleInv, HeldInv, ReadyIsComplete, Settled
<1>3. ChannelInv /\ BrokerInv /\ (ChannelInv /\ BrokerInv)' /\ TurnInv /\ [Next]_vars => TurnInv'
  BY <1>1, TurnStep
<1> QED
  BY <1>2, <1>3, Records, PTL DEF Spec

\* A transceiver that calls itself ready is: the receiver has its consumer, its
\* tag and its bound queue, the sender its closure, and all on one channel.
THEOREM ReadyIsCompleteHolds ==
  ASSUME "slowChannels" \notin Interference
  PROVE  Spec => []ReadyIsComplete
BY Turns, PTL DEF TurnInv

\* The messages the application gets come on the channel that acknowledges them.
THEOREM OwnDeliveriesHolds ==
  ASSUME "slowChannels" \notin Interference
  PROVE  Spec => []OwnDeliveries
<1>1. TurnInv => OwnDeliveries
  BY SettledHere DEF TurnInv, OwnDeliveries, Received, Settled
<1> QED
  BY <1>1, Turns, PTL

-----------------------------------------------------------------------------
(* A binding that is undone, when channels are served in turn.             *)

Tidying == {"eUnbindQueue", "eRemoveQueue"}

\* A request to bind can still succeed.
Binding(chs) == \E d \in Channels : "bindQueue" \in Ops(chs[d]) /\ ~chs[d].broken

\* Where the first run may be when its queue is bound, or may still be.
BindPlace ==
  \/ m_state = "eBindQueue" /\ ~bound
  \/ m_state \in {"eCreateConsumer", "eReady", "eShutdown", "eEnd"} \cup Tidying
  \/ m_state = "eCloseChannel" /\ m_queueExist /\ stoppedIn = "eBindQueue"

BindInv ==
  /\ starts = 0 => m_state = "eEnd" /\ \A c \in Channels : Spent(chan[c])
  /\ bound \/ (\E c \in Channels : "bindQueue" \in Ops(chan[c])) => m_listener
  /\ m_state \in Tidying => "bindQueue" \notin Ops(chan[m_channel])
  /\ starts = 1 /\ (bound \/ Binding(chan)) => BindPlace

Other == Request \ {"bindQueue"}

LEMMA OtherKept ==
  ASSUME NEW chs, NEW X, Kept(chs, X), X \subseteq Other
  PROVE  Kept(chs, Other)
BY DEF Kept

LEMMA EntersOther ==
  ASSUME NEW chs \in [Channels -> Channel], m_channel \in Channels,
         \/ EnterCreateChannel(chs) \/ EnterRecreateChannel(chs) \/ EnterCheckQueue(chs)
         \/ EnterCreateExchange(chs) \/ (EnterCreateQueue(chs) /\ ~m_queueExist)
         \/ EnterCreateConsumer(chs) \/ EnterReady(chs) \/ EnterShutdown(chs)
         \/ EnterUnbindQueue(chs) \/ EnterRemoveQueue(chs) \/ EnterCloseChannel(chs)
         \/ EnterEnd(chs)
  PROVE  /\ Kept(chs, Other)
         /\ m_state' \in Tidying => "bindQueue" \notin Ops(chan'[m_channel'])
<1> DEFINE Goal == /\ Kept(chs, Other)
                   /\ m_state' \in Tidying => "bindQueue" \notin Ops(chan'[m_channel'])
<1>1. ASSUME NEW op \in Other, NEW state, state \notin Tidying, Enter(state, Ask(chs, op)) PROVE Goal
  <2>1. Kept(chs, {op}) /\ m_state' = state
    BY <1>1, Asking DEF Other
  <2> QED
    BY <1>1, <2>1, OtherKept
<1>2. ASSUME NEW op \in Openings, NEW closure, NEW state, Reopen(state, chs, op, closure)
      PROVE  Goal
  <2>1. Kept(chs, {op}) /\ Ops(chan'[m_channel']) = {op}
    BY <1>2, Replacing
  <2>2. op \in Other /\ op # "bindQueue"
    BY DEF Openings, Other, Request, Guarded
  <2> QED
    BY <2>1, <2>2, OtherKept
<1>3. {"openCreate", "openRecreate", "openUnbind", "openRemove"} \subseteq Openings
  BY DEF Openings
<1>4. {"checkQueue", "declareExchange", "declareQueue", "consume", "cancel", "close"} \subseteq Other
  BY DEF Other, Request, Guarded, Unguarded
<1>5. {"eCheckQueue", "eCreateExchange", "eCreateQueue", "eCreateConsumer", "eReady", "eShutdown",
       "eCloseChannel", "eEnd"} \cap Tidying = {}
  BY DEF Tidying
<1>6. ASSUME EnterReady(chs) PROVE Goal
  <2> DEFINE r == [chs[m_channel] EXCEPT !.onError = "ready"]
  <2>1. chan' \in {chs, Install(chs, "ready")} /\ m_state' = "eReady"
    BY <1>6 DEF EnterReady, Enter
  <2>2. /\ Install(chs, "ready") = [chs EXCEPT ![m_channel] = r]
        /\ r.pending = chs[m_channel].pending /\ r.broken = chs[m_channel].broken
    BY DEF Install, Channel
  <2> HIDE DEF r
  <2> QED
    BY <1>5, <2>1, <2>2 DEF Kept, Ops
<1>7. ASSUME EnterEnd(chs) PROVE Goal
  <2>1. m_state' = "eEnd" /\ Kept(chs, {})
    BY <1>7, Leaving
  <2> QED
    BY <1>5, <2>1, OtherKept
<1> HIDE DEF Goal
<1>8. ASSUME EnterCreateChannel(chs) \/ EnterRecreateChannel(chs) PROVE Goal
  BY <1>2, <1>3, <1>8 DEF EnterCreateChannel, EnterRecreateChannel
<1>9. ASSUME EnterCreateExchange(chs) PROVE Goal
  BY <1>1, <1>4, <1>5, <1>9 DEF EnterCreateExchange
<1>10. ASSUME EnterCheckQueue(chs) PROVE Goal
  BY <1>1, <1>4, <1>5, <1>9, <1>10 DEF EnterCheckQueue
<1>11. ASSUME EnterCreateQueue(chs), ~m_queueExist PROVE Goal
  BY <1>1, <1>4, <1>5, <1>11 DEF EnterCreateQueue
<1>12. ASSUME EnterCreateConsumer(chs) PROVE Goal
  BY <1>1, <1>4, <1>5, <1>12 DEF EnterCreateConsumer
<1>13. ASSUME EnterCloseChannel(chs) PROVE Goal
  BY <1>1, <1>4, <1>5, <1>13 DEF EnterCloseChannel
<1>14. ASSUME EnterUnbindQueue(chs) PROVE Goal
  BY <1>2, <1>3, <1>13, <1>14 DEF EnterUnbindQueue
<1>15. ASSUME EnterRemoveQueue(chs) PROVE Goal
  BY <1>2, <1>3, <1>13, <1>15 DEF EnterRemoveQueue
<1>16. ASSUME EnterShutdown(chs) PROVE Goal
  BY <1>1, <1>4, <1>5, <1>13, <1>14, <1>16 DEF EnterShutdown
<1>17. Goal
  BY <1>6, <1>7, <1>8, <1>9, <1>10, <1>11, <1>12, <1>13, <1>14, <1>15, <1>16
<1> QED
  BY <1>17 DEF Goal

\* A step that asks for no binding.
LEMMA BindKept ==
  ASSUME BindInv, NEW chs, Shrunk(chs), Kept(chs, Other),
         UNCHANGED <<m_listener, starts>>, starts # 0, bound' => bound,
         m_state' \in Tidying => "bindQueue" \notin Ops(chan'[m_channel']),
         starts = 1 /\ BindPlace /\ (bound' \/ Binding(chs)) => BindPlace'
  PROVE  BindInv'
<1>1. \A d \in Channels : "bindQueue" \in Ops(chan'[d]) =>
        /\ "bindQueue" \in Ops(chs[d]) /\ "bindQueue" \in Ops(chan[d])
        /\ ~chan'[d].broken => (~chs[d].broken /\ ~chan[d].broken)
  BY DEF Kept, Shrunk, Other
<1>2. Binding(chan)' => Binding(chs) /\ Binding(chan)
  BY <1>1 DEF Binding
<1>3. bound' \/ (\E c \in Channels : "bindQueue" \in Ops(chan'[c])) => m_listener'
  BY <1>1 DEF BindInv
<1>4. starts' = 1 /\ (bound' \/ Binding(chan)') => BindPlace'
  BY <1>2 DEF BindInv
<1> QED
  BY <1>3, <1>4 DEF BindInv

LEMMA BindIgnored ==
  ASSUME ChannelInv, BindInv, NEW chs, Shrunk(chs), Ignored(chs),
         UNCHANGED <<m_listener, starts, stoppedIn>>, starts # 0,
         bound' => bound \/ (Binding(chan) /\ m_state # "eBindQueue")
  PROVE  BindInv'
<1>1. chan' = chs /\ UNCHANGED <<m_state, m_channel, m_queueExist>>
  BY DEF Ignored, memory
<1>2. m_state \in Tidying => m_channel \in Channels
  BY Current DEF Tidying
<1>3. Binding(chan)' => Binding(chan)
  BY <1>1 DEF Binding, Shrunk
<1>4. bound' \/ (\E c \in Channels : "bindQueue" \in Ops(chan'[c])) => m_listener'
  BY <1>1 DEF BindInv, Shrunk, Binding
<1>5. m_state' \in Tidying => "bindQueue" \notin Ops(chan'[m_channel'])
  BY <1>1, <1>2 DEF BindInv, Shrunk
<1>6. starts' = 1 /\ (bound' \/ Binding(chan)') => BindPlace'
  BY <1>1, <1>3 DEF BindInv, BindPlace
<1> QED
  BY <1>4, <1>5, <1>6 DEF BindInv

\* The queue is known where it was declared.
LEMMA QueueKnown ==
  ASSUME ChannelInv, BrokerInv, m_state \in {"eCreateConsumer", "eReady", "eShutdown"}, m_listener,
         NEW chs, EnterUnbindQueue(chs)
  PROVE  m_state' = "eUnbindQueue"
BY DEF BrokerInv, QueueInv, EnterUnbindQueue, Reopen

\* An answer or a report is of something that was outstanding.
LEMMA Begun ==
  ASSUME BindInv, NEW c \in Channels, Success(c) \/ Report(c)
  PROVE  starts # 0
<1>1. ASSUME chan[c].pending # <<>> \/ chan[c].consumer \/ chan[c].onError # "none"
      PROVE  starts # 0
  BY <1>1 DEF BindInv, Spent
<1>2. ASSUME Success(c) PROVE chan[c].pending # <<>>
  BY <1>2 DEF Success, onReady, onQueueChecked, onExchangeDeclared, onQueueDeclared,
       onQueueBound, onConsuming, onCancelled, onQueueUnbound, onQueueRemoved,
       onChannelClosed, Answers
<1>3. ASSUME onRequestError(c) PROVE chan[c].pending # <<>>
  BY <1>3 DEF onRequestError, Fails
<1>4. ASSUME onConsumerError(c) PROVE chan[c].consumer
  BY <1>4 DEF onConsumerError
<1>5. ASSUME onChannelError(c) PROVE chan[c].onError # "none"
  BY <1>5 DEF onChannelError, OpenedIn
<1> QED
  BY <1>1, <1>2, <1>3, <1>4, <1>5 DEF Report

LEMMA BindEnd ==
  ASSUME ChannelInv, BindInv, NEW chs, Shrunk(chs), EnterEnd(chs), starts # 0,
         UNCHANGED <<m_listener, starts>>, bound' => bound
  PROVE  BindInv'
<1>1. m_state' = "eEnd" /\ Kept(chs, {})
  BY Leaving DEF Shrunk, ChannelInv, TypeOK
<1>2. Kept(chs, Other)
  BY <1>1, OtherKept
<1> QED
  BY <1>1, <1>2, BindKept DEF Tidying, BindPlace

\* An entry that asks for no binding.
LEMMA BindEnters ==
  ASSUME ChannelInv, BindInv, NEW chs, Shrunk(chs), starts # 0, m_state # "eEnd",
         UNCHANGED <<m_listener, starts>>, bound' => bound,
         \/ EnterCreateChannel(chs) \/ EnterRecreateChannel(chs) \/ EnterCheckQueue(chs)
         \/ EnterCreateExchange(chs) \/ (EnterCreateQueue(chs) /\ ~m_queueExist)
         \/ EnterCreateConsumer(chs) \/ EnterReady(chs) \/ EnterShutdown(chs)
         \/ EnterUnbindQueue(chs) \/ EnterRemoveQueue(chs) \/ EnterCloseChannel(chs)
         \/ EnterEnd(chs),
         starts = 1 /\ BindPlace /\ (bound' \/ Binding(chs)) => BindPlace'
  PROVE  BindInv'
<1>1. chs \in [Channels -> Channel] /\ m_channel \in Channels
  BY Current DEF Shrunk
<1>2. /\ Kept(chs, Other)
      /\ m_state' \in Tidying => "bindQueue" \notin Ops(chan'[m_channel'])
  BY <1>1, EntersOther
<1> QED
  BY <1>2, BindKept

\* The receiver goes on to undo its binding.
LEMMA BindUndoing ==
  ASSUME ChannelInv, BrokerInv, BindInv, NEW chs, Shrunk(chs), starts # 0,
         m_state \in {"eCreateConsumer", "eReady", "eShutdown"}, EnterUnbindQueue(chs),
         UNCHANGED <<m_listener, starts, bound>>
  PROVE  BindInv'
<1>1. Binding(chs) => Binding(chan)
  BY DEF Binding, Shrunk
<1>2. ASSUME bound' \/ Binding(chs) PROVE BindPlace'
  <2>1. m_listener
    BY <1>1, <1>2 DEF BindInv, Binding
  <2>2. m_state' = "eUnbindQueue"
    BY <2>1, QueueKnown
  <2> QED
    BY <2>2 DEF BindPlace, Tidying
<1> QED
  BY <1>2, BindEnters

\* The request to bind.
LEMMA BindBegins ==
  ASSUME BindInv, NEW chs, EnterBindQueue(chs), m_listener, starts # 0,
         m_state \in {"eCreateExchange", "eCreateQueue"},
         UNCHANGED <<m_listener, starts, bound>>
  PROVE  BindInv'
<1>1. m_state' = "eBindQueue"
  BY Reached
<1>2. starts = 1 => ~bound
  BY DEF BindInv, BindPlace, Tidying
<1> QED
  BY <1>1, <1>2 DEF BindInv, BindPlace, Tidying

-----------------------------------------------------------------------------

LEMMA BindStart ==
  ASSUME ChannelInv, BindInv, NEW connection \in BOOLEAN, start(connection)
  PROVE  BindInv'
<1>1. /\ m_state = "eEnd" /\ starts' = starts + 1 /\ bound' = FALSE /\ UNCHANGED m_listener
      /\ starts \in Nat
  BY DEF start, config, ChannelInv, TypeOK
<1>2. starts' # 0 /\ (starts' = 1 => starts = 0)
  BY <1>1
<1>3. /\ \A d \in Channels : "bindQueue" \in Ops(chan'[d]) => "bindQueue" \in Ops(chan[d])
      /\ m_state' \in {"eEnd", "eCreateChannel"}
  <2>1. CASE EnterCreateChannel(chan)
    <3>1. Kept(chan, {"openCreate"}) /\ m_state' = "eCreateChannel"
      BY <2>1, Replacing DEF EnterCreateChannel, Openings, ChannelInv, TypeOK
    <3> QED
      BY <3>1 DEF Kept
  <2>2. CASE UNCHANGED <<m_state, chan>>
    BY <1>1, <2>2
  <2> QED
    BY <2>1, <2>2 DEF start
<1>4. starts' = 1 => ~Binding(chan)'
  BY <1>2, <1>3, SpentChannel DEF BindInv, Binding
<1>5. (bound' \/ \E c \in Channels : "bindQueue" \in Ops(chan'[c])) => m_listener'
  BY <1>1, <1>3 DEF BindInv
<1>6. m_state' \notin Tidying
  BY <1>3 DEF Tidying
<1> QED
  BY <1>1, <1>2, <1>4, <1>5, <1>6 DEF BindInv

LEMMA BindStop ==
  ASSUME ChannelInv, BrokerInv, BindInv, stop
  PROVE  BindInv'
<1>1. /\ UNCHANGED <<m_listener, starts, bound>> /\ m_state \in Starting \cup {"eReady"}
      /\ stoppedIn' = m_state
  BY DEF stop, config, broker, StopTransit, ChannelInv, TypeOK
<1>2. Shrunk(chan) /\ m_state # "eEnd"
  BY <1>1, Unchanged DEF Starting
<1>3. starts # 0
  BY <1>2 DEF BindInv
<1>4. m_state \in {"eBindQueue", "eCreateConsumer", "eReady"} \/ ~BindPlace
  BY <1>1 DEF BindPlace, Starting, Tidying
<1>5. StopTransit["eBindQueue"] = "eRemoveQueue" /\ StopTransit["eCreateConsumer"] = "eUnbindQueue"
      /\ StopTransit["eReady"] = "eShutdown"
  BY DEF StopTransit, Starting
<1>6. CASE m_state = "eBindQueue"
  <2>1. EnterRemoveQueue(chan) /\ Keep
    BY <1>5, <1>6 DEF stop
  <2>2. m_state' = "eRemoveQueue" \/ (m_queueExist' /\ m_state' = "eCloseChannel")
    BY <2>1, Reached DEF Keep
  <2>3. BindPlace'
    BY <1>1, <1>6, <2>2 DEF BindPlace, Tidying
  <2> QED
    BY <1>1, <1>2, <1>3, <2>1, <2>3, BindEnters
<1>7. CASE m_state = "eCreateConsumer"
  <2>1. EnterUnbindQueue(chan)
    BY <1>5, <1>7 DEF stop
  <2> QED
    BY <1>1, <1>2, <1>3, <1>7, <2>1, BindUndoing
<1>8. CASE m_state = "eReady"
  <2>1. EnterShutdown(chan)
    BY <1>5, <1>8 DEF stop
  <2>2. CASE EnterUnbindQueue(chan)
    BY <1>1, <1>2, <1>3, <1>8, <2>2, BindUndoing
  <2>3. CASE m_state' = "eShutdown" \/ ~m_listener
    <3>1. bound' \/ Binding(chan) => BindPlace'
      BY <1>1, <2>3 DEF BindInv, Binding, BindPlace
    <3> QED
      BY <1>1, <1>2, <1>3, <2>1, <3>1, BindEnters
  <2> QED
    BY <2>1, <2>2, <2>3 DEF EnterShutdown, Enter
<1>9. CASE m_state \notin {"eBindQueue", "eCreateConsumer", "eReady"}
  BY <1>1, <1>2, <1>3, <1>4, <1>9, BindEnters DEF stop
<1> QED
  BY <1>6, <1>7, <1>8, <1>9

LEMMA BindDrop ==
  ASSUME ChannelInv, BindInv, drop
  PROVE  BindInv'
<1>1. UNCHANGED <<m_listener, starts, bound>> /\ m_state' = "eEnd"
  BY DEF drop, config, broker, End
<1>2. \A c \in Channels : chan'[c] = Idle
  BY DEF drop
<1>3. \A c \in Channels : Spent(chan'[c]) /\ Ops(chan'[c]) = {}
  BY <1>2, IdleChannel DEF Spent, Idle
<1> QED
  BY <1>1, <1>3 DEF BindInv, BindPlace, Tidying

LEMMA BindReady ==
  ASSUME ChannelInv, BindInv, NEW c \in Channels, onReady(c), starts # 0
  PROVE  BindInv'
<1>1. /\ UNCHANGED <<m_listener, starts, stoppedIn, bound>> /\ chan[c].pending # <<>>
  BY DEF onReady, Answers, config, broker
<1>2. CASE Ignored(Popped(c))
  BY <1>1, <1>2, Popping, BindIgnored
<1>3. CASE \/ /\ m_state \in {"eCreateChannel", "eRecreateChannel"}
              /\ EnterCheckQueue(Ready(c)) \/ EnterCreateExchange(Ready(c))
           \/ /\ m_state \in Tidying
              /\ \E op \in {"unbindQueue", "removeQueue"} : Enter(m_state, Ask(Ready(c), op))
  <2>1. m_channel \in Channels
    BY <1>3, Current DEF Tidying
  <2>2. Shrunk(Ready(c))
    BY <1>1, <2>1, Popping, Installing DEF Ready
  <2>3. CASE /\ m_state \in {"eCreateChannel", "eRecreateChannel"}
             /\ EnterCheckQueue(Ready(c)) \/ EnterCreateExchange(Ready(c))
    <3>1. m_state # "eEnd" /\ ~BindPlace
      BY <2>3 DEF BindPlace, Tidying
    <3> QED
      BY <1>1, <2>2, <2>3, <3>1, BindEnters
  <2>4. ASSUME m_state \in Tidying, NEW op \in {"unbindQueue", "removeQueue"},
               Enter(m_state, Ask(Ready(c), op))
        PROVE  BindInv'
    <3>1. Ready(c) \in [Channels -> Channel] /\ op \in Request /\ op \in Other
      BY <2>2 DEF Shrunk, Request, Unguarded, Other
    <3>2. m_state' = m_state /\ m_channel' = m_channel /\ Kept(Ready(c), {op})
      BY <2>1, <2>4, <3>1, Asking
    <3>3. Kept(Ready(c), Other)
      BY <3>1, <3>2, OtherKept
    <3>4. "bindQueue" \notin Ops(chan[m_channel])
      BY <2>4 DEF BindInv
    <3>5. "bindQueue" \notin Ops(Ready(c)[m_channel])
      BY <2>1, <2>2, <3>4 DEF Shrunk
    <3>6. "bindQueue" \notin Ops(chan'[m_channel'])
      BY <2>1, <3>2, <3>3, <3>5 DEF Kept, Other
    <3>7. BindPlace'
      BY <2>4, <3>2 DEF BindPlace
    <3> QED
      BY <1>1, <2>2, <3>3, <3>6, <3>7, BindKept
  <2> QED
    BY <1>3, <2>3, <2>4
<1> QED
  BY <1>2, <1>3 DEF onReady, In, Tidying

LEMMA BindDeclarations ==
  ASSUME ChannelInv, BindInv, NEW c \in Channels, starts # 0,
         onQueueChecked(c) \/ onExchangeDeclared(c) \/ onQueueDeclared(c)
  PROVE  BindInv'
<1>1. /\ UNCHANGED <<m_listener, starts, stoppedIn, bound>> /\ chan[c].pending # <<>>
  BY DEF onQueueChecked, onExchangeDeclared, onQueueDeclared, Answers, config, broker
<1>2. Shrunk(Popped(c))
  BY <1>1, Popping
<1>3. CASE Ignored(Popped(c))
  BY <1>1, <1>2, <1>3, BindIgnored
<1>4. ASSUME m_state \in {"eCheckQueue", "eCreateExchange"},
             \/ EnterCreateExchange(Popped(c)) \/ EnterReady(Popped(c))
             \/ (EnterCreateQueue(Popped(c)) /\ ~m_queueExist)
      PROVE  BindInv'
  <2>1. m_state # "eEnd" /\ ~BindPlace
    BY <1>4 DEF BindPlace, Tidying
  <2> QED
    BY <1>1, <1>2, <1>4, <2>1, BindEnters
<1>5. CASE onQueueChecked(c) /\ m_state = "eCheckQueue"
  BY <1>4, <1>5 DEF onQueueChecked, In
<1>6. CASE onExchangeDeclared(c) /\ m_state = "eCreateExchange"
  <2>1. IF m_listener THEN EnterCreateQueue(Popped(c)) ELSE EnterReady(Popped(c))
    BY <1>6 DEF onExchangeDeclared, In
  <2>2. CASE m_listener /\ m_queueExist
    <3>1. EnterBindQueue(Popped(c))
      BY <2>1, <2>2 DEF EnterCreateQueue
    <3> QED
      BY <1>1, <1>6, <2>2, <3>1, BindBegins
  <2> QED
    BY <1>4, <1>6, <2>1, <2>2
<1>7. CASE onQueueDeclared(c) /\ m_state = "eCreateQueue"
  <2>1. EnterBindQueue(Popped(c))
    BY <1>7 DEF onQueueDeclared, In
  <2>2. m_listener
    BY <1>7 DEF ChannelInv, RoleInv, ReceiverState
  <2> QED
    BY <1>1, <1>7, <2>1, <2>2, BindBegins
<1> QED
  BY <1>3, <1>5, <1>6, <1>7 DEF onQueueChecked, onExchangeDeclared, onQueueDeclared, In

LEMMA BindBound ==
  ASSUME ChannelInv, BindInv, NEW c \in Channels, onQueueBound(c), starts # 0
  PROVE  BindInv'
<1>1. /\ UNCHANGED <<m_listener, starts, stoppedIn>> /\ chan[c].pending # <<>>
      /\ Head(chan[c].pending) = "bindQueue" /\ ~chan[c].broken
  BY DEF onQueueBound, Answers, config
<1>2. Binding(chan)
  BY <1>1, Popping DEF Binding
<1>3. CASE Ignored(Popped(c)) /\ m_state # "eBindQueue"
  BY <1>1, <1>2, <1>3, Popping, BindIgnored
<1>4. CASE EnterCreateConsumer(Popped(c))
  BY <1>1, <1>2, <1>4, Reached DEF BindInv, BindPlace, Binding, Tidying
<1> QED
  BY <1>3, <1>4 DEF onQueueBound, In

LEMMA BindConsuming ==
  ASSUME ChannelInv, BindInv, NEW c \in Channels, onConsuming(c), starts # 0
  PROVE  BindInv'
<1> DEFINE chs == [Popped(c) EXCEPT ![c].consumer = TRUE]
<1>1. /\ UNCHANGED <<m_listener, starts, stoppedIn, bound>> /\ chan[c].pending # <<>>
      /\ Head(chan[c].pending) = "consume"
  BY DEF onConsuming, Answers, config, broker
<1>2. m_listener
  BY <1>1, Popping DEF ChannelInv, RoleInv
<1>3. Shrunk(chs)
  BY <1>1, <1>2, Registering
<1>4. \/ m_state = "eCreateConsumer" /\ EnterReady(chs)
      \/ Ignored(chs)
  BY DEF onConsuming
<1> HIDE DEF chs
<1>5. CASE m_state = "eCreateConsumer" /\ EnterReady(chs)
  <2>1. BindPlace'
    BY <1>5, Reached DEF BindPlace
  <2> QED
    BY <1>1, <1>3, <1>5, <2>1, BindEnters
<1>6. CASE Ignored(chs)
  BY <1>1, <1>3, <1>6, BindIgnored
<1> QED
  BY <1>4, <1>5, <1>6

LEMMA BindCancelled ==
  ASSUME ChannelInv, BrokerInv, BindInv, NEW c \in Channels, onCancelled(c), starts # 0
  PROVE  BindInv'
<1> DEFINE chs == [Popped(c) EXCEPT ![c].consumer = FALSE]
<1>1. /\ UNCHANGED <<m_listener, starts, stoppedIn, bound>> /\ chan[c].pending # <<>>
      /\ Head(chan[c].pending) = "cancel"
  BY DEF onCancelled, Answers, config, broker
<1>2. m_state = "eShutdown"
  BY <1>1, Popping, Names
<1>3. Shrunk(chs)
  BY <1>1, Registering
<1>4. EnterUnbindQueue(chs) \/ Ignored(chs)
  BY DEF onCancelled
<1> HIDE DEF chs
<1>5. CASE EnterUnbindQueue(chs)
  BY <1>1, <1>2, <1>3, <1>5, BindUndoing
<1>6. CASE Ignored(chs)
  BY <1>1, <1>3, <1>6, BindIgnored
<1> QED
  BY <1>4, <1>5, <1>6

\* Served in turn, the answer comes when nothing else is outstanding.
LEMMA BindUndone ==
  ASSUME InTurns, ChannelInv, BindInv, NEW c \in Channels, starts # 0,
         onQueueUnbound(c) \/ onQueueRemoved(c)
  PROVE  BindInv'
<1>1. /\ UNCHANGED <<m_listener, starts, stoppedIn>> /\ bound' = FALSE /\ chan[c].pending # <<>>
      /\ Head(chan[c].pending) \in {"unbindQueue", "removeQueue"} /\ InTurn(c)
      /\ EnterCloseChannel(Popped(c))
  BY DEF onQueueUnbound, onQueueRemoved, Answers, config
<1>2. c = m_channel /\ m_state \in Tidying /\ m_state # "eEnd" /\ Shrunk(Popped(c))
  BY <1>1, Popping, Names DEF Tidying
<1>3. \A d \in Channels \ {c} : Ops(chan[d]) = {}
  BY <1>1, <1>2, SpentChannel DEF InTurn, InTurns
<1>4. \A d \in Channels : "bindQueue" \notin Ops(chan[d])
  BY <1>2, <1>3 DEF BindInv
<1>5. ~Binding(Popped(c))
  BY <1>2, <1>4 DEF Binding, Shrunk
<1> QED
  BY <1>1, <1>2, <1>5, BindEnters

LEMMA BindClosed ==
  ASSUME ChannelInv, BindInv, NEW c \in Channels, onChannelClosed(c), starts # 0
  PROVE  BindInv'
<1> DEFINE chs == [chan EXCEPT ![c] = Idle]
<1>1. UNCHANGED <<m_listener, starts, stoppedIn, bound>>
  BY DEF onChannelClosed, config, broker
<1>2. Shrunk(chs)
  BY IdleChannel, Silencing DEF Idle
<1>3. EnterEnd(chs) \/ Ignored(chs)
  BY DEF onChannelClosed
<1> HIDE DEF chs
<1> QED
  BY <1>1, <1>2, <1>3, BindEnd, BindIgnored

LEMMA BindRequestError ==
  ASSUME ChannelInv, BrokerInv, TurnInv, BindInv, NEW c \in Channels, onRequestError(c), starts # 0
  PROVE  BindInv'
<1>1. /\ UNCHANGED <<m_listener, starts, stoppedIn, bound>>
      /\ chan[c].pending # <<>> /\ chan[c].broken
  BY DEF onRequestError, Fails, config, broker
<1>2. Shrunk(Popped(c)) /\ \A d \in Channels : Same(chan[d], Popped(c)[d])
  BY <1>1, Popping
<1>3. CASE Ignored(Popped(c))
  BY <1>1, <1>2, <1>3, BindIgnored
<1>4. ASSUME EnterEnd(Popped(c)) PROVE BindInv'
  BY <1>1, <1>2, <1>4, BindEnd
<1>5. ASSUME m_state \in {"eCheckQueue", "eCreateExchange", "eCreateQueue"},
             EnterRecreateChannel(Popped(c)) \/ EnterCloseChannel(Popped(c))
      PROVE  BindInv'
  <2>1. m_state # "eEnd" /\ ~BindPlace
    BY <1>5 DEF BindPlace, Tidying
  <2> QED
    BY <1>1, <1>2, <1>5, <2>1, BindEnters
<1>6. ASSUME m_state = "eBindQueue", EnterRemoveQueue(Popped(c)) PROVE BindInv'
  <2>1. c = m_channel
    BY <1>1, <1>6, SettledHere DEF TurnInv, Settled
  <2>2. \A d \in Channels \ {c} : Ops(chan[d]) = {}
    BY <1>6, <2>1, SpentChannel DEF TurnInv, SoleInv, Settled
  <2>3. ~Binding(Popped(c))
    BY <1>1, <1>2, <2>2 DEF Binding, Shrunk, Same
  <2>4. BindPlace => ~bound
    BY <1>6 DEF BindPlace, Tidying
  <2> QED
    BY <1>1, <1>2, <1>6, <2>3, <2>4, BindEnters
<1>7. ASSUME m_state \in {"eCreateConsumer", "eShutdown"}, EnterUnbindQueue(Popped(c))
      PROVE  BindInv'
  BY <1>1, <1>2, <1>7, BindUndoing
<1>8. Fails(c, "cancel") => m_state = "eShutdown"
  BY <1>1, Popping, Names DEF Fails
<1>9. ASSUME ConsumerError(Popped(c)) PROVE BindInv'
  BY <1>3, <1>4, <1>7, <1>9 DEF ConsumerError
<1> QED
  BY <1>3, <1>4, <1>5, <1>6, <1>7, <1>8, <1>9 DEF onRequestError, In

LEMMA BindReport ==
  ASSUME ChannelInv, BrokerInv, BindInv, NEW c \in Channels, starts # 0,
         onConsumerError(c) \/ onChannelError(c)
  PROVE  BindInv'
<1>1. /\ UNCHANGED <<m_listener, starts, stoppedIn, bound>> /\ chan[c].broken /\ chan[c].pending = <<>>
  BY DEF onConsumerError, onChannelError, config, broker
<1>2. chan[c] \in Channel /\ OneLast(chan[c].pending)
  BY DEF ChannelInv, TypeOK, LastInv
<1>3. CASE onConsumerError(c)
  <2> DEFINE r   == [chan[c] EXCEPT !.consumer = FALSE]
             chs == [chan EXCEPT ![c] = r]
  <2>1. /\ r \in Channel /\ r.broken /\ r.pending = chan[c].pending
        /\ r.onError = chan[c].onError /\ ~r.consumer
    BY <1>1, <1>2 DEF Channel
  <2>2. ConsumerError(chs)
    BY <1>3 DEF onConsumerError
  <2> HIDE DEF r
  <2>3. Shrunk(chs)
    BY <1>2, <2>1, Silencing DEF Ops
  <2> HIDE DEF chs
  <2>4. CASE Ignored(chs)
    BY <1>1, <2>3, <2>4, BindIgnored
  <2>5. CASE EnterEnd(chs)
    BY <1>1, <2>3, <2>5, BindEnd
  <2>6. CASE m_state = "eCreateConsumer" /\ EnterUnbindQueue(chs)
    BY <1>1, <2>3, <2>6, BindUndoing
  <2> QED
    BY <2>2, <2>4, <2>5, <2>6 DEF ConsumerError
<1>4. CASE onChannelError(c)
  <2> DEFINE r   == [chan[c] EXCEPT !.onError = "none"]
             chs == [chan EXCEPT ![c] = r]
  <2>1. /\ r \in Channel /\ r.broken /\ r.pending = chan[c].pending /\ r.onError = "none"
        /\ ~r.consumer
    BY <1>1, <1>2, <1>4 DEF Channel, OnError, onChannelError
  <2>2. EnterEnd(chs) \/ Ignored(chs)
    BY <1>4 DEF onChannelError
  <2> HIDE DEF r
  <2>3. Shrunk(chs)
    BY <1>2, <2>1, Silencing DEF Ops
  <2> HIDE DEF chs
  <2> QED
    BY <1>1, <2>2, <2>3, BindEnd, BindIgnored
<1> QED
  BY <1>3, <1>4

LEMMA BindEnvironment ==
  ASSUME ChannelInv, BindInv,
         (\E c \in Channels : BreakChannel(c)) \/ BreakConnection \/ OthersDeclare
  PROVE  BindInv'
<1>1. UNCHANGED <<m_listener, m_state, m_channel, m_queueExist, bound, starts, stoppedIn>>
  BY DEF BreakChannel, BreakConnection, OthersDeclare, config, memory, broker, history
<1> DEFINE broke(d) == [chan[d] EXCEPT !.broken = TRUE]
<1>2. ASSUME NEW d \in Channels
      PROVE  /\ broke(d).pending = chan[d].pending /\ broke(d).onError = chan[d].onError
             /\ broke(d).consumer = chan[d].consumer /\ broke(d).broken
  BY DEF ChannelInv, TypeOK, Channel
<1> HIDE DEF broke
<1>3. \A d \in Channels : chan'[d] = chan[d] \/ chan'[d] = broke(d)
  <2>1. ASSUME NEW c \in Channels, BreakChannel(c)
        PROVE  chan' = [chan EXCEPT ![c] = broke(c)]
    BY <2>1 DEF BreakChannel, broke
  <2>2. ASSUME BreakConnection PROVE chan' = [d \in Channels |-> broke(d)]
    BY <2>2 DEF BreakConnection, broke
  <2>3. ASSUME OthersDeclare PROVE chan' = chan
    BY <2>3 DEF OthersDeclare
  <2>4. chan \in [Channels -> Channel]
    BY DEF ChannelInv, TypeOK
  <2> QED
    BY <2>1, <2>2, <2>3, <2>4
<1>4. \A d \in Channels : /\ chan'[d].pending = chan[d].pending
                          /\ chan'[d].onError = chan[d].onError
                          /\ chan'[d].consumer = chan[d].consumer
                          /\ chan[d].broken => chan'[d].broken
  BY <1>2, <1>3
<1>5. \A d \in Channels : /\ Ops(chan'[d]) = Ops(chan[d])
                          /\ Spent(chan[d]) => Spent(chan'[d])
  BY <1>4 DEF Ops, Spent
<1>6. Binding(chan)' => Binding(chan)
  BY <1>4, <1>5 DEF Binding
<1>7. m_state \in Tidying => m_channel \in Channels
  BY Current DEF Tidying
<1> QED
  BY <1>1, <1>5, <1>6, <1>7 DEF BindInv, BindPlace

LEMMA BindStep ==
  ASSUME InTurns, ChannelInv, BrokerInv, TurnInv, BindInv, [Next]_vars
  PROVE  BindInv'
<1>1. ASSUME NEW c \in Channels, Success(c) PROVE BindInv'
  <2>1. starts # 0
    BY <1>1, Begun
  <2> QED
    BY <1>1, <2>1, BindReady, BindDeclarations, BindBound, BindConsuming, BindCancelled,
       BindUndone, BindClosed DEF Success
<1>2. ASSUME NEW c \in Channels, Report(c) PROVE BindInv'
  <2>1. starts # 0
    BY <1>2, Begun
  <2> QED
    BY <1>2, <2>1, BindRequestError, BindReport DEF Report
<1>3. CASE UNCHANGED vars
  <2>1. UNCHANGED <<m_listener, m_state, m_channel, m_queueExist, bound, starts, stoppedIn, chan>>
    BY <1>3 DEF vars, config, memory, broker, history
  <2> QED
    BY <2>1 DEF BindInv, BindPlace, Binding
<1> QED
  BY <1>1, <1>2, <1>3, BindStart, BindStop, BindDrop, BindEnvironment DEF Next

\* Where the first run is while its queue is bound, or may yet be.
THEOREM Bindings ==
  ASSUME "slowChannels" \notin Interference
  PROVE  Spec => []BindInv
<1>1. InTurns
  BY DEF InTurns
<1>2. Init => BindInv
  <2>1. ASSUME Init PROVE \A c \in Channels : Spent(chan[c])
    BY <2>1 DEF Init, Spent, Idle
  <2>2. ASSUME Init PROVE \A c \in Channels : Ops(chan[c]) = {}
    BY <2>1, <2>2, SpentChannel
  <2> QED
    BY <2>1, <2>2 DEF Init, InitialState, BindInv, BindPlace, Binding, Tidying
<1>3. ChannelInv /\ BrokerInv /\ TurnInv /\ BindInv /\ [Next]_vars => BindInv'
  BY <1>1, BindStep
<1> QED
  BY <1>2, <1>3, Records, Turns, PTL DEF Spec

\* When the first run goes on to close its channel it has undone its binding,
\* after whatever error and whatever stop(), unless the last stop() came in
\* eBindQueue while it was binding a queue that was there before it.
THEOREM BindingUndoneHolds ==
  ASSUME "slowChannels" \notin Interference
  PROVE  Spec => []BindingUndone
<1>1. BindInv => BindingUndone
  BY DEF BindInv, BindPlace, BindingUndone, Tidying
<1> QED
  BY <1>1, Bindings, PTL
=============================================================================
