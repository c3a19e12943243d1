-------------------------------- MODULE Link --------------------------------
(***************************************************************************)
(* What a ConnectionHandler promises to the rest of the library, without   *)
(* sockets, callbacks or nested event loops: a link to the broker that is  *)
(* opened and closed, and an output stream.  Buffers are accepted only     *)
(* while there is a connection, leave one at a time in the order in which  *)
(* they were accepted, and what has not left when the link goes down is    *)
(* discarded.  AmqpConnectionHandler.tla implements it.                    *)
(***************************************************************************)
EXTENDS Naturals, Sequences

VARIABLES
  phase,     \* "down", "opening", "up" or "closing"
  queue,     \* numbers of the buffers accepted and not yet written
  submitted, \* number of the last buffer accepted on this connection
  wire       \* number of the last buffer written on this connection

linkVars == <<phase, queue, submitted, wire>>
stream   == <<queue, submitted, wire>>

LinkInit ==
  /\ phase = "down"
  /\ queue = <<>>
  /\ submitted = 0
  /\ wire = 0

Open ==
  /\ phase = "down"
  /\ phase' = "opening"
  /\ UNCHANGED stream

Establish ==
  /\ phase = "opening"
  /\ phase' = "up"
  /\ UNCHANGED stream

Fail ==
  /\ phase = "opening"
  /\ phase' = "down"
  /\ UNCHANGED stream

\* A connection that is being closed still takes buffers: it loses them.
Accept ==
  /\ phase \in {"up", "closing"}
  /\ submitted' = submitted + 1
  /\ queue' = Append(queue, submitted')
  /\ UNCHANGED <<phase, wire>>

Transmit ==
  /\ phase \in {"up", "closing"}
  /\ queue # <<>>
  /\ wire' = Head(queue)
  /\ queue' = Tail(queue)
  /\ UNCHANGED <<phase, submitted>>

Close ==
  /\ phase \in {"opening", "up"}
  /\ phase' = "closing"
  /\ UNCHANGED stream

Down ==
  /\ phase = "closing"
  /\ phase' = "down"
  /\ queue' = <<>>
  /\ submitted' = 0
  /\ wire' = 0

LinkNext ==
  Open \/ Establish \/ Fail \/ Accept \/ Transmit \/ Close \/ Down

LinkSpec == LinkInit /\ [][LinkNext]_linkVars

=============================================================================
