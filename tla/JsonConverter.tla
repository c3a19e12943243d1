---------------------------- MODULE JsonConverter ---------------------------
(***************************************************************************)
(* ConvertToJson() and ConvertFromJson() (src/src/AmqpJsonConverter.cpp),  *)
(* and an application that converts the messages it receives, and forwards *)
(* what it has converted.  It may keep one document for all messages, or   *)
(* take a new one, as examples/receiver.cpp does.                          *)
(*                                                                         *)
(* RapidJSON is external: a text is the document it parses to, or garbage. *)
(***************************************************************************)
CONSTANTS
  Documents, \* JSON documents but null
  Null,      \* the document null, a new document
  Garbage    \* a text that is not JSON

ContentType == {"application/json", "text/plain"}
Body        == Documents \cup {Null, Garbage}
Message     == [contentType: ContentType, body: Body]

VARIABLES
  json,    \* the document that ConvertToJson() is given
  message  \* the message converted last

vars == <<json, message>>

\* What ConvertToJson() makes of a document.
ConvertToJson(m, document) ==
  IF m.contentType # "application/json" THEN document
  ELSE IF m.body = Garbage THEN Null ELSE m.body

\* The envelope that ConvertFromJson() makes.
ConvertFromJson(document) ==
  [contentType |-> "application/json", body |-> document]

Init ==
  /\ json = Null
  /\ message = ConvertFromJson(Null)

Receive(m) ==
  \E document \in {json, Null} :
    /\ json' = ConvertToJson(m, document)
    /\ message' = m

Next == (\E m \in Message : Receive(m)) \/ Receive(ConvertFromJson(json))

Spec == Init /\ [][Next]_vars

\* AmqpJsonConverter.hpp:16-18: a message is converted only if its content type
\* is JSON; otherwise, or if the conversion failed, the result is null.
ResultIsOfMessage ==
  json = IF message.contentType = "application/json" /\ message.body # Garbage
         THEN message.body ELSE Null

=============================================================================
