------------------------------- MODULE AgentCall -------------------------------
(***************************************************************************)
(* extract_statement_transactions of the Google ADK gateway                *)
(* (app/agents/providers/google_adk/): a session is created, the events    *)
(* of a stream are turned into progress messages and a text, the session   *)
(* is deleted, and the last JSON object of the text is the answer.  Every  *)
(* request to the agent's service may fail, and the stream may break.      *)
(*                                                                         *)
(* A text is a sequence of pieces: <<"prose">> without braces, a whole     *)
(* object <<"whole", o>>, or its beginning <<"cut", o>> and its remainder  *)
(* <<"rest", o>>.  Every object has an object inside it, whose text ends   *)
(* before a cut: the Fragment.                                             *)
(***************************************************************************)
EXTENDS Integers, Sequences, FiniteSets

CONSTANTS Objects,     \* the objects that an agent may write
          Fragment,    \* an object inside the agent's object
          AgentEvents, \* the events that may arrive, as sequences of parts
          MaxEvents    \* bound: events of one stream

\* What a text is made of.
Pieces == {<<"prose">>} \cup ({"whole", "cut", "rest"} \X Objects)

VARIABLES phase,     \* where extract_statement_transactions is
          emitted,   \* emitted_progress_codes
          text,      \* text_parts, joined
          session,   \* the agent's session: none, open, deleted or left
          result     \* what the call has returned or raised

call == <<phase, emitted, text, session, result>>

Over == {"returned", "raised"}

(***************************************************************************)
(* map_google_adk_event_to_progress: the first part that is a function     *)
(* call, a response or a text decides, even when it has nothing to say.    *)
(***************************************************************************)
NoCode == "none"

CallCode(part) ==
  CASE part.name = "transfer_to_agent" /\ part.agent = "statement_ingestion" ->
         "statement_ingestion.started"
    [] part.name = "transfer_to_agent" /\ part.agent # "statement_ingestion" ->
         "agent.pipeline_selecting"
    [] part.name = "convert_statement_document_to_markdown" -> "pdf.converting"
    [] OTHER -> NoCode

ResponseCode(part) ==
  CASE part.name = "convert_statement_document_to_markdown" ->
         (CASE part.status = "success" -> "pdf.converted"
            [] part.status = "error"   -> "pdf.conversion_failed"
            [] OTHER                   -> NoCode)
    [] part.name = "get_markdown_chunk" ->
         (IF part.status # "success" THEN "statement.chunk_failed"
          ELSE IF part.numbered THEN "statement.chunk_read"
          ELSE "statement.chunks_reading")
    [] OTHER -> NoCode

TextCode(part) ==
  CASE part.text[1] \in {"whole", "cut"}       -> "transactions.generating_json"
    [] part.text[1] \notin {"whole", "cut"}
         /\ part.author = "statement_converter"  -> "statement.preparing"
    [] part.text[1] \notin {"whole", "cut"}
         /\ part.author = "statement_normalizer" -> "transactions.normalizing"
    [] OTHER -> NoCode

Speaks(part) == part.kind \in {"call", "response", "text"}

ProgressCode(event) ==
  LET parts == SelectSeq(event, Speaks)
  IN IF parts = <<>> THEN NoCode
     ELSE CASE parts[1].kind = "call"     -> CallCode(parts[1])
            [] parts[1].kind = "response" -> ResponseCode(parts[1])
            [] parts[1].kind = "text"     -> TextCode(parts[1])

\* google_adk_text_from_event
TextOf(event) ==
  LET parts == SelectSeq(event, LAMBDA part : part.kind = "text")
  IN [k \in DOMAIN parts |-> parts[k].text]

\* The texts of an event are pieces, and a fragment is none of the objects
\* that the agent writes on their own.
ASSUME PiecesAssumption ==
  /\ Fragment \notin Objects
  /\ \A event \in AgentEvents : TextOf(event) \in Seq(Pieces)

(***************************************************************************)
(* parse_last_json_object: wherever a brace opens, the text from there on  *)
(* may decode to an object; the one that ends last is the answer.          *)
(***************************************************************************)
Candidates(pieces) ==
  {[start |-> 4 * k, end |-> 4 * k + 3, object |-> pieces[k][2]] :
     k \in {k \in DOMAIN pieces : pieces[k][1] = "whole"}}
  \cup
  {[start |-> 4 * k, end |-> 4 * k + 7, object |-> pieces[k][2]] :
     k \in {k \in DOMAIN pieces :
              /\ pieces[k][1] = "cut" /\ k + 1 \in DOMAIN pieces
              /\ pieces[k + 1] = <<"rest", pieces[k][2]>>}}
  \cup
  {[start |-> 4 * k + 1, end |-> 4 * k + 2, object |-> Fragment] :
     k \in {k \in DOMAIN pieces : pieces[k][1] \in {"whole", "cut"}}}

\* A slip: the object that begins last.
ParseLatestObject(pieces) ==
  (CHOOSE c \in Candidates(pieces) :
     \A o \in Candidates(pieces) : o.start <= c.start).object

ParseLastObject(pieces) ==
  (CHOOSE c \in Candidates(pieces) :
     \A o \in Candidates(pieces) : o.end <= c.end).object

(***************************************************************************)
(* The call.                                                               *)
(***************************************************************************)
CallInit ==
  /\ phase = "creating" /\ emitted = {} /\ text = <<>>
  /\ session = "none"   /\ result = [status |-> "none"]

\* emit_progress: every code is reported once.
Emit(code) == emitted' = IF code = NoCode THEN emitted ELSE emitted \cup {code}

\* The token, the request for a session, its answer without an id.
CreateSession ==
  /\ phase = "creating"
  /\ \/ /\ phase' = "streaming" /\ session' = "open"
        /\ Emit("statement_ingestion.started")
        /\ UNCHANGED <<text, result>>
     \/ /\ phase' = "raised" /\ UNCHANGED <<emitted, text, session, result>>

ReceiveEvent(event) ==
  /\ phase = "streaming" /\ Len(text) < MaxEvents
  /\ Emit(ProgressCode(event))
  /\ text' = text \o TextOf(event)
  /\ UNCHANGED <<phase, session, result>>

\* The stream ends; or it breaks, or the progress callback raises, which
\* the finally clause meets on its way out.
EndStream ==
  /\ phase = "streaming"
  /\ phase' \in {"closing", "unwinding"}
  /\ UNCHANGED <<emitted, text, session, result>>

\* A slip: there is no finally, an error leaves the session alone.
DeleteSessionAfterSuccess ==
  \/ /\ phase = "closing"
     /\ \/ session' \in {"deleted", "left"} /\ phase' = "parsing"
        \/ session' = "left" /\ phase' = "raised"
     /\ UNCHANGED <<emitted, text, result>>
  \/ /\ phase = "unwinding"
     /\ phase' = "raised"
     /\ UNCHANGED <<emitted, text, session, result>>

\* The finally clause.  An httpx.HTTPError of the clean-up is logged and
\* dropped; any other takes the place of an answer that was complete.
DeleteSession ==
  /\ phase \in {"closing", "unwinding"}
  /\ \/ /\ session' \in {"deleted", "left"}
        /\ phase' = IF phase = "closing" THEN "parsing" ELSE "raised"
     \/ session' = "left" /\ phase' = "raised"
  /\ UNCHANGED <<emitted, text, result>>

Parse ==
  /\ phase = "parsing"
  /\ phase' = "returned"
  /\ result' = IF Candidates(text) = {} THEN [status |-> "error"]
               ELSE [status |-> "success", data |-> ParseLastObject(text)]
  /\ UNCHANGED <<emitted, text, session>>

CallStep ==
  \/ CreateSession \/ EndStream \/ DeleteSession \/ Parse
  \/ \E event \in AgentEvents : ReceiveEvent(event)

(***************************************************************************)
(* However the call ends, the session it has opened was asked to be        *)
(* deleted (statement_import_adapter.py:91-95).                            *)
(***************************************************************************)
SessionsAreCleanedUp == phase \in Over => session # "open"

(***************************************************************************)
(* The answer is the last object that the agent has written to its end,    *)
(* and a part of one only when the text breaks off after it                *)
(* (response_parser.py:61-82).                                             *)
(***************************************************************************)
AnswerIsTheLastWhole ==
  phase = "returned" /\ result.status = "success" =>
    LET ended == {k \in DOMAIN text :
                    \/ text[k][1] = "whole"
                    \/ /\ text[k][1] = "rest" /\ k > 1
                       /\ text[k - 1] = <<"cut", text[k][2]>>}
    IN IF result.data # Fragment
       THEN \E k \in ended : /\ text[k][2] = result.data
                             /\ \A i \in DOMAIN text : i > k => text[i][1] \in
                                                           {"prose", "rest"}
       ELSE \E k \in DOMAIN text : /\ text[k][1] = "cut"
                                   /\ \A i \in ended : i < k
===============================================================================
