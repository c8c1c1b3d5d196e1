--------------------------- MODULE StreamTranslation ---------------------------
(***************************************************************************)
(* A streamed answer on its way to the client (routes/v1.py): the chunks   *)
(* of the upstream's Chat stream are captured for the record               *)
(* (streaming.py) and translated, one by one, for clients that speak       *)
(* Anthropic Messages (formats/anthropic.py) or OpenAI Responses           *)
(* (formats/openai_responses.py).  The client is modelled by what it makes *)
(* of the events: the blocks it was told of and whether an event broke the *)
(* protocol.  A chunk is a complete event: the translators buffer the rest *)
(* of one until it is.                                                     *)
(***************************************************************************)
EXTENDS Integers, Sequences, FiniteSetsExt, SequencesExt

CONSTANTS
  ToolCalls,     \* the upstream's indexes of the tool calls of one answer
  TextFirst      \* the upstream sends no text after its first tool call

ASSUME StreamAssumption ==
  /\ ToolCalls \subseteq Nat /\ ToolCalls # {} /\ IsFiniteSet(ToolCalls) /\ TextFirst \in BOOLEAN

NoBlock == -1
Text == -2    \* the source of a text block; a tool call is the source of its own

VARIABLES
  upstream,   \* how far the upstream's stream is
  anthropic,  \* AnthropicStreamTranslator
  client,     \* the Anthropic client's view
  responses,  \* ResponsesStreamTranslator: the events emitted once
  reader,     \* the Responses client's view: its last event, broken or not
  capture     \* StreamCapture and what parse_sse_for_outcome finds in it

streamVars == <<upstream, anthropic, client, responses, reader, capture>>

Blocks == 0..Cardinality(ToolCalls)
Flags == {"created", "item", "part", "partDone", "itemDone", "completed"}

\* The protocol of a Responses stream, by position.
Protocol == <<"response.created", "response.output_item.added", "response.content_part.added",
              "response.output_text.delta", "response.output_text.done",
              "response.content_part.done", "response.output_item.done", "response.completed">>

StreamTypeOK ==
  /\ upstream \in {"text", "tools", "finished", "failed", "done", "closed", "cut"}
  /\ anthropic.started \in BOOLEAN /\ anthropic.text \in {"none", "open", "closed"}
  /\ anthropic.next \in 0..(Cardinality(ToolCalls) + 1)
  /\ anthropic.tools \in [ToolCalls -> Blocks \union {NoBlock}]
  /\ anthropic.stopped \subseteq ToolCalls
  /\ {anthropic.ended, anthropic.error, anthropic.held, anthropic.normalize} \subseteq BOOLEAN
  /\ client.phase \in {"before", "open", "ended", "error"}
  /\ client.blocks \in [Blocks -> [source : ToolCalls \union {Text, NoBlock}, open : BOOLEAN]]
  /\ responses \subseteq Flags /\ reader.last \in 0..Len(Protocol)
  /\ capture \in [truncated : BOOLEAN, text : BOOLEAN, tools : SUBSET ToolCalls,
                  usage : BOOLEAN, error : BOOLEAN]

StreamInit ==
  /\ upstream = "text"
  /\ anthropic \in [started : {FALSE}, text : {"none"}, next : {0},
                    tools : {[c \in ToolCalls |-> NoBlock]}, stopped : {{}},
                    ended : {FALSE}, error : {FALSE}, held : {FALSE}, normalize : BOOLEAN]
  /\ client = [phase |-> "before", broken |-> FALSE,
               blocks |-> [b \in Blocks |-> [source |-> NoBlock, open |-> FALSE]]]
  /\ responses = {}
  /\ reader = [last |-> 0, broken |-> FALSE]
  /\ capture = [truncated |-> FALSE, text |-> FALSE, tools |-> {}, usage |-> FALSE,
                error |-> FALSE]

-----------------------------------------------------------------------------
(* The Anthropic translator.  A handler maps [m, out], the translator and  *)
(* the events so far, to the same after it.                                *)

Event(type, index, source) == [type |-> type, index |-> index, source |-> source]
Emit(p, m, event) == [m |-> m, out |-> Append(p.out, event)]

StartMessage(p) ==
  IF p.m.started THEN p
  ELSE Emit(p, [p.m EXCEPT !.started = TRUE], Event("message_start", 0, Text))

\* Mutant: index 0 is not kept for the text.
StartTextUnreserved(p) ==
  IF p.m.text # "none" THEN p
  ELSE Emit(p, [p.m EXCEPT !.text = "open"], Event("content_block_start", 0, Text))

\* The text block has index 0.
StartText(p) ==
  IF p.m.text # "none" THEN p
  ELSE Emit(p, [p.m EXCEPT !.text = "open", !.next = IF @ = 0 THEN 1 ELSE @],
            Event("content_block_start", 0, Text))

TextDelta(p) ==
  LET q == StartText(p) IN Emit(q, q.m, Event("content_block_delta", 0, Text))

\* A tool call opens a block with the next index when its first chunk arrives.
StartTool(p, c) ==
  IF p.m.tools[c] # NoBlock THEN p
  ELSE Emit(p, [p.m EXCEPT !.tools[c] = p.m.next, !.next = @ + 1],
            Event("content_block_start", p.m.next, c))

ToolDelta(p, c) ==
  LET q == StartTool(p, c) IN Emit(q, q.m, Event("content_block_delta", q.m.tools[c], c))

StopText(p) ==
  IF p.m.text # "open" THEN p
  ELSE Emit(p, [p.m EXCEPT !.text = "closed"], Event("content_block_stop", 0, Text))

StopTools(p) ==
  FoldSet(LAMBDA c, q : Emit(q, [q.m EXCEPT !.stopped = @ \union {c}],
                             Event("content_block_stop", q.m.tools[c], c)),
          p, {c \in ToolCalls : p.m.tools[c] # NoBlock} \ p.m.stopped)

\* Text that the harness module held back (normalize) becomes a text block, the
\* tool call it spells, or both; beside a tool call of the upstream it is lost.
Flush(p, promoted) ==
  IF ~p.m.held \/ \E c \in ToolCalls : p.m.tools[c] # NoBlock THEN p
  ELSE LET q == [p EXCEPT !.m.held = FALSE]
           texted == IF promoted = "tool" THEN q ELSE TextDelta(q)
       IN IF promoted = "no" THEN texted ELSE ToolDelta(texted, Min(ToolCalls))

\* _terminate, at [DONE] and at the end of the stream.
Terminate(p, promoted) ==
  IF p.m.error THEN p
  ELSE LET q == StopTools(StopText(Flush(StartMessage(p), promoted)))
       IN IF q.m.ended THEN q
          ELSE Emit(Emit(q, q.m, Event("message_delta", 0, Text)),
                    [q.m EXCEPT !.ended = TRUE], Event("message_stop", 0, Text))

\* _handle_chunk.
Translate(p, chunk) ==
  IF chunk.error
  THEN Emit(p, [p.m EXCEPT !.error = TRUE], Event("error", 0, Text))
  ELSE IF ~chunk.choice THEN p
  ELSE LET texted == IF ~chunk.text THEN StartMessage(p)
                     ELSE IF p.m.normalize
                       THEN [StartMessage(p) EXCEPT !.m.held = TRUE]
                     ELSE TextDelta(StartMessage(p))
           tooled == IF chunk.call = NoBlock THEN texted
                     ELSE IF chunk.arguments THEN ToolDelta(texted, chunk.call)
                     ELSE StartTool(texted, chunk.call)
       IN IF chunk.finish \in {"tool_calls", "stop"} THEN StopTools(StopText(tooled)) ELSE tooled

\* What a client makes of an event: a message in which every block is started
\* once, takes the deltas of its own source and is stopped before the end.
Sees(view, e) ==
  LET block == view.blocks[e.index]
      allowed ==
        CASE e.type = "message_start" -> view.phase = "before"
          [] e.type = "content_block_start" -> view.phase = "open" /\ block.source = NoBlock
          [] e.type = "content_block_delta" -> block.open /\ block.source = e.source
          [] e.type = "content_block_stop" -> block.open
          [] e.type \in {"message_delta", "message_stop"} ->
               view.phase = "open" /\ \A b \in Blocks : ~view.blocks[b].open
          [] OTHER -> view.phase # "ended"
  IN [phase |-> CASE e.type = "message_start" -> "open" [] e.type = "message_stop" -> "ended"
                  [] e.type = "error" -> "error" [] OTHER -> view.phase,
      broken |-> view.broken \/ ~allowed,
      blocks |-> CASE e.type = "content_block_start" ->
                        [view.blocks EXCEPT ![e.index] = [source |-> e.source, open |-> TRUE]]
                   [] e.type = "content_block_stop" ->
                        [view.blocks EXCEPT ![e.index].open = FALSE]
                   [] OTHER -> view.blocks]

-----------------------------------------------------------------------------
(* The Responses translator: which events a step adds, in order.           *)

Once(flag, positions) == IF flag \in responses THEN <<>> ELSE positions

RespondText ==
  Once("created", <<1>>) \o Once("item", <<2>>) \o Once("part", <<3>>) \o <<4>>

CloseResponse ==
  (IF "created" \in responses THEN <<>> ELSE Once("completed", <<1>>))
    \o (IF "part" \in responses THEN Once("partDone", <<5, 6>>) ELSE <<>>)
    \o (IF "item" \in responses THEN Once("itemDone", <<7>>) ELSE <<>>)
    \o Once("completed", <<8>>)

Reads(view, position) ==
  [last |-> position,
   broken |-> view.broken \/ ~(\/ position = view.last + 1
                               \/ position = 4 /\ view.last = 4
                               \/ position = 8 /\ view.last = 1)]

-----------------------------------------------------------------------------
(* The stream.                                                             *)

\* StreamCapture.append: what does not fit is cut at an event's end, and later
\* chunks are not captured.  Then parse_sse_for_outcome: the text, the tool
\* calls with a name, the usage, the error.
Captured(chunk) ==
  {[text |-> capture.text \/ chunk.text, usage |-> capture.usage \/ chunk.usage,
    tools |-> capture.tools \union ({chunk.call} \ {NoBlock}), truncated |-> FALSE,
    error |-> capture.error \/ chunk.error],
   [capture EXCEPT !.truncated = TRUE]}

Delivered(p) ==
  /\ anthropic' = p.m
  /\ client' = FoldLeft(Sees, client, p.out)

Respond(flags, positions) ==
  /\ responses' = responses \union flags
  /\ reader' = FoldLeft(Reads, reader, positions)

Nothing == [m |-> anthropic, out |-> <<>>]

FeedChunk(chunk, next) ==
  /\ upstream' = next
  /\ capture' \in IF capture.truncated THEN {capture} ELSE Captured(chunk)
  /\ Delivered(Translate(Nothing, chunk))
  /\ IF chunk.text THEN Respond({"created", "item", "part"}, RespondText)
     ELSE UNCHANGED <<responses, reader>>

Chunk == [choice |-> TRUE, text |-> FALSE, call |-> NoBlock, arguments |-> FALSE,
          finish |-> "none", usage |-> FALSE, error |-> FALSE]

\* Text, or a chunk that carries only the role.
SendText(text) ==
  /\ upstream = "text" \/ (upstream = "tools" /\ ~TextFirst)
  /\ FeedChunk([Chunk EXCEPT !.text = text], upstream)

\* A tool call: its name, or arguments, or both.
SendTool(c, arguments) ==
  /\ upstream \in {"text", "tools"}
  /\ FeedChunk([Chunk EXCEPT !.call = c, !.arguments = arguments], "tools")

\* The finish reason, perhaps together with the last text.
SendFinish(reason, text) ==
  /\ upstream \in {"text", "tools"}
  /\ text => upstream = "text"
  /\ FeedChunk([Chunk EXCEPT !.finish = reason, !.text = text], "finished")

SendUsage ==
  /\ upstream = "finished"
  /\ FeedChunk([Chunk EXCEPT !.choice = FALSE, !.usage = TRUE], "finished")

\* An error inside the stream.
SendError ==
  /\ upstream \in {"text", "tools"}
  /\ FeedChunk([Chunk EXCEPT !.choice = FALSE, !.error = TRUE], "failed")

\* [DONE], and the end of the stream, at which finish() is called; the stream
\* may end without [DONE], or early.
Conclude(next) ==
  /\ upstream' = next
  /\ \E promoted \in {"no", "tool", "both"} : Delivered(Terminate(Nothing, promoted))
  /\ Respond({"created", "completed"}
                \union (IF "part" \in responses THEN {"partDone"} ELSE {})
                \union (IF "item" \in responses THEN {"itemDone"} ELSE {}), CloseResponse)
  /\ UNCHANGED capture

SendDone == upstream \in {"finished", "failed"} /\ Conclude("done")
Close == upstream \notin {"closed", "cut"} /\ Conclude("closed")

\* The upstream call raises, or the client leaves: nothing more is sent.
CutStream ==
  /\ upstream \notin {"closed", "cut"}
  /\ upstream' = "cut"
  /\ UNCHANGED <<anthropic, client, responses, reader, capture>>

StreamNext ==
  \/ \E text \in BOOLEAN : \/ SendText(text)
                           \/ \E reason \in {"stop", "tool_calls", "length"} :
                                SendFinish(reason, text)
  \/ \E c \in ToolCalls, arguments \in BOOLEAN : SendTool(c, arguments)
  \/ SendUsage \/ SendError \/ SendDone \/ Close \/ CutStream

StreamSpec == StreamInit /\ [][StreamNext]_streamVars

-----------------------------------------------------------------------------
\* However the upstream mixes text, tool calls, ends and errors, a client of the
\* Messages API reads a well-formed message: no block is started twice, no
\* delta reaches a block of another source or a stopped one, and nothing is
\* open when the message ends (formats/anthropic.py:366-665).
MessageWellFormed ==
  /\ ~client.broken
  /\ upstream = "closed" => client.phase \in {"ended", "error"}

\* The Responses events come in their order, each once, and the stream that was
\* not cut is completed, also if it had no text (formats/openai_responses.py:277-336).
ResponseInOrder ==
  /\ ~reader.broken
  /\ upstream = "closed" => reader.last = Len(Protocol)

\* parse_sse_for_outcome calls an answer empty if tokens were billed and neither
\* text nor a tool call was captured.
WasEmpty == capture.usage /\ ~capture.text /\ capture.tools = {}

\* A call recorded as empty, which counts against its model, showed its client
\* no block, truncated or not (streaming.py:238-242).
EmptyMeansNothingShown ==
  WasEmpty => \A b \in Blocks : client.blocks[b].source = NoBlock

===============================================================================
