------------------------------ MODULE Conversations ------------------------------
(***************************************************************************)
(* A client of the Messages or the Responses API talks to a model behind   *)
(* the Chat API: each request carries the whole history, which the gateway *)
(* translates anew (formats/anthropic.py, formats/openai_responses.py),    *)
(* and each answer is translated back and becomes part of that history.    *)
(* What a message says is abstracted to which blocks it has.               *)
(***************************************************************************)
EXTENDS Naturals, SequencesExt

CONSTANTS Normalizing,  \* nautgate_harness_normalize
          AnswerBound   \* bound: answers of one conversation

ASSUME ConversationAssumption == Normalizing \in BOOLEAN /\ AnswerBound \in Nat

VARIABLES wire,     \* the API the client speaks
          history,  \* the messages the client has sent and received
          asked,    \* what the model was last asked
          said      \* history: the model's answers

talkVars == <<wire, history, asked, said>>

NoId == <<>>
Block(type) == [type |-> type, id |-> NoId, args |-> "none"]
TextBlock == Block("text")

\* The members of a sequence of records whose field has one of the values, in their order.
Those(s, field, values) ==
  FoldLeft(LAMBDA kept, x : IF x[field] \in values THEN Append(kept, x) ELSE kept, <<>>, s)

Of(content, types) == Those(content, "type", types)
Types(blocks) == [i \in DOMAIN blocks |-> blocks[i].type]

ChatMessage(role, blocks) ==
  [role |-> role, content |-> Types(blocks), calls |-> <<>>, answers |-> NoId]
SystemMessage == ChatMessage("system", <<TextBlock>>)

TalkTypeOK ==
  /\ wire \in {"messages", "responses"}
  /\ \A i \in DOMAIN history : history[i].role \in {"user", "assistant"}
  /\ \A i \in DOMAIN asked : asked[i].role \in {"system", "user", "assistant", "tool"}
  /\ Len(said) \in 0..AnswerBound

ConversationInit ==
  /\ wire \in {"messages", "responses"}
  /\ history = <<>> /\ asked = <<>> /\ said = <<>>

-----------------------------------------------------------------------------
(* Requests.                                                               *)

\* Blocks of other types are dropped.
NormalizeBlocks(content) == Of(content, {"text", "image"})

AssistantWithCalls(content) ==
  LET uses == Of(content, {"tool_use"})
  IN [ChatMessage("assistant", Of(content, {"text"})) EXCEPT
        !.calls = [i \in DOMAIN uses |-> [id |-> uses[i].id, args |-> uses[i].args]]]

ToolMessages(content) ==
  LET results == Of(content, {"tool_result"})
      message == ChatMessage("tool", <<TextBlock>>)
  IN [i \in DOMAIN results |-> [message EXCEPT !.answers = results[i].id]]

UserBeside(content) ==
  LET shown == NormalizeBlocks(content)
  IN IF shown = <<>> THEN <<>> ELSE <<ChatMessage("user", shown)>>

\* Mutant: what stands beside the results is told before them.
ResultsLast(content) == UserBeside(content) \o ToolMessages(content)

ResultsFirst(content) == ToolMessages(content) \o UserBeside(content)

TranslateMessage(m) ==
  IF m.role = "assistant" /\ Of(m.content, {"tool_use"}) # <<>>
  THEN <<AssistantWithCalls(m.content)>>
  ELSE IF m.role = "user" /\ Of(m.content, {"tool_result"}) # <<>>
  THEN ResultsFirst(m.content)
  ELSE <<ChatMessage(m.role, NormalizeBlocks(m.content))>>

\* An item of the Responses API whose blocks are all dropped is dropped too.
TranslateItem(m) ==
  LET shown == NormalizeBlocks(m.content)
  IN IF shown = <<>> THEN <<>> ELSE <<ChatMessage(m.role, shown)>>

MessagesToChat(h) == <<SystemMessage>> \o FlattenSeq([i \in DOMAIN h |-> TranslateMessage(h[i])])
ResponsesToChat(h) == <<SystemMessage>> \o FlattenSeq([i \in DOMAIN h |-> TranslateItem(h[i])])

-----------------------------------------------------------------------------
(* Answers.  A model that emits its call as text has it promoted, if the   *)
(* harness module is on.                                                   *)

Invocation(id, args) == [id |-> id, args |-> args]
Extract(answer) ==
  IF answer.text = "pseudo" THEN <<Invocation(<<"call", Len(said)>>, "json")>> ELSE <<>>

Promote(answer) ==
  IF Normalizing /\ answer.calls = <<>> /\ Extract(answer) # <<>>
  THEN [text |-> "none", calls |-> Extract(answer)] ELSE answer

\* An id that is missing is made up; arguments that do not parse become an empty object.
ToolUse(call, i) ==
  [type |-> "tool_use", id |-> IF call.id = NoId THEN <<"toolu", Len(said), i>> ELSE call.id,
   args |-> IF call.args = "torn" THEN "empty" ELSE call.args]

TextBlocks(answer) == IF answer.text = "none" THEN <<>> ELSE <<TextBlock>>

ToMessages(answer) ==
  LET a == Promote(answer)
  IN TextBlocks(a) \o [i \in DOMAIN a.calls |-> ToolUse(a.calls[i], i)]

\* The Responses side has no place for calls.
ToResponses(answer) == TextBlocks(answer)

-----------------------------------------------------------------------------
(* Turns.                                                                  *)

ClientsTurn == history # <<>> => Last(history).role = "assistant"
Open == IF history = <<>> THEN <<>> ELSE Of(Last(history).content, {"tool_use"})

\* chat_completions of the bridge: the whole history again.
Request(content) ==
  LET h == Append(history, [role |-> "user", content |-> content])
  IN /\ history' = h
     /\ asked' = IF wire = "messages" THEN MessagesToChat(h) ELSE ResponsesToChat(h)
     /\ UNCHANGED <<wire, said>>

Openings == {<<TextBlock>>, <<TextBlock, Block("image")>>, <<Block("thinking"), TextBlock>>}

AskAnew ==
  /\ ClientsTurn /\ Open = <<>>
  /\ Len(said) < AnswerBound
  /\ \E content \in Openings : Request(content)

\* The client runs every tool it was asked to and may add text, before or after the results.
ReturnResults ==
  /\ ClientsTurn /\ Open # <<>>
  /\ LET results == [i \in DOMAIN Open |-> [Open[i] EXCEPT !.type = "tool_result"]]
     IN \E inOrder \in {results, Reverse(results)}, beside \in {<<>>, <<TextBlock>>},
           before \in BOOLEAN :
          Request(IF before THEN beside \o inOrder ELSE inOrder \o beside)

Callings == LET given == <<"call", Len(said), 0>>
            IN {<<>>, <<Invocation(given, "json")>>, <<Invocation(NoId, "json")>>,
                <<Invocation(given, "torn")>>,
                <<Invocation(given, "json"), Invocation(NoId, "torn")>>}

Reply ==
  /\ ~ClientsTurn
  /\ Len(said) < AnswerBound
  /\ \E answer \in [text : {"none", "plain", "pseudo"}, calls : Callings] :
       /\ said' = Append(said, answer)
       /\ history' = Append(history, [role |-> "assistant",
            content |-> IF wire = "messages" THEN ToMessages(answer) ELSE ToResponses(answer)])
  /\ UNCHANGED <<wire, asked>>

ConversationNext == AskAnew \/ ReturnResults \/ Reply

-----------------------------------------------------------------------------

Told == Those(asked, "role", {"assistant"})

\* The gateway's view of an answer it had promoted a call in.
Heard(answer) ==
  IF Normalizing /\ answer.text = "pseudo" /\ answer.calls = <<>>
  THEN [text |-> "none", calls |-> <<Invocation(NoId, "json")>>] ELSE answer

Agrees(message, answer) ==
  /\ (message.content = <<>>) = (answer.text = "none")
  /\ Len(message.calls) = Len(answer.calls)
  /\ \A i \in DOMAIN answer.calls :
       /\ answer.calls[i].id \in {NoId, message.calls[i].id}
       /\ answer.calls[i].args \in {"torn", message.calls[i].args}

\* Behind a message with calls come their results, each once, before anything else; and no
\* result stands elsewhere.
ResultsInPlace ==
  /\ \A i \in DOMAIN asked :
       LET n == Len(asked[i].calls)
       IN n > 0 => /\ i + n <= Len(asked)
                   /\ {asked[i + j].answers : j \in 1..n} = {asked[i].calls[j].id : j \in 1..n}
  /\ Len(Those(asked, "role", {"tool"}))
       = FoldFunction(LAMBDA m, n : Len(m.calls) + n, 0, asked)

\* When a model is asked again, it is told its own answers as it gave them, in order, with the
\* results of its calls right behind them; a client of the Responses API brings back the texts
\* (formats/anthropic.py:86-241, openai_responses.py:46-95).
HistorySurvives ==
  ~ClientsTurn =>
    IF wire = "messages"
    THEN /\ Len(Told) = Len(said)
         /\ \A k \in DOMAIN Told : Agrees(Told[k], Heard(said[k]))
         /\ ResultsInPlace
    ELSE Len(Told) = Len(Those(said, "text", {"plain", "pseudo"}))

==================================================================================
