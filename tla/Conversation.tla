----------------------------- MODULE Conversation -----------------------------
(***************************************************************************)
(* A conversation over /v1/messages: TranslateToOpenAI                     *)
(* (src/anthropic/translate_request.go), TranslateToAnthropic              *)
(* (src/anthropic/translate_response.go) and the headers that              *)
(* DoMessagesProxy (src/instance/handler.go) derives from a request.       *)
(*                                                                         *)
(* The proxy keeps nothing between requests: the client sends the whole    *)
(* conversation each time, with the answers as it got them, and each is    *)
(* translated there and back.  Upstream must recognise its own messages.   *)
(*                                                                         *)
(* Texts and images are told apart from each other only; nil content is an *)
(* empty sequence, a joined text the sequence of what was joined.  The     *)
(* system prompt, the tools and the scalar parameters are translated field *)
(* by field and left out, as are thinking blocks, which no answer of the   *)
(* proxy holds.  An image without source is a "bare_image", and arguments  *)
(* with a number that float64 cannot hold are "precise".                   *)
(***************************************************************************)
EXTENDS Naturals, Sequences, SequencesExt

CONSTANTS
    Calls,          \* tool call IDs
    NoCallID,
    Arguments,      \* what upstream may send as a call's arguments
    MaxMessages,    \* bounds on the messages of a conversation,
    MaxChoices,     \* the choices of a response
    MaxExtras       \* and the blocks of the user's messages besides results

ASSUME ConversationAssumption ==
    /\ NoCallID \notin Calls
    /\ Arguments \subseteq {"json", "precise", "empty", "broken"}
    /\ MaxMessages \in Nat /\ MaxChoices \in Nat \ {0} /\ MaxExtras \in Nat

VARIABLES
    messages,   \* the conversation, as the client has it
    said        \* for each of upstream's messages what upstream said (history)

conversationVars == <<messages, said>>

\* input is the input of a tool_use: parsed arguments, {} or nil.
ContentBlock ==
    [type : {"text", "image", "bare_image", "tool_result"}, call : Calls \cup {NoCallID},
     input : {"nil"}]
        \cup [type : {"tool_use"}, call : Calls, input : {"json", "rounded", "{}", "nil"}]
Call == [id : Calls, args : {"json", "precise", "rounded", "empty", "broken", "{}", "null"}]
OpenAIMessage == [role : {"user", "assistant", "tool"}, content : Seq({"text", "image_url"}),
                  calls : Seq(Call), answers : Calls \cup {NoCallID}]

ConversationTypeOK ==
    /\ messages \in Seq([role : {"user", "assistant"}, content : Seq(ContentBlock)])
    /\ said \in Seq(OpenAIMessage)

ConversationInit == messages = << >> /\ said = << >>

Plain(type) == [type |-> type, call |-> NoCallID, input |-> "nil"]

Message(role, content, calls, answers) ==
    [role |-> role, content |-> content, calls |-> calls, answers |-> answers]

Map(s, Op(_)) == [k \in DOMAIN s |-> Op(s[k])]

\* for ... { result = append(result, ...) }
FlatMap(s, Op(_)) == FlattenSeq(Map(s, Op))

-----------------------------------------------------------------------------
(* Requests: Anthropic to OpenAI *)

\* json.Unmarshal into an interface{}: every number becomes a float64.
Decoded(json) == IF json = "precise" THEN "rounded" ELSE json

\* json.Marshal(block.Input), which was decoded with the request.
Marshalled(input) == IF input = "nil" THEN "null" ELSE Decoded(input)

TextOf(b) == IF b.type = "text" THEN <<"text">> ELSE << >>

CallOf(b) ==
    IF b.type = "tool_use" THEN << [id |-> b.call, args |-> Marshalled(b.input)] >> ELSE << >>

\* One message: its texts joined, its calls in their order.
convertAssistantMessage(blocks) ==
    << Message("assistant", FlatMap(blocks, TextOf), FlatMap(blocks, CallOf), NoCallID) >>

\* An image without source is left out.
PartOf(b) ==
    CASE b.type = "image" -> <<"image_url">>
      [] b.type = "text" -> <<"text">>
      [] OTHER -> << >>

IsResult(b) == b.type = "tool_result"

\* Mutant: what comes with results is put before them, as one message.
convertUserMessage_ResultsLast(blocks) ==
    LET Answer(b) ==
            IF IsResult(b) THEN << Message("tool", <<"text">>, << >>, b.call) >> ELSE << >>
    IN  << Message("user", FlatMap(blocks, PartOf), << >>, NoCallID) >> \o FlatMap(blocks, Answer)

\* Mutant: what comes with results is text.
convertUserMessage_NoImages(blocks) ==
    LET Split(b) ==
            CASE IsResult(b) -> << Message("tool", <<"text">>, << >>, b.call) >>
              [] b.type = "text" -> << Message("user", <<"text">>, << >>, NoCallID) >>
              [] OTHER -> << >>
    IN  IF \A k \in DOMAIN blocks : ~IsResult(blocks[k])
          THEN << Message("user", FlatMap(blocks, PartOf), << >>, NoCallID) >>
          ELSE FlatMap(blocks, Split)

MessageOf(b) ==
    CASE IsResult(b) -> << Message("tool", <<"text">>, << >>, b.call) >>
      [] b.type \in {"text", "image"} -> << Message("user", PartOf(b), << >>, NoCallID) >>
      [] OTHER -> << >>

\* One message, or with tool results among the blocks one for each block.
convertUserMessage(blocks) ==
    IF \A k \in DOMAIN blocks : ~IsResult(blocks[k])
      THEN << Message("user", FlatMap(blocks, PartOf), << >>, NoCallID) >>
      ELSE FlatMap(blocks, MessageOf)

convertMessage(m) ==
    IF m.content = << >> THEN << Message(m.role, <<"text">>, << >>, NoCallID) >>
    ELSE IF m.role = "assistant" THEN convertAssistantMessage(m.content)
    ELSE convertUserMessage(m.content)

TranslateToOpenAI(conversation) == FlatMap(conversation, convertMessage)

initiatorFromMessages(ms) ==
    IF \E k \in DOMAIN ms : ms[k].role \in {"assistant", "tool"} THEN "agent" ELSE "user"

checkVisionContent(conversation) ==
    \E k \in DOMAIN conversation :
        \E j \in DOMAIN conversation[k].content :
            conversation[k].content[j].type \in {"image", "bare_image"}

-----------------------------------------------------------------------------
(* Responses: OpenAI to Anthropic *)

\* No input for no arguments, and none of what cannot be decoded.
ParsedArguments(args) ==
    CASE args = "empty" -> "nil" [] args = "broken" -> "{}" [] OTHER -> Decoded(args)

ToolUse(c) == [type |-> "tool_use", call |-> c.id, input |-> ParsedArguments(c.args)]

BlocksOf(choice) ==
    (IF choice.text THEN << Plain("text") >> ELSE << >>) \o Map(choice.calls, ToolUse)

\* Mutant: only the first choice is looked at.
TranslateToAnthropic_FirstChoice(choices) == BlocksOf(choices[1])

\* The blocks of all choices, or an empty text.
TranslateToAnthropic(choices) ==
    LET content == FlatMap(choices, BlocksOf)
    IN  IF content = << >> THEN << Plain("text") >> ELSE content

-----------------------------------------------------------------------------
(* The client and upstream *)

Turn == IF messages = << >> THEN "user"
        ELSE IF messages[Len(messages)].role = "user" THEN "upstream" ELSE "user"

\* The calls of the last answer, in their order.
Pending ==
    IF messages = << >> THEN << >> ELSE FlatMap(messages[Len(messages)].content, CallOf)

ResultOf(c) == [type |-> "tool_result", call |-> c.id, input |-> "nil"]

ExtrasOf(m) ==
    IF m.role = "user" THEN SelectSeq(m.content, LAMBDA b : ~IsResult(b)) ELSE << >>

(* The user speaks: the results of the calls first, as Anthropic's protocol*)
(* has it, then texts and images; or these alone.                          *)
UserSpeaks ==
    /\ Turn = "user"
    /\ Len(messages) < MaxMessages
    /\ \E extras \in BoundedSeq({Plain("text"), Plain("image"), Plain("bare_image")}, MaxExtras) :
          /\ Len(FlatMap(messages, ExtrasOf)) + Len(extras) <= MaxExtras
          /\ messages' = Append(messages,
                 [role |-> "user", content |-> Map(Pending, ResultOf) \o extras])
    /\ UNCHANGED said

UsedCalls == UNION {{said[k].calls[j].id : j \in DOMAIN said[k].calls} : k \in DOMAIN said}

\* The responses upstream may give: every call has an ID of its own.
Choice == [text : BOOLEAN, calls : BoundedSeq([id : Calls \ UsedCalls, args : Arguments], 2)]
CallsOf(choice) == choice.calls
AllCalls(choices) == FlatMap(choices, CallsOf)
Responses ==
    {choices \in UNION {[1 .. n -> Choice] : n \in 1 .. MaxChoices} :
        LET cs == AllCalls(choices)
        IN  Len(cs) <= 2 /\ \A j, k \in DOMAIN cs : j # k => cs[j].id # cs[k].id}

\* What upstream has said in its choices, an empty text if nothing.
SaidText(choice) == IF choice.text THEN <<"text">> ELSE << >>
Said(choices) ==
    LET texts == FlatMap(choices, SaidText)
        calls == AllCalls(choices)
    IN  Message("assistant", IF texts = << >> /\ calls = << >> THEN <<"text">> ELSE texts,
                calls, NoCallID)

(* Upstream answers, in one choice or in several.  It remembers an answer  *)
(* without anything as one with an empty text.                             *)
UpstreamAnswers ==
    /\ Turn = "upstream"
    /\ Len(messages) < MaxMessages
    /\ \E choices \in Responses :
          /\ messages' = Append(messages,
                 [role |-> "assistant", content |-> TranslateToAnthropic(choices)])
          /\ said' = Append(said, Said(choices))

ConversationNext == UserSpeaks \/ UpstreamAnswers

ConversationSpec == ConversationInit /\ [][ConversationNext]_conversationVars

-----------------------------------------------------------------------------
(* Properties *)

Request == TranslateToOpenAI(messages)

(* Upstream gets each of its answers back, of one choice or of several:    *)
(* its texts, and its calls with their IDs and with arguments that can be  *)
(* decoded: those it gave if they were JSON, with the numbers rounded that *)
(* float64 cannot hold, and in place of others an empty object or null.    *)
SameCall(c, d) ==
    /\ c.id = d.id
    /\ c.args = CASE d.args = "json" -> "json"
                  [] d.args = "precise" -> "rounded"
                  [] d.args = "empty" -> "null"
                  [] d.args = "broken" -> "{}"

SameMessage(m, n) ==
    /\ m.content = n.content /\ m.answers = n.answers
    /\ Len(m.calls) = Len(n.calls)
    /\ \A k \in DOMAIN n.calls : SameCall(m.calls[k], n.calls[k])

AnswerOf(m) == IF m.role = "assistant" THEN <<m>> ELSE << >>

AnswersComeBack ==
    LET back == FlatMap(Request, AnswerOf)
    IN  /\ Len(back) = Len(said)
        /\ \A k \in DOMAIN said : SameMessage(back[k], said[k])

(* A conversation that keeps Anthropic's order keeps OpenAI's: every call  *)
(* is answered, in the messages right after the one that makes it, and     *)
(* every tool message answers such a call.                                 *)
Ids(calls) == {calls[j].id : j \in DOMAIN calls}

ToolResultsFollowCalls ==
    LET sent == Request IN
    /\ \A k \in DOMAIN sent :
          LET n == Len(sent[k].calls) IN
          n > 0 /\ k < Len(sent) =>
              /\ k + n <= Len(sent)
              /\ {sent[j].answers : j \in k + 1 .. k + n} = Ids(sent[k].calls)
    /\ \A k \in DOMAIN sent :
          sent[k].role = "tool" =>
              \E j \in 1 .. k - 1 :
                  /\ sent[k].answers \in Ids(sent[j].calls)
                  /\ \A l \in j + 1 .. k : sent[l].role = "tool"

(* The two headers derived from a request are right about it: X-Initiator  *)
(* is "user" for the first request of a conversation, which has no answer  *)
(* yet, and "agent" for every other; and the vision header, which is       *)
(* derived before the translation, is sent with every request that has an  *)
(* image after it, and else only where the client sent an image without    *)
(* its source.                                                             *)
ShowsImage(sent) ==
    \E k \in DOMAIN sent : \E j \in DOMAIN sent[k].content : sent[k].content[j] = "image_url"

Holds(conversation, type) ==
    \E k \in DOMAIN conversation :
        \E j \in DOMAIN conversation[k].content : conversation[k].content[j].type = type

HeadersMatch ==
    LET sent == Request IN
    messages # << >> =>
        /\ initiatorFromMessages(sent) = (IF said = << >> THEN "user" ELSE "agent")
        /\ ShowsImage(sent) => checkVisionContent(messages)
        /\ checkVisionContent(messages) => ShowsImage(sent) \/ Holds(messages, "bare_image")

-----------------------------------------------------------------------------
(* What the code does not do                                               *)

(* "Parse arguments as JSON", translate_response.go:34, says that what is  *)
(* JSON comes back with the value it had.  False: 9007199254740993 comes   *)
(* back as 9007199254740992, the float64 nearest to it.                    *)
ArgumentsComeBack ==
    LET back == FlatMap(Request, AnswerOf) IN
    \A k \in DOMAIN said : \A j \in DOMAIN said[k].calls :
        said[k].calls[j].args \in {"json", "precise"} =>
            back[k].calls[j].args = said[k].calls[j].args

(* checkVisionContent asks for an image, handler.go:506; the header it     *)
(* decides on goes out with requests that have none left.                  *)
VisionMeansImage == messages # << >> => (checkVisionContent(messages) <=> ShowsImage(Request))
=============================================================================
