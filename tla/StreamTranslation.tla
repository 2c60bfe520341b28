-------------------------- MODULE StreamTranslation --------------------------
(***************************************************************************)
(* A streamed answer of /v1/messages: handleAnthropicStream                *)
(* (src/instance/handler.go) reads OpenAI chunks from upstream,            *)
(* TranslateChunkToAnthropicEvents (src/anthropic/stream_translation.go)   *)
(* turns each into Anthropic events, and a client follows the events.      *)
(*                                                                         *)
(* A chunk is what the translation looks at: whether it has usage, text,   *)
(* a piece of a tool call and a finish_reason.  A chunk with several tool  *)
(* calls or choices is translated like several chunks with one each, and a *)
(* choice without delta like one with an empty delta.  Lines that are not  *)
(* data or do not parse are skipped by the code and left out.              *)
(*                                                                         *)
(* The client keeps the protocol: message_start first, blocks numbered from*)
(* 0 and never two open, deltas in a block of their kind, a message_delta  *)
(* once all blocks are closed, message_stop last.  `broken` collects the   *)
(* rules that an event it was sent did not keep.                           *)
(***************************************************************************)
EXTENDS Naturals

CONSTANTS
    ToolIndices,   \* the values of tool_calls[].index
    NoCall,
    MaxBlocks      \* bound on the content blocks and tool calls of a stream

ASSUME StreamAssumption ==
    /\ ToolIndices \subseteq Nat
    /\ NoCall \notin Nat
    /\ MaxBlocks \in Nat

VARIABLES
    s,      \* AnthropicStreamState
    cl,     \* the client's view of the stream
    up,     \* what upstream has sent
    ending  \* how handleAnthropicStream ended, "none" while it runs

vars == <<s, cl, up, ending>>

Piece == [idx : ToolIndices, id : BOOLEAN, args : BOOLEAN]
Chunk == [usage : BOOLEAN, text : BOOLEAN, call : Piece \cup {NoCall}, finish : BOOLEAN]

Rules == {"start", "nesting", "text", "tool", "closed", "end"}
Phases == {"before", "message", "delta", "stopped"}

\* call is the tool call a tool_use block is for; the client only learns
\* which block, so it is what tells a mix-up (history).
Block == [type : {"none", "text", "tool"}, call : ToolIndices \cup {NoCall}]
NoBlock == [type |-> "none", call |-> NoCall]

State == [MessageStartSent : BOOLEAN, ContentBlockOpen : BOOLEAN, ContentBlockIndex : Nat,
          ToolCalls : SUBSET ToolIndices, Usage : BOOLEAN]
Client == [phase : Phases, block : Block, blocks : Nat, usage : BOOLEAN, broken : SUBSET Rules]
\* timely: usage came no later than a finish_reason.
Upstream == [tools : Nat, finished : BOOLEAN, usage : BOOLEAN, timely : BOOLEAN,
             inOrder : BOOLEAN]

TypeOK ==
    /\ s \in State
    /\ cl \in Client
    /\ up \in Upstream
    /\ ending \in {"none", "done", "dropped", "failed", "clientGone"}

Init ==
    /\ s = [MessageStartSent |-> FALSE, ContentBlockOpen |-> FALSE,
            ContentBlockIndex |-> 0, ToolCalls |-> {}, Usage |-> FALSE]
    /\ cl = [phase |-> "before", block |-> NoBlock, blocks |-> 0, usage |-> FALSE, broken |-> {}]
    /\ up = [tools |-> 0, finished |-> FALSE, usage |-> FALSE, timely |-> FALSE,
             inOrder |-> TRUE]
    /\ ending = "none"

-----------------------------------------------------------------------------
(* The client: what each event does, and the rules it must keep.           *)

Breaks(c, rule, kept) == [c EXCEPT !.broken = IF kept THEN @ ELSE @ \cup {rule}]

InMessage(c) == Breaks(Breaks(c, "start", c.phase # "before"), "end", c.phase \notin {"delta", "stopped"})

MessageStart(c) == [Breaks(c, "start", c.phase = "before") EXCEPT !.phase = "message"]

BlockStart(c, index, block) ==
    [Breaks(InMessage(c), "nesting", c.block = NoBlock /\ index = c.blocks)
        EXCEPT !.block = block]

BlockStop(c, index) ==
    [Breaks(InMessage(c), "nesting", c.block # NoBlock /\ index = c.blocks)
        EXCEPT !.block = NoBlock, !.blocks = @ + 1]

TextDelta(c, index) ==
    Breaks(InMessage(c), "text", c.block.type = "text" /\ index = c.blocks)

ToolDelta(c, index, call) ==
    Breaks(InMessage(c), "tool", c.block.type = "tool" /\ c.block.call = call /\ index = c.blocks)

MessageDeltaEvent(c, usage) ==
    [Breaks(InMessage(c), "closed", c.block = NoBlock)
        EXCEPT !.phase = "delta", !.usage = usage]

MessageStop(c) ==
    [Breaks(Breaks(Breaks(c, "start", c.phase # "before"), "end", c.phase # "stopped"),
            "closed", c.block = NoBlock)
        EXCEPT !.phase = "stopped"]

-----------------------------------------------------------------------------
(* TranslateChunkToAnthropicEvents, on pairs of the translator's state and *)
(* the client that gets its events.                                        *)

\* Mutant: the index stays where it was.
closeContentBlock_SameIndex(p) ==
    IF ~p.s.ContentBlockOpen THEN p
    ELSE [s |-> [p.s EXCEPT !.ContentBlockOpen = FALSE],
          cl |-> BlockStop(p.cl, p.s.ContentBlockIndex)]

closeContentBlock(p) ==
    IF ~p.s.ContentBlockOpen THEN p
    ELSE [s |-> [p.s EXCEPT !.ContentBlockOpen = FALSE, !.ContentBlockIndex = @ + 1],
          cl |-> BlockStop(p.cl, p.s.ContentBlockIndex)]

openBlock(p, block) ==
    [s |-> [p.s EXCEPT !.ContentBlockOpen = TRUE],
     cl |-> BlockStart(p.cl, p.s.ContentBlockIndex, block)]

\* Mutant: a chunk that starts the message has no usage yet.
OnStart_DropsFirst(p, chunk) ==
    IF p.s.MessageStartSent THEN [p EXCEPT !.s.Usage = @ \/ chunk.usage]
    ELSE [s |-> [p.s EXCEPT !.MessageStartSent = TRUE], cl |-> MessageStart(p.cl)]

OnStart(p, chunk) ==
    LET t == [p.s EXCEPT !.Usage = @ \/ chunk.usage] IN
    IF t.MessageStartSent THEN [p EXCEPT !.s = t]
    ELSE [s |-> [t EXCEPT !.MessageStartSent = TRUE], cl |-> MessageStart(p.cl)]

\* Mutant: text goes on in whatever block is open.
OnText_NoReopen(p, chunk) ==
    IF ~chunk.text THEN p
    ELSE LET q == IF ~p.s.ContentBlockOpen
                    THEN openBlock(p, [type |-> "text", call |-> NoCall])
                    ELSE p
         IN  [q EXCEPT !.cl = TextDelta(@, q.s.ContentBlockIndex)]

\* After a tool call every piece of text opens a block of its own.
OnText(p, chunk) ==
    IF ~chunk.text THEN p
    ELSE LET q == IF ~p.s.ContentBlockOpen \/ p.s.ToolCalls # {}
                    THEN openBlock(closeContentBlock(p), [type |-> "text", call |-> NoCall])
                    ELSE p
         IN  [q EXCEPT !.cl = TextDelta(@, q.s.ContentBlockIndex)]

\* Another tool call starts; it is filed in the map state.ToolCalls.
openToolBlock(p, call) ==
    LET q == closeContentBlock(p)
    IN  openBlock([q EXCEPT !.s.ToolCalls = @ \cup {call}], [type |-> "tool", call |-> call])

\* Mutant: the block of the first call serves all of them.
OnCall_FirstOnly(p, chunk) ==
    IF chunk.call = NoCall THEN p
    ELSE LET call == chunk.call
             q == IF call.id /\ p.s.ToolCalls = {} THEN openToolBlock(p, call.idx) ELSE p
         IN  IF call.args THEN [q EXCEPT !.cl = ToolDelta(@, q.s.ContentBlockIndex, call.idx)] ELSE q

\* Arguments go to the block that is open, whatever call they are for.
OnCall(p, chunk) ==
    IF chunk.call = NoCall THEN p
    ELSE LET call == chunk.call
             q == IF call.id THEN openToolBlock(p, call.idx) ELSE p
         IN  IF call.args THEN [q EXCEPT !.cl = ToolDelta(@, q.s.ContentBlockIndex, call.idx)] ELSE q

\* Mutant: the open block is left to message_stop.
OnFinish_LeavesOpen(p, chunk) ==
    IF ~chunk.finish THEN p ELSE [p EXCEPT !.cl = MessageDeltaEvent(@, p.s.Usage)]

OnFinish(p, chunk) ==
    IF ~chunk.finish THEN p
    ELSE LET q == closeContentBlock(p)
         IN  [q EXCEPT !.cl = MessageDeltaEvent(@, q.s.Usage)]

Translate(p, chunk) == OnFinish(OnCall(OnText(OnStart(p, chunk), chunk), chunk), chunk)

-----------------------------------------------------------------------------
(* handleAnthropicStream *)

(* OpenAI's order: text, then tool calls one after the other, each begun by*)
(* a piece with its id, then finish_reason, then perhaps usage alone.      *)
InOrder(chunk) ==
    /\ up.finished => ~chunk.text /\ chunk.call = NoCall /\ ~chunk.finish
    /\ chunk.text => up.tools = 0
    /\ chunk.call # NoCall =>
          IF chunk.call.id THEN chunk.call.idx = up.tools
                           ELSE chunk.call.idx + 1 = up.tools

Read(chunk) ==
    /\ ending = "none"
    /\ s.ContentBlockIndex < MaxBlocks /\ up.tools < MaxBlocks
    /\ LET p == Translate([s |-> s, cl |-> cl], chunk) IN s' = p.s /\ cl' = p.cl
    /\ up' = [tools |-> IF chunk.call # NoCall /\ chunk.call.id THEN up.tools + 1 ELSE up.tools,
              finished |-> up.finished \/ chunk.finish,
              usage |-> up.usage \/ chunk.usage,
              timely |-> up.timely \/ (chunk.finish /\ (up.usage \/ chunk.usage)),
              inOrder |-> up.inOrder /\ InOrder(chunk)]
    /\ UNCHANGED ending

(* "[DONE]": message_stop, and the handler returns.  In order, there was a *)
(* finish_reason.                                                          *)
Done ==
    /\ ending = "none"
    /\ cl' = MessageStop(cl)
    /\ up' = [up EXCEPT !.inOrder = @ /\ up.finished]
    /\ ending' = "done"
    /\ UNCHANGED s

(* Upstream closed without [DONE]: message_stop all the same. *)
Dropped ==
    /\ ending = "none"
    /\ cl' = MessageStop(cl)
    /\ ending' = "dropped"
    /\ UNCHANGED <<s, up>>

(* The scanner failed: an error event; or the client is gone, or cannot be *)
(* written to: nothing more.                                               *)
CutShort ==
    /\ ending = "none"
    /\ ending' \in {"failed", "clientGone"}
    /\ UNCHANGED <<s, cl, up>>

Next ==
    \/ \E chunk \in Chunk : Read(chunk)
    \/ Done \/ Dropped \/ CutShort

Spec == Init /\ [][Next]_vars

-----------------------------------------------------------------------------
(* Properties *)

(* Whatever upstream sends: blocks are numbered in order, one is closed    *)
(* before the next is opened, only an open one is closed, and text lands in*)
(* an open text block.                                                     *)
BlocksNest == {"nesting", "text"} \cap cl.broken = {}

(* From an upstream that keeps its order: the arguments of a tool call land*)
(* in the block of that call.                                              *)
ToolInputInOwnBlock == up.inOrder => "tool" \notin cl.broken

(* Such an upstream's stream that runs to its [DONE] keeps every rule.     *)
CompleteStreamConforms ==
    ending = "done" /\ up.inOrder => cl.phase = "stopped" /\ cl.block = NoBlock /\ cl.broken = {}

(* Whatever upstream sends: usage that is there when message_delta is sent,*)
(* at the latest in the chunk with the finish_reason, reaches the client,  *)
(* and no later message_delta takes it back.                               *)
TimelyUsageArrives == up.timely => cl.usage

-----------------------------------------------------------------------------
(* What is said of streams, and does not hold (the README has the          *)
(* counterexamples).                                                       *)

(* "Streaming SSE: Full support for streaming responses in both OpenAI and *)
(* Anthropic formats" (README.md:24), and StreamOptions{IncludeUsage: true}*)
(* (translate_request.go:25): the usage upstream sends reaches the client. *)
UsageReachesClient == ending = "done" /\ up.inOrder /\ up.usage => cl.usage

(* "Upstream closed without [DONE], sending message_stop" (handler.go:276):*)
(* the stream is brought to a proper end, its blocks closed.               *)
DroppedStreamIsClosed == ending = "dropped" => cl.block = NoBlock
=============================================================================
