-------------------------- MODULE TranslationProofs --------------------------
(***************************************************************************)
(* Proofs about package anthropic: StreamTranslation.tla, for every set of *)
(* tool indices and streams of any length; then Conversation.tla, for any  *)
(* calls, any number of messages, choices and blocks.                      *)
(***************************************************************************)
EXTENDS StreamTranslation, Conversation, FiniteSetTheorems, WellFoundedInduction, TLAPS

-----------------------------------------------------------------------------
(***************************************************************************)
(* The stream.  The translator does not see its client, so what it         *)
(* remembers must tell what the client has: Coupled says so, of any        *)
(* upstream.  Clean adds what an upstream that keeps its order makes true. *)
(* Each of the four stages of a chunk keeps both.                          *)
(***************************************************************************)
Pair == [s : State, cl : Client]

(* The translator knows which block its client has open, and that it is a  *)
(* text block unless there was a tool call.                                *)
Coupled(p) ==
    /\ p.cl.blocks = p.s.ContentBlockIndex
    /\ p.s.ContentBlockOpen <=> p.cl.block # NoBlock
    /\ p.s.ContentBlockOpen /\ p.s.ToolCalls = {} => p.cl.block.type = "text"
    /\ "nesting" \notin p.cl.broken
    /\ "text" \notin p.cl.broken

(* After `tools` tool calls, kept in order, the block of the last is open. *)
Clean(p, tools) ==
    /\ p.s.MessageStartSent
    /\ p.cl.phase \in {"message", "delta"}
    /\ p.cl.broken = {}
    /\ p.cl.phase = "delta" => ~p.s.ContentBlockOpen
    /\ p.cl.phase = "message" /\ tools > 0 =>
          p.cl.block.type = "tool" /\ p.cl.block.call \in Nat /\ p.cl.block.call + 1 = tools

Here == [s |-> s, cl |-> cl]

(* The inductive invariant. *)
InOrderSoFar ==
    up.inOrder /\ ending = "none" =>
        IF s.MessageStartSent THEN Clean(Here, up.tools)
        ELSE cl.phase = "before" /\ cl.broken = {} /\ up.tools = 0 /\ ~s.ContentBlockOpen

FinishIsSeen ==
    up.inOrder /\ ending = "none" => (up.finished <=> cl.phase = "delta")

(* The translator remembers the usage, and no message_delta goes without.  *)
UsageIsKept ==
    /\ s.Usage = up.usage
    /\ up.timely => up.usage /\ cl.usage

IInv == TypeOK /\ Coupled(Here) /\ InOrderSoFar /\ FinishIsSeen /\ UsageIsKept
          /\ ToolInputInOwnBlock /\ CompleteStreamConforms

-----------------------------------------------------------------------------
(* The client *)

LEMMA BreaksIs ==
    ASSUME NEW c \in Client, NEW rule \in Rules, NEW kept \in BOOLEAN
    PROVE  LET d == Breaks(c, rule, kept) IN
           /\ d \in Client
           /\ d.phase = c.phase /\ d.usage = c.usage /\ d.block = c.block /\ d.blocks = c.blocks
           /\ kept => d.broken = c.broken
           /\ ~kept => d.broken = c.broken \cup {rule}
  BY DEF Breaks, Client

(* An event in the message does no harm before message_delta, and at worst *)
(* comes at the wrong time.                                                *)
LEMMA InMessageIs ==
    ASSUME NEW c \in Client
    PROVE  LET d == InMessage(c) IN
           /\ d \in Client
           /\ d.phase = c.phase /\ d.usage = c.usage /\ d.block = c.block /\ d.blocks = c.blocks
           /\ c.phase = "message" => d.broken = c.broken
           /\ \A rule \in Rules \ {"start", "end"} : rule \in d.broken <=> rule \in c.broken
<1> DEFINE e == Breaks(c, "start", c.phase # "before")
<1>1. /\ e \in Client
      /\ e.phase = c.phase /\ e.usage = c.usage /\ e.block = c.block /\ e.blocks = c.blocks
      /\ e.broken = IF c.phase # "before" THEN c.broken ELSE c.broken \cup {"start"}
  BY BreaksIs DEF Rules
<1> HIDE DEF e
<1>2. LET d == Breaks(e, "end", c.phase \notin {"delta", "stopped"}) IN
      /\ d \in Client
      /\ d.phase = e.phase /\ d.usage = e.usage /\ d.block = e.block /\ d.blocks = e.blocks
      /\ d.broken = IF c.phase \notin {"delta", "stopped"} THEN e.broken ELSE e.broken \cup {"end"}
  BY <1>1, BreaksIs DEF Rules
<1> QED  BY <1>1, <1>2 DEF InMessage, e

(* What block events and deltas have in common.                            *)
LEMMA InMessageBreaksIs ==
    ASSUME NEW c \in Client, NEW rule \in Rules \ {"start", "end"}, NEW kept \in BOOLEAN
    PROVE  LET d == Breaks(InMessage(c), rule, kept) IN
           /\ d \in Client
           /\ d.phase = c.phase /\ d.usage = c.usage /\ d.block = c.block /\ d.blocks = c.blocks
           /\ c.phase = "message" /\ kept => d.broken = c.broken
           /\ \A r \in Rules \ {"start", "end"} :
                 r \in d.broken <=> r \in c.broken \/ (r = rule /\ ~kept)
<1> DEFINE e == InMessage(c)
<1>1. /\ e \in Client
      /\ e.phase = c.phase /\ e.usage = c.usage /\ e.block = c.block /\ e.blocks = c.blocks
      /\ c.phase = "message" => e.broken = c.broken
      /\ \A r \in Rules \ {"start", "end"} : r \in e.broken <=> r \in c.broken
  BY InMessageIs
<1> HIDE DEF e
<1>2. LET d == Breaks(e, rule, kept) IN
      /\ d \in Client
      /\ d.phase = e.phase /\ d.usage = e.usage /\ d.block = e.block /\ d.blocks = e.blocks
      /\ kept => d.broken = e.broken
      /\ ~kept => d.broken = e.broken \cup {rule}
  BY <1>1, BreaksIs
<1> DEFINE d == Breaks(e, rule, kept)
<1> HIDE DEF d
<1>3. \A r \in Rules \ {"start", "end"} : r \in d.broken <=> r \in c.broken \/ (r = rule /\ ~kept)
  <2>1. CASE kept
    BY <1>1, <1>2, <2>1 DEF d
  <2>2. CASE ~kept
    BY <1>1, <1>2, <2>2 DEF d
  <2> QED  BY <2>1, <2>2
<1>4. /\ d \in Client
      /\ d.phase = c.phase /\ d.usage = c.usage /\ d.block = c.block /\ d.blocks = c.blocks
      /\ c.phase = "message" /\ kept => d.broken = c.broken
  BY <1>1, <1>2 DEF d
<1> QED  BY <1>3, <1>4 DEF d, e

-----------------------------------------------------------------------------
(* The pieces of a stage *)

(* What every piece keeps of p, while it goes on in q.                     *)
Follows(q, p) ==
    /\ q \in Pair /\ Coupled(q)
    /\ q.s.MessageStartSent = p.s.MessageStartSent /\ q.s.Usage = p.s.Usage
    /\ q.cl.phase = p.cl.phase /\ q.cl.usage = p.cl.usage
    /\ p.cl.phase = "message" => q.cl.broken = p.cl.broken

LEMMA ClosedState ==
    ASSUME NEW x \in State
    PROVE  LET t == [x EXCEPT !.ContentBlockOpen = FALSE, !.ContentBlockIndex = @ + 1] IN
           /\ t.ContentBlockOpen = FALSE /\ t.ContentBlockIndex = x.ContentBlockIndex + 1
           /\ t.ToolCalls = x.ToolCalls /\ t.MessageStartSent = x.MessageStartSent /\ t.Usage = x.Usage
           /\ t \in State
<1> DEFINE u == [x EXCEPT !.ContentBlockOpen = FALSE]
           t == [u EXCEPT !.ContentBlockIndex = x.ContentBlockIndex + 1]
<1>1. /\ u.ContentBlockOpen = FALSE /\ u.ContentBlockIndex = x.ContentBlockIndex
      /\ u.ToolCalls = x.ToolCalls /\ u.MessageStartSent = x.MessageStartSent /\ u.Usage = x.Usage
      /\ u \in State
  BY DEF State
<1>2. x.ContentBlockIndex + 1 \in Nat
  BY DEF State
<1> HIDE DEF u
<1>3. /\ t.ContentBlockOpen = FALSE /\ t.ContentBlockIndex = x.ContentBlockIndex + 1
      /\ t.ToolCalls = x.ToolCalls /\ t.MessageStartSent = x.MessageStartSent /\ t.Usage = x.Usage
      /\ t \in State
  BY <1>1, <1>2 DEF State
<1> QED  BY <1>3 DEF t, u

LEMMA ClosedClient ==
    ASSUME NEW e \in Client
    PROVE  LET d == [e EXCEPT !.block = NoBlock, !.blocks = @ + 1] IN
           /\ d.block = NoBlock /\ d.blocks = e.blocks + 1
           /\ d.phase = e.phase /\ d.usage = e.usage /\ d.broken = e.broken
           /\ d \in Client
<1> DEFINE u == [e EXCEPT !.block = NoBlock]
           d == [u EXCEPT !.blocks = e.blocks + 1]
<1>1. NoBlock \in Block
  BY DEF NoBlock, Block
<1>2. /\ u.block = NoBlock /\ u.phase = e.phase /\ u.usage = e.usage /\ u.broken = e.broken
      /\ u \in Client
  BY <1>1 DEF Client
<1>3. e.blocks + 1 \in Nat
  BY DEF Client
<1> HIDE DEF u
<1>4. /\ d.block = NoBlock /\ d.blocks = e.blocks + 1
      /\ d.phase = e.phase /\ d.usage = e.usage /\ d.broken = e.broken
      /\ d \in Client
  BY <1>2, <1>3 DEF Client
<1> QED  BY <1>4 DEF d, u

LEMMA CloseKeeps ==
    ASSUME NEW p \in Pair, Coupled(p)
    PROVE  LET q == closeContentBlock(p) IN
           /\ Follows(q, p)
           /\ ~q.s.ContentBlockOpen
           /\ q.s.ToolCalls = p.s.ToolCalls
           /\ "tool" \in q.cl.broken => "tool" \in p.cl.broken
<1>1. CASE ~p.s.ContentBlockOpen
  BY <1>1 DEF closeContentBlock, Follows
<1>2. CASE p.s.ContentBlockOpen
  <2> DEFINE e == Breaks(InMessage(p.cl), "nesting",
                         p.cl.block # NoBlock /\ p.s.ContentBlockIndex = p.cl.blocks)
  <2>1. p.s \in State /\ p.cl \in Client /\ p.cl.block # NoBlock /\ p.s.ContentBlockIndex = p.cl.blocks
    BY <1>2 DEF Pair, Coupled
  <2>2. /\ e \in Client
        /\ e.phase = p.cl.phase /\ e.usage = p.cl.usage /\ e.block = p.cl.block /\ e.blocks = p.cl.blocks
        /\ p.cl.phase = "message" => e.broken = p.cl.broken
        /\ \A r \in Rules \ {"start", "end"} : r \in e.broken <=> r \in p.cl.broken
    BY <2>1, InMessageBreaksIs DEF Rules
  <2> HIDE DEF e
  <2> DEFINE q == closeContentBlock(p)
             t == [p.s EXCEPT !.ContentBlockOpen = FALSE, !.ContentBlockIndex = @ + 1]
             d == [e EXCEPT !.block = NoBlock, !.blocks = @ + 1]
  <2>t. /\ t.ContentBlockOpen = FALSE /\ t.ContentBlockIndex = p.s.ContentBlockIndex + 1
        /\ t.ToolCalls = p.s.ToolCalls /\ t.MessageStartSent = p.s.MessageStartSent /\ t.Usage = p.s.Usage
        /\ t \in State
    BY <2>1, ClosedState
  <2>d. /\ d.block = NoBlock /\ d.blocks = p.cl.blocks + 1
        /\ d.phase = p.cl.phase /\ d.usage = p.cl.usage /\ d.broken = e.broken
        /\ d \in Client
    BY <2>2, ClosedClient
  <2>3. q = [s |-> t, cl |-> d]
    BY <1>2 DEF closeContentBlock, BlockStop, e
  <2> HIDE DEF t, d, q
  <2>4. /\ q.s.ContentBlockOpen = FALSE /\ q.s.ContentBlockIndex = p.s.ContentBlockIndex + 1
        /\ q.s.ToolCalls = p.s.ToolCalls /\ q.s.MessageStartSent = p.s.MessageStartSent /\ q.s.Usage = p.s.Usage
        /\ q.s \in State
    BY <2>3, <2>t
  <2>5. /\ q.cl.block = NoBlock /\ q.cl.blocks = p.cl.blocks + 1
        /\ q.cl.phase = p.cl.phase /\ q.cl.usage = p.cl.usage /\ q.cl.broken = e.broken
        /\ q.cl \in Client
    BY <2>3, <2>d
  <2>6. q \in Pair
    BY <2>3, <2>4, <2>5 DEF Pair
  <2>7. Coupled(q)
    BY <2>1, <2>2, <2>4, <2>5 DEF Coupled, Rules
  <2> QED
    BY <2>2, <2>4, <2>5, <2>6, <2>7 DEF Follows, Rules, q
<1> QED  BY <1>1, <1>2

LEMMA OpenKeeps ==
    ASSUME NEW p \in Pair, Coupled(p), ~p.s.ContentBlockOpen, NEW block \in Block, block # NoBlock,
           p.s.ToolCalls = {} => block.type = "text"
    PROVE  LET q == openBlock(p, block) IN
           /\ Follows(q, p)
           /\ q.s.ContentBlockOpen /\ q.cl.block = block
           /\ q.s.ToolCalls = p.s.ToolCalls
           /\ "tool" \in q.cl.broken => "tool" \in p.cl.broken
<1> DEFINE e == Breaks(InMessage(p.cl), "nesting",
                       p.cl.block = NoBlock /\ p.s.ContentBlockIndex = p.cl.blocks)
<1>1. p.s \in State /\ p.cl \in Client /\ p.cl.block = NoBlock /\ p.s.ContentBlockIndex = p.cl.blocks
  BY DEF Pair, Coupled
<1>2. /\ e \in Client
      /\ e.phase = p.cl.phase /\ e.usage = p.cl.usage /\ e.block = p.cl.block /\ e.blocks = p.cl.blocks
      /\ p.cl.phase = "message" => e.broken = p.cl.broken
      /\ \A r \in Rules \ {"start", "end"} : r \in e.broken <=> r \in p.cl.broken
  BY <1>1, InMessageBreaksIs DEF Rules
<1> HIDE DEF e
<1> DEFINE q == openBlock(p, block)
           t == [p.s EXCEPT !.ContentBlockOpen = TRUE]
           d == [e EXCEPT !.block = block]
<1>t. /\ t.ContentBlockOpen = TRUE /\ t.ContentBlockIndex = p.s.ContentBlockIndex
      /\ t.ToolCalls = p.s.ToolCalls /\ t.MessageStartSent = p.s.MessageStartSent /\ t.Usage = p.s.Usage
      /\ t \in State
  BY <1>1 DEF State
<1>d. /\ d.block = block /\ d.blocks = p.cl.blocks
      /\ d.phase = p.cl.phase /\ d.usage = p.cl.usage /\ d.broken = e.broken
      /\ d \in Client
  BY <1>2 DEF Client
<1>3. q = [s |-> t, cl |-> d]
  BY DEF openBlock, BlockStart, e
<1> HIDE DEF t, d, q
<1>4. /\ q.s.ContentBlockOpen = TRUE /\ q.s.ContentBlockIndex = p.s.ContentBlockIndex
      /\ q.s.ToolCalls = p.s.ToolCalls /\ q.s.MessageStartSent = p.s.MessageStartSent /\ q.s.Usage = p.s.Usage
      /\ q.s \in State
  BY <1>3, <1>t
<1>5. /\ q.cl.block = block /\ q.cl.blocks = p.cl.blocks
      /\ q.cl.phase = p.cl.phase /\ q.cl.usage = p.cl.usage /\ q.cl.broken = e.broken
      /\ q.cl \in Client
  BY <1>3, <1>d
<1>6. q \in Pair
  BY <1>3, <1>4, <1>5 DEF Pair
<1>7. Coupled(q)
  BY <1>1, <1>2, <1>4, <1>5 DEF Coupled, Rules
<1> QED
  BY <1>2, <1>4, <1>5, <1>6, <1>7 DEF Follows, Rules, q

LEMMA ToolBlockKeeps ==
    ASSUME NEW p \in Pair, Coupled(p), NEW call \in ToolIndices
    PROVE  LET q == openToolBlock(p, call) IN
           /\ Follows(q, p)
           /\ q.s.ContentBlockOpen /\ q.cl.block = [type |-> "tool", call |-> call]
           /\ "tool" \in q.cl.broken => "tool" \in p.cl.broken
<1> DEFINE c == closeContentBlock(p)
           d == [c EXCEPT !.s.ToolCalls = @ \cup {call}]
           block == [type |-> "tool", call |-> call]
<1>1. /\ c \in Pair /\ Coupled(c) /\ ~c.s.ContentBlockOpen
      /\ Follows(c, p)
      /\ "tool" \in c.cl.broken => "tool" \in p.cl.broken
  BY CloseKeeps DEF Follows
<1>2. openToolBlock(p, call) = openBlock(d, block)
  BY DEF openToolBlock
<1> HIDE DEF c
<1>3. d.s = [c.s EXCEPT !.ToolCalls = @ \cup {call}] /\ d.cl = c.cl /\ d = [s |-> d.s, cl |-> d.cl]
  BY <1>1 DEF Pair
<1> HIDE DEF d
<1>4. /\ d.s \in State
      /\ d.s.ContentBlockOpen = c.s.ContentBlockOpen /\ d.s.ContentBlockIndex = c.s.ContentBlockIndex
      /\ d.s.MessageStartSent = c.s.MessageStartSent /\ d.s.Usage = c.s.Usage /\ d.s.ToolCalls # {}
  BY <1>1, <1>3 DEF Pair, State
<1>5. d \in Pair /\ Coupled(d)
  BY <1>1, <1>3, <1>4 DEF Pair, Coupled
<1>6. block \in Block /\ block # NoBlock /\ block.type = "tool"
  BY DEF Block, NoBlock
<1> HIDE DEF block
<1>7. LET q == openBlock(d, block) IN
      /\ Follows(q, d)
      /\ q.s.ContentBlockOpen /\ q.cl.block = block
      /\ "tool" \in q.cl.broken => "tool" \in d.cl.broken
  BY <1>1, <1>4, <1>5, <1>6, OpenKeeps
<1> QED
  BY <1>1, <1>2, <1>3, <1>4, <1>7 DEF Follows, block

-----------------------------------------------------------------------------
(* The stages *)

LEMMA StartKeeps ==
    ASSUME NEW p \in Pair, Coupled(p), NEW chunk \in Chunk
    PROVE  LET q == OnStart(p, chunk) IN
           /\ q \in Pair /\ Coupled(q)
           /\ q.s.MessageStartSent
           /\ q.s.ContentBlockOpen = p.s.ContentBlockOpen /\ q.cl.block = p.cl.block
           /\ q.s.Usage = (p.s.Usage \/ chunk.usage) /\ q.cl.usage = p.cl.usage
           /\ "tool" \in q.cl.broken <=> "tool" \in p.cl.broken
           /\ p.s.MessageStartSent => q.cl = p.cl
           /\ ~p.s.MessageStartSent /\ p.cl.phase = "before"
                 => q.cl.phase = "message" /\ q.cl.broken = p.cl.broken
<1> DEFINE t == [p.s EXCEPT !.Usage = @ \/ chunk.usage]
           m == [t EXCEPT !.MessageStartSent = TRUE]
           e == Breaks(p.cl, "start", p.cl.phase = "before")
           d == [e EXCEPT !.phase = "message"]
<1>1. p.s \in State /\ p.cl \in Client /\ chunk.usage \in BOOLEAN
  BY DEF Pair, Chunk
<1>2. /\ t \in State /\ t.ContentBlockOpen = p.s.ContentBlockOpen /\ t.ToolCalls = p.s.ToolCalls
      /\ t.ContentBlockIndex = p.s.ContentBlockIndex /\ t.MessageStartSent = p.s.MessageStartSent
      /\ t.Usage = (p.s.Usage \/ chunk.usage)
  BY <1>1 DEF State
<1> HIDE DEF t
<1>3. /\ m \in State /\ m.ContentBlockOpen = p.s.ContentBlockOpen /\ m.ToolCalls = p.s.ToolCalls
      /\ m.ContentBlockIndex = p.s.ContentBlockIndex /\ m.MessageStartSent /\ m.Usage = t.Usage
  BY <1>2 DEF State
<1>4. /\ e \in Client
      /\ e.phase = p.cl.phase /\ e.usage = p.cl.usage /\ e.block = p.cl.block /\ e.blocks = p.cl.blocks
      /\ p.cl.phase = "before" => e.broken = p.cl.broken
      /\ p.cl.phase # "before" => e.broken = p.cl.broken \cup {"start"}
  BY <1>1, BreaksIs DEF Rules
<1> HIDE DEF e
<1>5. /\ d \in Client /\ d.phase = "message" /\ d.broken = e.broken /\ d.usage = p.cl.usage
      /\ d.block = p.cl.block /\ d.blocks = p.cl.blocks
  BY <1>4 DEF Client, Phases
<1>6. OnStart(p, chunk) = IF t.MessageStartSent THEN [p EXCEPT !.s = t] ELSE [s |-> m, cl |-> d]
  BY DEF OnStart, MessageStart, t, e
<1> HIDE DEF m, d
<1> DEFINE q == OnStart(p, chunk)
<1>7. CASE p.s.MessageStartSent
  <2>1. q.s = t /\ q.cl = p.cl /\ q \in Pair
    BY <1>1, <1>2, <1>6, <1>7 DEF Pair
  <2> HIDE DEF q
  <2>2. Coupled(q)
    BY <1>2, <2>1 DEF Coupled
  <2> QED  BY <1>2, <1>7, <2>1, <2>2 DEF q
<1>8. CASE ~p.s.MessageStartSent
  <2>1. q.s = m /\ q.cl = d /\ q \in Pair
    BY <1>2, <1>3, <1>5, <1>6, <1>8 DEF Pair
  <2> HIDE DEF q
  <2>2. Coupled(q)
    BY <1>3, <1>4, <1>5, <2>1 DEF Coupled
  <2> QED  BY <1>2, <1>3, <1>4, <1>5, <1>8, <2>1, <2>2 DEF q
<1> QED  BY <1>7, <1>8

LEMMA TextKeeps ==
    ASSUME NEW p \in Pair, Coupled(p), NEW chunk \in Chunk
    PROVE  LET q == OnText(p, chunk) IN
           /\ Follows(q, p)
           /\ ~chunk.text => q = p
           /\ "tool" \in q.cl.broken => "tool" \in p.cl.broken
<1> DEFINE c == closeContentBlock(p)
           block == [type |-> "text", call |-> NoCall]
           o == IF ~p.s.ContentBlockOpen \/ p.s.ToolCalls # {} THEN openBlock(c, block) ELSE p
<1>1. CASE ~chunk.text
  BY <1>1 DEF OnText, Follows
<1>2. CASE chunk.text
  <2>1. /\ c \in Pair /\ Coupled(c) /\ ~c.s.ContentBlockOpen /\ Follows(c, p)
        /\ "tool" \in c.cl.broken => "tool" \in p.cl.broken
    BY CloseKeeps DEF Follows
  <2>2. block \in Block /\ block # NoBlock /\ block.type = "text"
    BY DEF Block, NoBlock
  <2>3. OnText(p, chunk) = [o EXCEPT !.cl = TextDelta(@, o.s.ContentBlockIndex)]
    BY <1>2 DEF OnText
  <2> HIDE DEF c, block
  <2>4. /\ Follows(o, p) /\ o.cl.block.type = "text"
        /\ "tool" \in o.cl.broken => "tool" \in p.cl.broken
    <3>1. CASE ~p.s.ContentBlockOpen \/ p.s.ToolCalls # {}
      <4>1. LET q == openBlock(c, block) IN
            /\ Follows(q, c) /\ q.cl.block = block
            /\ "tool" \in q.cl.broken => "tool" \in c.cl.broken
        BY <2>1, <2>2, OpenKeeps
      <4> QED  BY <2>1, <2>2, <3>1, <4>1 DEF Follows
    <3>2. CASE ~(~p.s.ContentBlockOpen \/ p.s.ToolCalls # {})
      BY <3>2 DEF Follows, Coupled
    <3> QED  BY <3>1, <3>2
  <2> HIDE DEF o
  <2>5. o \in Pair /\ Coupled(o) /\ o.s \in State /\ o.cl \in Client /\ o.s.ContentBlockIndex = o.cl.blocks
    BY <2>4 DEF Follows, Pair, Coupled
  <2> DEFINE d == TextDelta(o.cl, o.s.ContentBlockIndex)
             q == OnText(p, chunk)
  <2>6. /\ d \in Client
        /\ d.phase = o.cl.phase /\ d.usage = o.cl.usage /\ d.block = o.cl.block /\ d.blocks = o.cl.blocks
        /\ o.cl.phase = "message" => d.broken = o.cl.broken
        /\ \A r \in Rules \ {"start", "end"} : r \in d.broken <=> r \in o.cl.broken
    BY <2>4, <2>5, InMessageBreaksIs DEF Rules, TextDelta
  <2> HIDE DEF d
  <2>7. q.s = o.s /\ q.cl = d /\ q \in Pair
    BY <2>3, <2>5, <2>6 DEF Pair, d
  <2> HIDE DEF q
  <2>8. Coupled(q)
    BY <2>5, <2>6, <2>7 DEF Coupled, Rules
  <2> QED  BY <1>2, <2>4, <2>6, <2>7, <2>8 DEF Follows, Rules, q
<1> QED  BY <1>1, <1>2

(* What a call needs to keep its order: a new one is the next, a piece     *)
(* without id is for the last.                                             *)
CallInOrder(call, tools) == IF call.id THEN call.idx = tools ELSE call.idx + 1 = tools

LEMMA CallKeeps ==
    ASSUME NEW p \in Pair, Coupled(p), NEW chunk \in Chunk
    PROVE  LET q == OnCall(p, chunk) IN
           /\ q \in Pair /\ Coupled(q)
           /\ q.s.MessageStartSent = p.s.MessageStartSent /\ q.s.Usage = p.s.Usage
           /\ q.cl.phase = p.cl.phase /\ q.cl.usage = p.cl.usage
           /\ chunk.call = NoCall => q = p
           /\ \A tools \in Nat :
                 /\ chunk.call # NoCall /\ CallInOrder(chunk.call, tools)
                 /\ Clean(p, tools) /\ p.cl.phase = "message"
                 => Clean(q, IF chunk.call.id THEN tools + 1 ELSE tools)
<1> DEFINE call == chunk.call
           o == IF call.id THEN openToolBlock(p, call.idx) ELSE p
<1>1. CASE chunk.call = NoCall
  BY <1>1 DEF OnCall
<1>2. CASE chunk.call # NoCall
  <2>1. call \in Piece /\ call.idx \in ToolIndices /\ call.idx \in Nat /\ call.id \in BOOLEAN
    BY <1>2, StreamAssumption DEF Chunk, Piece
  <2>2. /\ Follows(o, p)
        /\ call.id => o.s.ContentBlockOpen /\ o.cl.block = [type |-> "tool", call |-> call.idx]
        /\ ~call.id => o = p
    BY <2>1, ToolBlockKeeps DEF Follows
  <2>3. OnCall(p, chunk) =
          IF call.args THEN [o EXCEPT !.cl = ToolDelta(@, o.s.ContentBlockIndex, call.idx)] ELSE o
    BY <1>2 DEF OnCall
  <2> HIDE DEF o
  <2>4. o \in Pair /\ Coupled(o) /\ o.s \in State /\ o.cl \in Client /\ o.s.ContentBlockIndex = o.cl.blocks
    BY <2>2 DEF Follows, Pair, Coupled
  <2> DEFINE own == o.cl.block.type = "tool" /\ o.cl.block.call = call.idx
             d == IF call.args THEN ToolDelta(o.cl, o.s.ContentBlockIndex, call.idx) ELSE o.cl
             q == OnCall(p, chunk)
  <2>5. /\ d \in Client
        /\ d.phase = o.cl.phase /\ d.usage = o.cl.usage /\ d.block = o.cl.block /\ d.blocks = o.cl.blocks
        /\ o.cl.phase = "message" /\ own => d.broken = o.cl.broken
        /\ \A r \in Rules \ {"start", "end", "tool"} : r \in d.broken <=> r \in o.cl.broken
    <3>1. CASE call.args
      <4> DEFINE t == ToolDelta(o.cl, o.s.ContentBlockIndex, call.idx)
      <4>1. /\ t \in Client
            /\ t.phase = o.cl.phase /\ t.usage = o.cl.usage /\ t.block = o.cl.block /\ t.blocks = o.cl.blocks
            /\ o.cl.phase = "message" /\ own => t.broken = o.cl.broken
            /\ \A r \in Rules \ {"start", "end", "tool"} : r \in t.broken <=> r \in o.cl.broken
        <5> DEFINE kept == o.cl.block.type = "tool" /\ o.cl.block.call = call.idx
                           /\ o.s.ContentBlockIndex = o.cl.blocks
                   b == Breaks(InMessage(o.cl), "tool", kept)
        <5>1. t = b
          BY DEF ToolDelta
        <5>2. own => kept
          BY <2>4
        <5>3. "tool" \in Rules \ {"start", "end"} /\ kept \in BOOLEAN
          BY DEF Rules
        <5> HIDE DEF kept, t
        <5>4. /\ b \in Client
              /\ b.phase = o.cl.phase /\ b.usage = o.cl.usage /\ b.block = o.cl.block /\ b.blocks = o.cl.blocks
              /\ o.cl.phase = "message" /\ kept => b.broken = o.cl.broken
              /\ \A r \in Rules \ {"start", "end"} : r \in b.broken <=> r \in o.cl.broken \/ (r = "tool" /\ ~kept)
          BY <2>4, <5>3, InMessageBreaksIs
        <5> QED  BY <5>1, <5>2, <5>4
      <4> QED  BY <3>1, <4>1
    <3>2. CASE ~call.args
      BY <2>4, <3>2
    <3> QED  BY <3>1, <3>2
  <2>6. q.s = o.s /\ q.cl = d /\ q \in Pair
    BY <2>3, <2>4, <2>5 DEF Pair
  <2> HIDE DEF d, q
  <2>7. Coupled(q)
    BY <2>4, <2>5, <2>6 DEF Coupled, Rules
  <2>8. ASSUME NEW tools \in Nat, CallInOrder(call, tools), Clean(p, tools), p.cl.phase = "message"
        PROVE  Clean(q, IF call.id THEN tools + 1 ELSE tools)
    <3>1. own /\ (call.id => call.idx = tools) /\ (~call.id => tools > 0)
      BY <2>1, <2>2, <2>8 DEF CallInOrder, Clean
    <3>2. q.cl.block.type = "tool" /\ q.cl.block.call \in Nat /\ q.cl.block.call + 1 = IF call.id THEN tools + 1 ELSE tools
      BY <2>1, <2>2, <2>5, <2>6, <2>8, <3>1 DEF CallInOrder
    <3>3. q.cl.phase = "message" /\ q.cl.broken = {} /\ q.s.MessageStartSent
      BY <2>2, <2>5, <2>6, <2>8, <3>1 DEF Clean, Follows
    <3> QED  BY <3>2, <3>3 DEF Clean
  <2> QED  BY <1>2, <2>2, <2>5, <2>6, <2>7, <2>8 DEF Follows, q
<1> QED  BY <1>1, <1>2

LEMMA FinishKeeps ==
    ASSUME NEW p \in Pair, Coupled(p), NEW chunk \in Chunk
    PROVE  LET q == OnFinish(p, chunk) IN
           /\ q \in Pair /\ Coupled(q)
           /\ q.s.MessageStartSent = p.s.MessageStartSent /\ q.s.Usage = p.s.Usage
           /\ ~chunk.finish => q = p
           /\ chunk.finish => q.cl.phase = "delta" /\ ~q.s.ContentBlockOpen /\ q.cl.usage = p.s.Usage
           /\ chunk.finish /\ p.cl.phase = "message" => q.cl.broken = p.cl.broken
<1> DEFINE c == closeContentBlock(p)
           e == Breaks(InMessage(c.cl), "closed", c.cl.block = NoBlock)
           d == MessageDeltaEvent(c.cl, c.s.Usage)
           q == OnFinish(p, chunk)
<1>1. CASE ~chunk.finish
  BY <1>1 DEF OnFinish
<1>2. CASE chunk.finish
  <2>1. Follows(c, p) /\ c \in Pair /\ Coupled(c) /\ ~c.s.ContentBlockOpen
    BY CloseKeeps DEF Follows
  <2>2. q = [c EXCEPT !.cl = d]
    BY <1>2 DEF OnFinish
  <2> HIDE DEF c
  <2>3. c.s \in State /\ c.cl \in Client /\ c.cl.block = NoBlock /\ c.s.Usage \in BOOLEAN
    BY <2>1 DEF Pair, Coupled, State
  <2>4. /\ e \in Client
        /\ e.phase = c.cl.phase /\ e.usage = c.cl.usage /\ e.block = c.cl.block /\ e.blocks = c.cl.blocks
        /\ c.cl.phase = "message" => e.broken = c.cl.broken
        /\ \A r \in Rules \ {"start", "end"} : r \in e.broken <=> r \in c.cl.broken
    BY <2>3, InMessageBreaksIs DEF Rules
  <2> DEFINE u == [e EXCEPT !.phase = "delta"]
             v == [u EXCEPT !.usage = c.s.Usage]
  <2>5. d = v
    BY DEF MessageDeltaEvent
  <2> HIDE DEF e, d
  <2>6. /\ u \in Client /\ u.phase = "delta"
        /\ u.block = e.block /\ u.blocks = e.blocks /\ u.broken = e.broken
    BY <2>4 DEF Client, Phases
  <2> HIDE DEF u
  <2>7. /\ v \in Client /\ v.phase = "delta" /\ v.usage = c.s.Usage
        /\ v.block = e.block /\ v.blocks = e.blocks /\ v.broken = e.broken
    BY <2>3, <2>6 DEF Client
  <2> HIDE DEF v
  <2>8. q.s = c.s /\ q.cl = v /\ q \in Pair
    BY <2>1, <2>2, <2>3, <2>5, <2>7 DEF Pair
  <2> HIDE DEF q
  <2>9. Coupled(q)
    BY <2>1, <2>4, <2>7, <2>8 DEF Coupled, Rules
  <2> QED  BY <1>2, <2>1, <2>4, <2>7, <2>8, <2>9 DEF Follows, q
<1> QED  BY <1>1, <1>2

LEMMA TranslateKeeps ==
    ASSUME NEW p \in Pair, Coupled(p), NEW chunk \in Chunk
    PROVE  LET q == Translate(p, chunk) IN
           /\ q \in Pair /\ Coupled(q)
           /\ q.s.Usage = (p.s.Usage \/ chunk.usage)
           /\ q.cl.usage = IF chunk.finish THEN q.s.Usage ELSE p.cl.usage
<1> DEFINE a == OnStart(p, chunk)
           b == OnText(a, chunk)
           c == OnCall(b, chunk)
           q == OnFinish(c, chunk)
<1>1. /\ a \in Pair /\ Coupled(a)
      /\ a.s.Usage = (p.s.Usage \/ chunk.usage) /\ a.cl.usage = p.cl.usage
  BY StartKeeps
<1> HIDE DEF a
<1>2. b \in Pair /\ Coupled(b) /\ b.s.Usage = a.s.Usage /\ b.cl.usage = a.cl.usage
  BY <1>1, TextKeeps DEF Follows
<1> HIDE DEF b
<1>3. c \in Pair /\ Coupled(c) /\ c.s.Usage = b.s.Usage /\ c.cl.usage = b.cl.usage
  BY <1>2, CallKeeps
<1> HIDE DEF c
<1>4. /\ q \in Pair /\ Coupled(q) /\ q.s.Usage = c.s.Usage
      /\ q.cl.usage = IF chunk.finish THEN c.s.Usage ELSE c.cl.usage
  BY <1>3, FinishKeeps
<1>5. q = Translate(p, chunk)
  BY DEF Translate, a, b, c
<1> HIDE DEF q
<1> QED  BY <1>1, <1>2, <1>3, <1>4, <1>5

(* One chunk in order, from a stream in order.                             *)
LEMMA TranslateKeepsOrder ==
    ASSUME NEW p \in Pair, Coupled(p), NEW chunk \in Chunk, NEW tools \in Nat,
           NEW finished \in BOOLEAN,
           IF p.s.MessageStartSent THEN Clean(p, tools)
           ELSE p.cl.phase = "before" /\ p.cl.broken = {} /\ tools = 0 /\ ~p.s.ContentBlockOpen,
           finished <=> p.cl.phase = "delta",
           finished => ~chunk.text /\ chunk.call = NoCall /\ ~chunk.finish,
           chunk.text => tools = 0,
           chunk.call # NoCall => CallInOrder(chunk.call, tools)
    PROVE  LET q == Translate(p, chunk)
               after == IF chunk.call # NoCall /\ chunk.call.id THEN tools + 1 ELSE tools
           IN  /\ q.s.MessageStartSent /\ Clean(q, after)
               /\ (finished \/ chunk.finish) <=> q.cl.phase = "delta"
<1> DEFINE after == IF chunk.call # NoCall /\ chunk.call.id THEN tools + 1 ELSE tools
           a == OnStart(p, chunk)
           b == OnText(a, chunk)
           c == OnCall(b, chunk)
           q == OnFinish(c, chunk)
<1>1. /\ a \in Pair /\ Coupled(a) /\ Clean(a, tools)
      /\ finished <=> a.cl.phase = "delta"
  <2>1. /\ a \in Pair /\ Coupled(a) /\ a.s.MessageStartSent
        /\ a.s.ContentBlockOpen = p.s.ContentBlockOpen /\ a.cl.block = p.cl.block
        /\ p.s.MessageStartSent => a.cl = p.cl
        /\ ~p.s.MessageStartSent /\ p.cl.phase = "before"
              => a.cl.phase = "message" /\ a.cl.broken = p.cl.broken
    BY StartKeeps
  <2> HIDE DEF a
  <2>2. CASE p.s.MessageStartSent
    BY <2>1, <2>2 DEF Clean
  <2>3. CASE ~p.s.MessageStartSent
    BY <2>1, <2>3 DEF Clean
  <2> QED  BY <2>2, <2>3
<1> HIDE DEF a
<1>2. /\ b \in Pair /\ Coupled(b) /\ Clean(b, tools)
      /\ finished <=> b.cl.phase = "delta"
  <2>1. Follows(b, a) /\ (~chunk.text => b = a)
    BY <1>1, TextKeeps
  <2> HIDE DEF b
  <2>2. CASE ~chunk.text
    BY <1>1, <2>1, <2>2
  <2>3. CASE chunk.text
    BY <1>1, <2>1, <2>3 DEF Clean, Follows
  <2> QED  BY <2>2, <2>3
<1> HIDE DEF b
<1>3. /\ c \in Pair /\ Coupled(c) /\ Clean(c, after)
      /\ finished <=> c.cl.phase = "delta"
  <2>1. /\ c \in Pair /\ Coupled(c) /\ c.cl.phase = b.cl.phase /\ c.cl.usage = b.cl.usage
        /\ chunk.call = NoCall => c = b
        /\ /\ chunk.call # NoCall /\ CallInOrder(chunk.call, tools)
           /\ Clean(b, tools) /\ b.cl.phase = "message"
           => Clean(c, IF chunk.call.id THEN tools + 1 ELSE tools)
    BY <1>2, CallKeeps
  <2> HIDE DEF c
  <2>2. CASE chunk.call = NoCall
    BY <1>2, <2>1, <2>2
  <2>3. CASE chunk.call # NoCall
    <3>1. b.cl.phase = "message"
      BY <1>2, <2>3 DEF Clean
    <3> QED  BY <1>2, <2>1, <2>3, <3>1
  <2> QED  BY <2>2, <2>3
<1> HIDE DEF c
<1>4. /\ Clean(q, after)
      /\ (finished \/ chunk.finish) <=> q.cl.phase = "delta"
  <2>1. /\ q.s.MessageStartSent = c.s.MessageStartSent /\ q.s.Usage = c.s.Usage
        /\ ~chunk.finish => q = c
        /\ chunk.finish => q.cl.phase = "delta" /\ ~q.s.ContentBlockOpen
        /\ chunk.finish /\ c.cl.phase = "message" => q.cl.broken = c.cl.broken
    BY <1>3, FinishKeeps
  <2> HIDE DEF q, after
  <2>2. CASE ~chunk.finish
    BY <1>3, <2>1, <2>2
  <2>3. CASE chunk.finish
    <3>1. c.cl.phase = "message"
      BY <1>3, <2>3 DEF Clean
    <3> QED  BY <1>3, <2>1, <2>3, <3>1 DEF Clean
  <2> QED  BY <2>2, <2>3
<1>5. q = Translate(p, chunk)
  BY DEF Translate, a, b, c
<1> HIDE DEF q
<1> QED  BY <1>4, <1>5 DEF Clean

(* message_stop, which leaves the blocks as they are.                      *)
LEMMA StopIs ==
    ASSUME NEW c \in Client
    PROVE  LET d == MessageStop(c) IN
           /\ d \in Client /\ d.phase = "stopped" /\ d.block = c.block /\ d.blocks = c.blocks
           /\ d.usage = c.usage
           /\ c.phase \in {"message", "delta"} /\ c.block = NoBlock => d.broken = c.broken
           /\ \A r \in {"nesting", "text", "tool"} : r \in d.broken <=> r \in c.broken
<1> DEFINE x == Breaks(c, "start", c.phase # "before")
           y == Breaks(x, "end", c.phase # "stopped")
           z == Breaks(y, "closed", c.block = NoBlock)
           d == [z EXCEPT !.phase = "stopped"]
<1>1. /\ x \in Client
      /\ x.phase = c.phase /\ x.usage = c.usage /\ x.block = c.block /\ x.blocks = c.blocks
      /\ c.phase # "before" => x.broken = c.broken
      /\ c.phase = "before" => x.broken = c.broken \cup {"start"}
  BY BreaksIs DEF Rules
<1> HIDE DEF x
<1>2. /\ y \in Client
      /\ y.phase = c.phase /\ y.usage = c.usage /\ y.block = c.block /\ y.blocks = c.blocks
      /\ c.phase # "stopped" => y.broken = x.broken
      /\ c.phase = "stopped" => y.broken = x.broken \cup {"end"}
  BY <1>1, BreaksIs DEF Rules
<1> HIDE DEF y
<1>3. /\ z \in Client
      /\ z.phase = c.phase /\ z.usage = c.usage /\ z.block = c.block /\ z.blocks = c.blocks
      /\ c.block = NoBlock => z.broken = y.broken
      /\ c.block # NoBlock => z.broken = y.broken \cup {"closed"}
  BY <1>2, BreaksIs DEF Rules
<1> HIDE DEF z
<1>4. /\ d \in Client /\ d.phase = "stopped" /\ d.usage = z.usage
      /\ d.block = c.block /\ d.blocks = c.blocks /\ d.broken = z.broken
  BY <1>3 DEF Client, Phases
<1>5. d = MessageStop(c)
  BY DEF MessageStop, x, y, z
<1> HIDE DEF d
<1>6. d.broken \subseteq c.broken \cup {"start", "end", "closed"} /\ c.broken \subseteq d.broken
  BY <1>1, <1>2, <1>3, <1>4
<1>7. c.phase \in {"message", "delta"} /\ c.block = NoBlock => d.broken = c.broken
  BY <1>1, <1>2, <1>3, <1>4
<1> QED  BY <1>1, <1>2, <1>3, <1>4, <1>5, <1>6, <1>7

-----------------------------------------------------------------------------
(* The invariant *)

LEMMA InitIInv == Init => IInv
<1> SUFFICES ASSUME Init  PROVE IInv
  OBVIOUS
<1>1. TypeOK
  BY DEF Init, TypeOK, State, Client, Upstream, Block, NoBlock, Phases, Rules
<1>2. Coupled(Here)
  BY DEF Init, Coupled, Here
<1> QED
  BY <1>1, <1>2 DEF Init, IInv, InOrderSoFar, FinishIsSeen, UsageIsKept, ToolInputInOwnBlock,
                       CompleteStreamConforms

LEMMA ReadKeepsIInv ==
    ASSUME IInv, NEW chunk \in Chunk, Read(chunk)
    PROVE  IInv'
<1> DEFINE q == Translate(Here, chunk)
<1>1. Here \in Pair /\ Coupled(Here) /\ Here.s = s /\ Here.cl = cl
  BY DEF IInv, TypeOK, Here, Pair
<1>2. s' = q.s /\ cl' = q.cl /\ ending = "none" /\ ending' = "none"
  BY DEF Read, Here
<1>3. /\ q \in Pair /\ Coupled(q)
      /\ q.s.Usage = (s.Usage \/ chunk.usage)
      /\ q.cl.usage = IF chunk.finish THEN q.s.Usage ELSE cl.usage
  BY <1>1, TranslateKeeps
<1>4. /\ up'.tools = IF chunk.call # NoCall /\ chunk.call.id THEN up.tools + 1 ELSE up.tools
      /\ up'.finished = (up.finished \/ chunk.finish)
      /\ up'.inOrder = (up.inOrder /\ InOrder(chunk))
      /\ up'.usage = (up.usage \/ chunk.usage)
      /\ up'.timely = (up.timely \/ (chunk.finish /\ (up.usage \/ chunk.usage)))
      /\ up' \in Upstream /\ up.tools \in Nat /\ up.finished \in BOOLEAN /\ up.inOrder \in BOOLEAN
  BY DEF Read, IInv, TypeOK, Upstream, Chunk, InOrder
<1>5. ASSUME up'.inOrder
      PROVE  /\ q.s.MessageStartSent /\ Clean(q, up'.tools)
             /\ up'.finished <=> q.cl.phase = "delta"
  <2>1. /\ up.finished => ~chunk.text /\ chunk.call = NoCall /\ ~chunk.finish
        /\ chunk.text => up.tools = 0
        /\ chunk.call # NoCall => CallInOrder(chunk.call, up.tools)
    BY <1>4, <1>5 DEF InOrder, CallInOrder
  <2>2. /\ IF Here.s.MessageStartSent THEN Clean(Here, up.tools)
           ELSE Here.cl.phase = "before" /\ Here.cl.broken = {} /\ up.tools = 0
                  /\ ~Here.s.ContentBlockOpen
        /\ up.finished <=> Here.cl.phase = "delta"
    BY <1>1, <1>2, <1>4, <1>5 DEF IInv, InOrderSoFar, FinishIsSeen
  <2> HIDE DEF q
  <2>3. LET t == Translate(Here, chunk)
            after == IF chunk.call # NoCall /\ chunk.call.id THEN up.tools + 1 ELSE up.tools
        IN  /\ t.s.MessageStartSent /\ Clean(t, after)
            /\ (up.finished \/ chunk.finish) <=> t.cl.phase = "delta"
    BY <1>1, <1>4, <2>1, <2>2, TranslateKeepsOrder
  <2> QED  BY <1>4, <2>3 DEF q
<1> HIDE DEF q
<1>6. Here'.s = q.s /\ Here'.cl = q.cl
  BY <1>2 DEF Here
<1>7. TypeOK'
  BY <1>2, <1>3, <1>4 DEF TypeOK, Pair
<1>8. Coupled(Here)'
  BY <1>3, <1>6 DEF Coupled
<1>9. InOrderSoFar' /\ FinishIsSeen' /\ ToolInputInOwnBlock'
  BY <1>2, <1>5, <1>6 DEF InOrderSoFar, FinishIsSeen, Clean, ToolInputInOwnBlock
<1>10. CompleteStreamConforms'
  BY <1>2 DEF CompleteStreamConforms
<1>11. UsageIsKept'
  BY <1>2, <1>3, <1>4 DEF IInv, UsageIsKept
<1> QED  BY <1>7, <1>8, <1>9, <1>10, <1>11 DEF IInv

(* The stream ends: with message_stop, or without another event.           *)
LEMMA EndKeepsIInv ==
    ASSUME IInv, Done \/ Dropped \/ CutShort
    PROVE  IInv'
<1>1. /\ s' = s /\ up' \in Upstream /\ (up'.inOrder => up.inOrder)
      /\ up'.usage = up.usage /\ up'.timely = up.timely /\ ending = "none" /\ ending' # "none"
      /\ ending' \in {"done", "dropped", "failed", "clientGone"}
      /\ cl' = cl \/ cl' = MessageStop(cl)
      /\ ending' = "done" => cl' = MessageStop(cl) /\ (up'.inOrder => up.finished)
  BY DEF Done, Dropped, CutShort, IInv, TypeOK, Upstream
<1>2. cl \in Client /\ s \in State /\ Coupled(Here)
  BY DEF IInv, TypeOK
<1>3. /\ cl' \in Client /\ cl'.block = cl.block /\ cl'.blocks = cl.blocks /\ cl'.usage = cl.usage
      /\ \A r \in {"nesting", "text", "tool"} : r \in cl'.broken <=> r \in cl.broken
  BY <1>1, <1>2, StopIs
<1>4. TypeOK'
  BY <1>1, <1>3 DEF IInv, TypeOK
<1>5. Coupled(Here)'
  BY <1>1, <1>2, <1>3 DEF Coupled, Here
<1>6. InOrderSoFar' /\ FinishIsSeen'
  BY <1>1 DEF InOrderSoFar, FinishIsSeen
<1>7. ToolInputInOwnBlock'
  BY <1>1, <1>3 DEF IInv, ToolInputInOwnBlock
<1>8. ASSUME up'.inOrder, ending' = "done"
      PROVE  cl'.phase = "stopped" /\ cl'.block = NoBlock /\ cl'.broken = {}
  <2>1. cl.phase = "delta" /\ cl.broken = {} /\ cl.block = NoBlock
    BY <1>1, <1>2, <1>8 DEF IInv, InOrderSoFar, FinishIsSeen, Clean, Coupled, Here
  <2> QED  BY <1>1, <1>2, <1>3, <1>8, <2>1, StopIs
<1>9. UsageIsKept'
  BY <1>1, <1>3 DEF IInv, UsageIsKept
<1> QED
  BY <1>4, <1>5, <1>6, <1>7, <1>8, <1>9 DEF IInv, CompleteStreamConforms

THEOREM Invariance == Spec => []IInv
<1>1. Init => IInv
  BY InitIInv
<1>2. IInv /\ [Next]_vars => IInv'
  <2> SUFFICES ASSUME IInv, [Next]_vars  PROVE IInv'
    OBVIOUS
  <2>1. ASSUME NEW chunk \in Chunk, Read(chunk)  PROVE IInv'
    BY <2>1, ReadKeepsIInv
  <2>2. CASE Done \/ Dropped \/ CutShort
    BY <2>2, EndKeepsIInv
  <2>3. CASE UNCHANGED vars
    BY <2>3 DEF vars, IInv, TypeOK, Coupled, Here, InOrderSoFar, Clean, FinishIsSeen, UsageIsKept,
                ToolInputInOwnBlock, CompleteStreamConforms
  <2> QED  BY <2>1, <2>2, <2>3 DEF Next
<1> QED  BY <1>1, <1>2, PTL DEF Spec

-----------------------------------------------------------------------------
(* The state of the translator, the client and the stream is well formed,  *)
(* for any set of tool indices and any upstream.                           *)
THEOREM TypeCorrect == Spec => []TypeOK
<1>1. IInv => TypeOK
  BY DEF IInv
<1> QED  BY <1>1, Invariance, PTL

(* Of any upstream, and for streams of any length: content blocks are      *)
(* opened and closed one at a time, under consecutive numbers, and text    *)
(* only goes to an open text block.                                        *)
THEOREM BlocksAlwaysNest == Spec => []BlocksNest
<1>1. IInv => BlocksNest
  BY DEF IInv, BlocksNest, Coupled, Here
<1> QED  BY <1>1, Invariance, PTL

(* Of any upstream: usage sent in time reaches the client.                 *)
THEOREM UsageInTimeArrives == Spec => []TimelyUsageArrives
<1>1. IInv => TimelyUsageArrives
  BY DEF IInv, UsageIsKept, TimelyUsageArrives
<1> QED  BY <1>1, Invariance, PTL

(* Of an upstream that sends its calls one after the other: arguments of a *)
(* call are sent in the block of that call.                                *)
THEOREM InputFindsItsCall == Spec => []ToolInputInOwnBlock
<1>1. IInv => ToolInputInOwnBlock
  BY DEF IInv
<1> QED  BY <1>1, Invariance, PTL

(* Of such an upstream: a stream that ran to its [DONE] kept every rule of *)
(* the protocol.                                                           *)
THEOREM CompleteStreamsConform == Spec => []CompleteStreamConforms
<1>1. IInv => CompleteStreamConforms
  BY DEF IInv
<1> QED  BY <1>1, Invariance, PTL

-----------------------------------------------------------------------------
(***************************************************************************)
(* The conversation.  Both translations are loops that append to a list,   *)
(* FlatMap in the model, so the work is in what such loops do: Joined is   *)
(* FlatMap with a function in place of the operator, and lemmas say that   *)
(* it takes a list piece by piece (JoinedAppend, JoinedConcat), that two   *)
(* loops one after the other are one (JoinedTwice), and what is known of   *)
(* loops that append one member each time, or none (JoinedOnes,            *)
(* JoinedNothing).  Induction over lists is over a set of lists in place   *)
(* of a predicate (SeqInduction).                                          *)
(*                                                                         *)
(* ConversationInv is the inductive invariant.  Each message adds to the   *)
(* end of the request what it is translated to, whatever came before, so   *)
(* the steps only look at that: UserConverted and AnswerConverted.         *)
(***************************************************************************)

(* Every set of naturals that is not empty has a least member.             *)
LEMMA NatLeast == \A T \in SUBSET Nat : T # {} => \E x \in T : \A y \in T : x <= y
<1> SUFFICES ASSUME NEW T \in SUBSET Nat, T # {} PROVE \E x \in T : \A y \in T : x <= y
  OBVIOUS
<1> DEFINE U == {1 .. n : n \in T}
<1>1. U \subseteq FiniteSubsetsOf(Nat) /\ U # {}
  <2>1. ASSUME NEW n \in T PROVE 1 .. n \in FiniteSubsetsOf(Nat)
    <3>1. IsFiniteSet(1 .. n)
      BY FS_Interval
    <3> QED BY <3>1 DEF FiniteSubsetsOf
  <2> QED BY <2>1
<1>2. PICK X \in U : \A Y \in U : ~(<<Y, X>> \in StrictSubsetOrdering(Nat))
  BY <1>1, FS_StrictSubsetOrderingWellFounded, WFMin
<1>3. PICK x \in T : X = 1 .. x
  OBVIOUS
<1>4. ASSUME NEW y \in T PROVE x <= y
  <2>1. ~(<<1 .. y, 1 .. x>> \in StrictSubsetOrdering(Nat))
    BY <1>2, <1>3
  <2>2. y < x => 1 .. y \subseteq 1 .. x /\ 1 .. y # 1 .. x
    <3>1. ASSUME y < x PROVE x \in 1 .. x /\ x \notin 1 .. y
      BY <3>1
    <3> QED BY <3>1
  <2> QED BY <2>1, <2>2 DEF StrictSubsetOrdering
<1> QED BY <1>4

(* Induction up to m, over a set in place of a predicate.                  *)
LEMMA InductionUpTo ==
    ASSUME NEW m \in Nat, NEW G, 0 \in G, \A n \in 1 .. m : n - 1 \in G => n \in G
    PROVE  0 .. m \subseteq G
<1> DEFINE T == {n \in 0 .. m : n \notin G}
<1>1. ASSUME T # {} PROVE FALSE
  <2>1. PICK n \in T : \A y \in T : n <= y
    <3>1. T \in SUBSET Nat
      OBVIOUS
    <3> HIDE DEF T
    <3> QED BY <1>1, <3>1, NatLeast
  <2>2. n \in 1 .. m
    OBVIOUS
  <2>3. n - 1 \notin T
    BY <2>1
  <2> QED BY <2>1, <2>2, <2>3
<1> QED BY <1>1
(* A list of lists joined, list by list: the function exists.              *)
LEMMA FlatByEntry ==
    ASSUME NEW Q, NEW ss \in Seq(Seq(Q))
    PROVE  \E f : /\ f[0] = << >> /\ f[Len(ss)] = FlattenSeq(ss)
                  /\ \A n \in 1 .. Len(ss) : f[n] = f[n - 1] \o ss[n]
<1> DEFINE Grows(f, n) ==
               f = [i \in 1 .. n |-> IF i = 1 THEN ss[i] ELSE f[i - 1] \o ss[i]]
           G == {n \in 0 .. Len(ss) : \E f : Grows(f, n)}
<1>0. Len(ss) \in Nat
  OBVIOUS
<1>1. 0 \in G
  <2>1. Grows([i \in 1 .. 0 |-> << >>], 0)
    OBVIOUS
  <2> HIDE DEF Grows
  <2> QED BY <2>1, <1>0
<1>2. ASSUME NEW n \in 1 .. Len(ss), n - 1 \in G PROVE n \in G
  <2>1. PICK f : Grows(f, n - 1)
    BY <1>2
  <2> DEFINE g == [i \in 1 .. n |-> IF i = n THEN IF n = 1 THEN ss[n] ELSE f[n - 1] \o ss[n]
                                    ELSE f[i]]
  <2>2. \A i \in 1 .. n - 1 : g[i] = f[i]
    OBVIOUS
  <2>3. ASSUME NEW i \in 1 .. n
        PROVE  g[i] = IF i = 1 THEN ss[i] ELSE g[i - 1] \o ss[i]
    <3>1. CASE i = n
      <4>1. n # 1 => n - 1 \in 1 .. n - 1
        OBVIOUS
      <4> QED BY <2>2, <3>1, <4>1
    <3>2. CASE i # n
      <4>1. i \in 1 .. n - 1 /\ (i # 1 => i - 1 \in 1 .. n - 1)
        BY <3>2
      <4>2. f[i] = IF i = 1 THEN ss[i] ELSE f[i - 1] \o ss[i]
        BY <2>1, <4>1
      <4> QED BY <2>2, <4>1, <4>2
    <3> QED BY <3>1, <3>2
  <2>4. Grows(g, n)
    <3>1. g = [i \in 1 .. n |-> g[i]]
      OBVIOUS
    <3> HIDE DEF g
    <3> QED BY <2>3, <3>1
  <2> HIDE DEF Grows, g
  <2> QED BY <2>4
<1>3. PICK f : Grows(f, Len(ss))
  <2>1. Len(ss) \in G
    <3> HIDE DEF G
    <3>1. 0 .. Len(ss) \subseteq G
      BY <1>0, <1>1, <1>2, InductionUpTo
    <3> QED BY <1>0, <3>1
  <2> HIDE DEF Grows
  <2> QED BY <2>1
<1> DEFINE h == CHOOSE f_1 : Grows(f_1, Len(ss))
           joined == [n \in 0 .. Len(ss) |-> IF n = 0 THEN << >> ELSE h[n]]
<1>4. Grows(h, Len(ss))
  BY <1>3
<1>5. FlattenSeq(ss) = IF Len(ss) = 0 THEN ss ELSE h[Len(ss)]
  BY DEF FlattenSeq
<1> HIDE DEF h
<1>6. \A i \in 1 .. Len(ss) : h[i] = IF i = 1 THEN ss[i] ELSE h[i - 1] \o ss[i]
  BY <1>4
<1>7. joined[0] = << >> /\ joined[Len(ss)] = FlattenSeq(ss)
  <2>1. Len(ss) = 0 => ss = << >>
    OBVIOUS
  <2> QED BY <1>0, <1>5, <2>1
<1>8. ASSUME NEW n \in 1 .. Len(ss) PROVE joined[n] = joined[n - 1] \o ss[n]
  <2>1. ss[n] \in Seq(Q) /\ << >> \o ss[n] = ss[n]
    OBVIOUS
  <2>2. joined[n] = h[n] /\ joined[n - 1] = IF n = 1 THEN << >> ELSE h[n - 1]
    BY <1>0
  <2> HIDE DEF joined
  <2> QED BY <1>6, <2>1, <2>2
<1> HIDE DEF joined
<1> QED BY <1>7, <1>8

(* Joining gives a list, and goes on with the next list.                   *)
LEMMA FlatType ==
    ASSUME NEW Q, NEW ss \in Seq(Seq(Q))
    PROVE  FlattenSeq(ss) \in Seq(Q)
<1>0. Len(ss) \in Nat
  OBVIOUS
<1>1. PICK f : /\ f[0] = << >> /\ f[Len(ss)] = FlattenSeq(ss)
               /\ \A n \in 1 .. Len(ss) : f[n] = f[n - 1] \o ss[n]
  BY FlatByEntry
<1> DEFINE G == {n \in 0 .. Len(ss) : f[n] \in Seq(Q)}
<1>2. 0 \in G
  <2>1. << >> \in Seq(Q)
    OBVIOUS
  <2>2. f[0] \in Seq(Q)
    BY <1>1, <2>1
  <2> QED BY <1>0, <2>2
<1>3. ASSUME NEW n \in 1 .. Len(ss), n - 1 \in G PROVE n \in G
  <2>1. f[n] = f[n - 1] \o ss[n] /\ f[n - 1] \in Seq(Q)
    BY <1>1, <1>3
  <2>3. ss[n] \in Seq(Q)
    OBVIOUS
  <2>2. f[n] \in Seq(Q)
    BY <2>1, <2>3
  <2> QED BY <2>2
<1> HIDE DEF G
<1>4. 0 .. Len(ss) \subseteq G
  BY <1>0, <1>2, <1>3, InductionUpTo
<1>5. Len(ss) \in G
  BY <1>0, <1>4
<1> QED BY <1>1, <1>5 DEF G

(* Joining goes on with the next list.                                   *)
LEMMA FlatAppend ==
    ASSUME NEW Q, NEW ss \in Seq(Seq(Q)), NEW q \in Seq(Q)
    PROVE  FlattenSeq(Append(ss, q)) = FlattenSeq(ss) \o q
<1> DEFINE tt == Append(ss, q)
<1>0. Len(ss) \in Nat
  OBVIOUS
<1>1. /\ tt \in Seq(Seq(Q)) /\ Len(tt) = Len(ss) + 1 /\ tt[Len(ss) + 1] = q
      /\ \A n \in 1 .. Len(ss) : tt[n] = ss[n]
  OBVIOUS
<1> HIDE DEF tt
<1>2. PICK f : /\ f[0] = << >> /\ f[Len(ss)] = FlattenSeq(ss)
               /\ \A n \in 1 .. Len(ss) : f[n] = f[n - 1] \o ss[n]
  BY FlatByEntry
<1>3. PICK g : /\ g[0] = << >> /\ g[Len(tt)] = FlattenSeq(tt)
               /\ \A n \in 1 .. Len(tt) : g[n] = g[n - 1] \o tt[n]
  BY <1>1, FlatByEntry
<1> DEFINE G == {n \in 0 .. Len(ss) : f[n] = g[n]}
<1>4. 0 \in G
  BY <1>0, <1>2, <1>3
<1>5. ASSUME NEW n \in 1 .. Len(ss), n - 1 \in G PROVE n \in G
  <2>1. n \in 1 .. Len(tt)
    BY <1>0, <1>1
  <2>2. f[n] = f[n - 1] \o ss[n] /\ g[n] = g[n - 1] \o tt[n] /\ f[n - 1] = g[n - 1] /\ ss[n] = tt[n]
    BY <1>1, <1>2, <1>3, <1>5, <2>1
  <2>3. f[n] = g[n]
    BY <2>2
  <2> QED BY <2>3
<1> HIDE DEF G
<1>6. 0 .. Len(ss) \subseteq G
  BY <1>0, <1>4, <1>5, InductionUpTo
<1>7. f[Len(ss)] = g[Len(ss)]
  BY <1>0, <1>6 DEF G
<1>8. g[Len(ss) + 1] = g[Len(ss)] \o q
  <2>1. Len(ss) + 1 \in 1 .. Len(tt) /\ (Len(ss) + 1) - 1 = Len(ss)
    BY <1>0, <1>1
  <2>2. g[Len(ss) + 1] = g[(Len(ss) + 1) - 1] \o tt[Len(ss) + 1]
    BY <1>3, <2>1
  <2> QED BY <1>1, <2>1, <2>2
<1>9. FlattenSeq(tt) = FlattenSeq(ss) \o q
  BY <1>1, <1>2, <1>3, <1>7, <1>8
<1> QED BY <1>9 DEF tt

(* Induction on lists, over a set in place of a predicate.                 *)
LEMMA SeqInduction ==
    ASSUME NEW R, NEW G, << >> \in G,
           \A q \in Seq(R), x \in R : q \in G => Append(q, x) \in G
    PROVE  Seq(R) \subseteq G
<1> SUFFICES ASSUME NEW m \in Nat PROVE \A q \in Seq(R) : Len(q) = m => q \in G
  <2>1. \A q \in Seq(R) : Len(q) \in Nat
    OBVIOUS
  <2> QED BY <2>1
<1> DEFINE H == {n \in 0 .. m : \A q \in Seq(R) : Len(q) = n => q \in G}
<1>1. 0 \in H
  <2>1. ASSUME NEW q \in Seq(R), Len(q) = 0 PROVE q \in G
    <3>1. q = << >>
      BY <2>1
    <3> QED BY <3>1
  <2> QED BY <2>1
<1>2. ASSUME NEW n \in 1 .. m, n - 1 \in H PROVE n \in H
  <2>1. ASSUME NEW q \in Seq(R), Len(q) = n PROVE q \in G
    <3> DEFINE p == SubSeq(q, 1, n - 1)
    <3>1. p \in Seq(R) /\ Len(p) = n - 1 /\ q[n] \in R
      BY <2>1
    <3>2. q = Append(p, q[n])
      BY <2>1
    <3> HIDE DEF p
    <3>3. p \in G
      BY <1>2, <3>1
    <3> QED BY <3>1, <3>2, <3>3
  <2> QED BY <2>1
<1> HIDE DEF H
<1>3. 0 .. m \subseteq H
  BY <1>1, <1>2, InductionUpTo
<1> QED BY <1>3 DEF H

(* The lists that g makes of the members of q, joined: FlatMap, with a     *)
(* function for the operator.                                              *)
Joined(q, g) == FlattenSeq([k \in DOMAIN q |-> g[q[k]]])

(* The lists that are joined.                                            *)
LEMMA ListsOf ==
    ASSUME NEW R, NEW P, NEW g \in [R -> P], NEW q \in Seq(R)
    PROVE  /\ [k \in DOMAIN q |-> g[q[k]]] \in Seq(P)
           /\ Len([k \in DOMAIN q |-> g[q[k]]]) = Len(q)
OBVIOUS

LEMMA JoinedEmpty == ASSUME NEW g PROVE Joined(<< >>, g) = << >>
<1>1. << >> \in Seq(Seq({})) /\ Len(<< >>) = 0
  OBVIOUS
<1>2. [k \in DOMAIN << >> |-> g[<< >>[k]]] = << >>
  OBVIOUS
<1> QED BY <1>1, <1>2 DEF Joined, FlattenSeq

LEMMA JoinedType ==
    ASSUME NEW R, NEW Q, NEW g \in [R -> Seq(Q)], NEW q \in Seq(R)
    PROVE  Joined(q, g) \in Seq(Q)
<1> DEFINE P == Seq(Q)
<1>1. g \in [R -> P]
  OBVIOUS
<1> HIDE DEF P
<1>2. /\ [k \in DOMAIN q |-> g[q[k]]] \in Seq(P)
      /\ Len([k \in DOMAIN q |-> g[q[k]]]) = Len(q)
  BY <1>1, ListsOf
<1> QED BY <1>2, FlatType DEF Joined, P

(* A loop over one member more, over one, over two lists.                *)
LEMMA JoinedAppend ==
    ASSUME NEW R, NEW Q, NEW g \in [R -> Seq(Q)], NEW q \in Seq(R), NEW x \in R
    PROVE  Joined(Append(q, x), g) = Joined(q, g) \o g[x]
<1> DEFINE P == Seq(Q)
           p == Append(q, x)
           ss == [k \in DOMAIN q |-> g[q[k]]]
           tt == [k \in DOMAIN p |-> g[p[k]]]
<1>0. g \in [R -> P] /\ g[x] \in P
  OBVIOUS
<1> HIDE DEF P
<1>1. /\ p \in Seq(R) /\ Len(p) = Len(q) + 1 /\ p[Len(q) + 1] = x /\ Len(q) \in Nat
      /\ \A k \in 1 .. Len(q) : p[k] = q[k]
  OBVIOUS
<1>2. ss \in Seq(P) /\ Len(ss) = Len(q) /\ \A k \in 1 .. Len(q) : ss[k] = g[q[k]]
  <2>1. DOMAIN q = 1 .. Len(q) /\ Len(q) \in Nat /\ \A k \in 1 .. Len(q) : g[q[k]] \in P
    BY <1>0
  <2>2. ss = [k \in 1 .. Len(q) |-> g[q[k]]]
    BY <2>1
  <2>3. ss \in Seq(P) /\ Len(ss) = Len(q)
    BY <2>1, <2>2
  <2>4. \A k \in 1 .. Len(q) : ss[k] = g[q[k]]
    BY <2>2
  <2> QED BY <2>3, <2>4
<1> HIDE DEF p
<1>3. tt \in Seq(P) /\ Len(tt) = Len(p) /\ \A k \in 1 .. Len(p) : tt[k] = g[p[k]]
  <2>1. DOMAIN p = 1 .. Len(p) /\ Len(p) \in Nat /\ \A k \in 1 .. Len(p) : g[p[k]] \in P
    BY <1>0, <1>1
  <2>2. tt = [k \in 1 .. Len(p) |-> g[p[k]]]
    BY <2>1
  <2>3. tt \in Seq(P) /\ Len(tt) = Len(p)
    BY <2>1, <2>2
  <2>4. \A k \in 1 .. Len(p) : tt[k] = g[p[k]]
    BY <2>2
  <2> QED BY <2>3, <2>4
<1> HIDE DEF ss, tt
<1>5. tt = Append(ss, g[x])
  <2> DEFINE y == g[x]
             uu == Append(ss, y)
  <2>1. y \in P
    BY <1>0
  <2>2. \A k \in 1 .. Len(tt) : tt[k] = IF k = Len(q) + 1 THEN y ELSE ss[k]
    <3>1. ASSUME NEW k \in 1 .. Len(tt), k = Len(q) + 1 PROVE tt[k] = y
      BY <1>1, <1>3, <3>1
    <3>2. ASSUME NEW k \in 1 .. Len(tt), k # Len(q) + 1 PROVE tt[k] = ss[k]
      <4>1. k \in 1 .. Len(q) /\ k \in 1 .. Len(p)
        BY <1>1, <1>3, <3>2
      <4> QED BY <1>1, <1>2, <1>3, <4>1
    <3> HIDE DEF y
    <3> QED BY <3>1, <3>2
  <2> HIDE DEF y
  <2>3. uu \in Seq(P) /\ Len(uu) = Len(tt) /\ \A k \in 1 .. Len(tt) : uu[k] = tt[k]
    BY <1>1, <1>2, <1>3, <2>1, <2>2
  <2> HIDE DEF uu
  <2>4. uu = tt
    BY <1>3, <2>3
  <2> QED BY <2>4 DEF uu, y
<1>6. FlattenSeq(tt) = FlattenSeq(ss) \o g[x]
  BY <1>0, <1>2, <1>5, FlatAppend DEF P
<1> QED BY <1>6 DEF Joined, p, ss, tt

LEMMA JoinedOne ==
    ASSUME NEW R, NEW Q, NEW g \in [R -> Seq(Q)], NEW x \in R
    PROVE  Joined(<<x>>, g) = g[x]
<1>1. << >> \in Seq(R) /\ <<x>> = Append(<< >>, x) /\ g[x] \in Seq(Q)
  OBVIOUS
<1>2. Joined(<<x>>, g) = << >> \o g[x]
  BY <1>1, JoinedAppend, JoinedEmpty
<1> QED BY <1>1, <1>2

LEMMA JoinedConcat ==
    ASSUME NEW R, NEW Q, NEW g \in [R -> Seq(Q)], NEW p \in Seq(R), NEW q \in Seq(R)
    PROVE  Joined(p \o q, g) = Joined(p, g) \o Joined(q, g)
<1> DEFINE G == {t \in Seq(R) : Joined(p \o t, g) = Joined(p, g) \o Joined(t, g)}
<1>1. << >> \in G
  <2>1. Joined(p, g) \in Seq(Q)
    BY JoinedType
  <2>2. << >> \in Seq(R) /\ p \o << >> = p /\ Joined(p, g) \o << >> = Joined(p, g)
    BY <2>1
  <2> QED BY <2>2, JoinedEmpty
<1>2. ASSUME NEW t \in Seq(R), NEW x \in R, t \in G PROVE Append(t, x) \in G
  <2>1. p \o Append(t, x) = Append(p \o t, x) /\ p \o t \in Seq(R) /\ Append(t, x) \in Seq(R)
    OBVIOUS
  <2>2. Joined(p, g) \in Seq(Q) /\ Joined(t, g) \in Seq(Q) /\ g[x] \in Seq(Q)
    BY JoinedType
  <2>3. Joined(Append(p \o t, x), g) = Joined(p \o t, g) \o g[x]
    BY <2>1, JoinedAppend
  <2>4. Joined(Append(t, x), g) = Joined(t, g) \o g[x]
    BY JoinedAppend
  <2>5. (Joined(p, g) \o Joined(t, g)) \o g[x] = Joined(p, g) \o (Joined(t, g) \o g[x])
    BY <2>2
  <2>6. Joined(p \o t, g) = Joined(p, g) \o Joined(t, g)
    BY <1>2
  <2>7. Joined(p \o Append(t, x), g) = Joined(p, g) \o Joined(Append(t, x), g)
    BY <2>1, <2>3, <2>4, <2>5, <2>6
  <2> QED BY <2>1, <2>7
<1> HIDE DEF G
<1>3. q \in G
  BY <1>1, <1>2, SeqInduction
<1> QED BY <1>3 DEF G

(* Only what g makes of the list's members matters.                      *)
LEMMA JoinedSame ==
    ASSUME NEW R, NEW q \in Seq(R), NEW f, NEW g, \A x \in R : f[x] = g[x]
    PROVE  Joined(q, f) = Joined(q, g)
<1>1. [k \in DOMAIN q |-> f[q[k]]] = [k \in DOMAIN q |-> g[q[k]]]
  OBVIOUS
<1> QED BY <1>1 DEF Joined

\* The functions from R to lists over Q.
ListsFrom(R, Q) == [R -> Seq(Q)]

(* Joining twice is joining once.                                          *)
LEMMA JoinedTwice ==
    ASSUME NEW R, NEW Q, NEW P, NEW f \in ListsFrom(R, Q), NEW g \in ListsFrom(Q, P),
           NEW q \in Seq(R)
    PROVE  \E h : /\ \A x \in R : h[x] = Joined(f[x], g)
                  /\ Joined(Joined(q, f), g) = Joined(q, h)
<1> DEFINE h == [x \in R |-> Joined(f[x], g)]
           G == {t \in Seq(R) : Joined(Joined(t, f), g) = Joined(t, h)}
<1> f \in [R -> Seq(Q)] /\ g \in [Q -> Seq(P)]
  BY DEF ListsFrom
<1>0. h \in [R -> Seq(P)]
  <2>1. ASSUME NEW x \in R PROVE Joined(f[x], g) \in Seq(P)
    <3>1. f[x] \in Seq(Q)
      OBVIOUS
    <3> QED BY <3>1, JoinedType
  <2> QED BY <2>1
<1>1. << >> \in G
  <2>1. << >> \in Seq(R)
    OBVIOUS
  <2> QED BY <2>1, JoinedEmpty
<1>2. ASSUME NEW t \in Seq(R), NEW x \in R, t \in G PROVE Append(t, x) \in G
  <2>1. h[x] = Joined(f[x], g)
    OBVIOUS
  <2>2. Append(t, x) \in Seq(R) /\ f[x] \in Seq(Q)
    OBVIOUS
  <2>3. Joined(Append(t, x), f) = Joined(t, f) \o f[x] /\ Joined(t, f) \in Seq(Q)
    BY JoinedAppend, JoinedType
  <2>4. Joined(Joined(t, f) \o f[x], g) = Joined(Joined(t, f), g) \o Joined(f[x], g)
    BY <2>2, <2>3, JoinedConcat
  <2>5. Joined(Joined(t, f), g) = Joined(t, h)
    BY <1>2
  <2> HIDE DEF h
  <2>6. Joined(Append(t, x), h) = Joined(t, h) \o h[x]
    BY <1>0, JoinedAppend
  <2> QED BY <2>1, <2>2, <2>3, <2>4, <2>5, <2>6
<1>3. q \in G
  <2> HIDE DEF G, h
  <2> QED BY <1>1, <1>2, SeqInduction
<1>4. \A x \in R : h[x] = Joined(f[x], g)
  OBVIOUS
<1> HIDE DEF h
<1> QED BY <1>3, <1>4

(* Joining lists of one member each is going through the list.             *)
LEMMA JoinedOnes ==
    ASSUME NEW R, NEW Q, NEW q \in Seq(R), NEW g,
           \A x \in R : g[x] \in Seq(Q) /\ Len(g[x]) = 1
    PROVE  Len(Joined(q, g)) = Len(q) /\ \A k \in 1 .. Len(q) : Joined(q, g)[k] = g[q[k]][1]
<1> DEFINE f == [x \in R |-> g[x]]
           Through(t) == /\ Len(Joined(t, f)) = Len(t)
                         /\ \A k \in 1 .. Len(t) : Joined(t, f)[k] = f[t[k]][1]
           G == {t \in Seq(R) : Through(t)}
<1>0. f \in [R -> Seq(Q)] /\ \A x \in R : f[x] = g[x] /\ Len(f[x]) = 1
  OBVIOUS
<1> HIDE DEF f
<1>1. << >> \in G
  <2>1. << >> \in Seq(R)
    OBVIOUS
  <2>2. Through(<< >>)
    BY JoinedEmpty
  <2> QED BY <2>1, <2>2
<1>2. ASSUME NEW t \in Seq(R), NEW x \in R, t \in G PROVE Append(t, x) \in G
  <2> DEFINE u == Append(t, x)
             a == Joined(t, f)
             b == f[x]
  <2>1. /\ u \in Seq(R) /\ Len(u) = Len(t) + 1 /\ u[Len(t) + 1] = x /\ Len(t) \in Nat
        /\ \A k \in 1 .. Len(t) : u[k] = t[k]
    OBVIOUS
  <2>2. Joined(u, f) = a \o b
    BY <1>0, JoinedAppend
  <2>3. a \in Seq(Q)
    BY <1>0, JoinedType
  <2>4. Len(a) = Len(t) /\ \A k \in 1 .. Len(t) : a[k] = f[t[k]][1]
    BY <1>2
  <2>5. b \in Seq(Q) /\ Len(b) = 1
    BY <1>0
  <2>6. b = f[x]
    OBVIOUS
  <2> HIDE DEF u, a, b
  <2>7. /\ Len(a \o b) = Len(t) + 1 /\ (a \o b)[Len(t) + 1] = b[1]
        /\ \A k \in 1 .. Len(t) : (a \o b)[k] = a[k]
    <3>1. /\ Len(a \o b) = Len(a) + 1 /\ (a \o b)[Len(a) + 1] = b[1]
          /\ \A k \in 1 .. Len(a) : (a \o b)[k] = a[k]
      <4>0. b \in Seq(Q)
        BY <2>5
      <4>1. Len(a) \in Nat /\ Len(b) \in Nat /\ Len(a \o b) = Len(a) + Len(b)
        BY <2>3, <4>0
      <4>2. Len(a \o b) = Len(a) + 1
        BY <2>5, <4>1
      <4>3. ASSUME NEW k \in 1 .. Len(a) PROVE (a \o b)[k] = a[k]
        BY <2>3, <2>5, <4>1
      <4>4. (a \o b)[Len(a) + 1] = b[1]
        BY <2>3, <2>5, <4>1
      <4> QED BY <4>2, <4>3, <4>4
    <3> QED BY <2>4, <3>1
  <2>8. ASSUME NEW k \in 1 .. Len(u) PROVE (a \o b)[k] = f[u[k]][1]
    <3>1. CASE k = Len(t) + 1
      BY <2>1, <2>6, <2>7, <3>1
    <3>2. CASE k # Len(t) + 1
      <4>1. k \in 1 .. Len(t)
        BY <2>1, <3>2
      <4> QED BY <2>1, <2>4, <2>7, <4>1
    <3> QED BY <3>1, <3>2
  <2>9. Through(u)
    BY <2>1, <2>2, <2>7, <2>8
  <2> QED BY <2>1, <2>9 DEF u
<1>3. Seq(R) \subseteq G
  <2> HIDE DEF G
  <2> QED BY <1>1, <1>2, SeqInduction
<1>4. Through(q)
  BY <1>3
<1>5. Joined(q, f) = Joined(q, g)
  BY <1>0, JoinedSame
<1>6. \A k \in 1 .. Len(q) : f[q[k]] = g[q[k]]
  BY <1>0
<1> QED BY <1>4, <1>5, <1>6

(* Joining nothing but empty lists.                                        *)
LEMMA JoinedNothing ==
    ASSUME NEW R, NEW q \in Seq(R), NEW g, \A x \in R : g[x] = << >>
    PROVE  Joined(q, g) = << >>
<1> DEFINE f == [x \in R |-> << >>]
           G == {t \in Seq(R) : Joined(t, f) = << >>}
<1>0. f \in [R -> Seq({})]
  <2>1. << >> \in Seq({})
    OBVIOUS
  <2> QED BY <2>1
<1>1. << >> \in G
  <2>1. << >> \in Seq(R)
    OBVIOUS
  <2> QED BY <2>1, JoinedEmpty
<1>2. ASSUME NEW t \in Seq(R), NEW x \in R, t \in G PROVE Append(t, x) \in G
  <2>1. f[x] = << >> /\ Append(t, x) \in Seq(R) /\ Joined(t, f) = << >>
    BY <1>2
  <2> HIDE DEF f, G
  <2>2. Joined(Append(t, x), f) = Joined(t, f) \o f[x]
    BY <1>0, JoinedAppend
  <2>3. Joined(Append(t, x), f) = << >>
    BY <2>1, <2>2
  <2> QED BY <2>1, <2>3 DEF G
<1>3. Seq(R) \subseteq G
  <2> HIDE DEF G
  <2> QED BY <1>1, <1>2, SeqInduction
<1>4. \A x \in R : f[x] = g[x]
  OBVIOUS
<1> HIDE DEF f
<1> QED BY <1>3, <1>4, JoinedSame

-----------------------------------------------------------------------------
(* The operators of Conversation as functions, to be joined.               *)

(* The values of these operators.                                        *)
Kinds == {"text", "image_url"}
UserMessage == [role : {"user", "assistant"}, content : Seq(ContentBlock)]

Texts == [b \in ContentBlock |-> TextOf(b)]
CallsIn == [b \in ContentBlock |-> CallOf(b)]
Parts == [b \in ContentBlock |-> PartOf(b)]
Split == [b \in ContentBlock |-> MessageOf(b)]
Converted == [m \in UserMessage |-> convertMessage(m)]
Answers == [m \in OpenAIMessage |-> AnswerOf(m)]

(* The content of a message that a block becomes.                        *)
LEMMA TextIsContent ==
    <<"text">> \in Seq(Kinds) /\ <<"image_url">> \in Seq(Kinds) /\ << >> \in Seq(Kinds)
<1>1. "text" \in Kinds /\ "image_url" \in Kinds
  BY DEF Kinds
<1> HIDE DEF Kinds
<1> QED BY <1>1

(* What a block becomes is of its type.                                  *)
LEMMA BlockTypes ==
    /\ Texts \in [ContentBlock -> Seq(Kinds)]
    /\ CallsIn \in [ContentBlock -> Seq(Call)]
    /\ Parts \in [ContentBlock -> Seq(Kinds)]
<1>1. ASSUME NEW b \in ContentBlock
      PROVE  TextOf(b) \in Seq(Kinds) /\ CallOf(b) \in Seq(Call) /\ PartOf(b) \in Seq(Kinds)
  <2>1. TextOf(b) \in Seq(Kinds)
    BY TextIsContent DEF TextOf
  <2>2. CallOf(b) \in Seq(Call)
    <3>1. CASE b.type = "tool_use"
      <4>1. b.call \in Calls /\ Marshalled(b.input) \in {"json", "rounded", "{}", "null"}
        BY <3>1 DEF ContentBlock, Marshalled, Decoded
      <4>2. [id |-> b.call, args |-> Marshalled(b.input)] \in Call
        BY <4>1 DEF Call
      <4> QED BY <3>1, <4>2 DEF CallOf
    <3>2. CASE b.type # "tool_use"
      BY <3>2 DEF CallOf
    <3> QED BY <3>1, <3>2
  <2>3. PartOf(b) \in Seq(Kinds)
    BY TextIsContent DEF PartOf
  <2> QED BY <2>1, <2>2, <2>3
<1> QED BY <1>1 DEF Texts, CallsIn, Parts

(* A message has what it was made of.                                    *)
LEMMA MessageTypes ==
    ASSUME NEW role \in {"user", "assistant", "tool"}, NEW content \in Seq(Kinds),
           NEW calls \in Seq(Call), NEW answers \in Calls \cup {NoCallID}
    PROVE  /\ Message(role, content, calls, answers) \in OpenAIMessage
           /\ Message(role, content, calls, answers).role = role
           /\ Message(role, content, calls, answers).content = content
           /\ Message(role, content, calls, answers).calls = calls
           /\ Message(role, content, calls, answers).answers = answers
BY DEF Message, OpenAIMessage, Kinds

(* A message without calls is one of upstream's.                           *)
LEMMA PlainMessage ==
    ASSUME NEW role \in {"user", "assistant", "tool"}, NEW content \in Seq(Kinds),
           NEW answers \in Calls \cup {NoCallID}
    PROVE  /\ Message(role, content, << >>, answers) \in OpenAIMessage
           /\ Message(role, content, << >>, answers).role = role
           /\ Message(role, content, << >>, answers).content = content
           /\ Message(role, content, << >>, answers).calls = << >>
           /\ Message(role, content, << >>, answers).answers = answers
<1> DEFINE none == << >>
<1>1. none \in Seq(Call)
  OBVIOUS
<1> HIDE DEF none
<1>2. /\ Message(role, content, none, answers) \in OpenAIMessage
      /\ Message(role, content, none, answers).role = role
      /\ Message(role, content, none, answers).content = content
      /\ Message(role, content, none, answers).calls = none
      /\ Message(role, content, none, answers).answers = answers
  BY <1>1, MessageTypes
<1> QED BY <1>2 DEF none

LEMMA SplitType == Split \in [ContentBlock -> Seq(OpenAIMessage)]
<1>1. ASSUME NEW b \in ContentBlock PROVE MessageOf(b) \in Seq(OpenAIMessage)
  <2>1. CASE IsResult(b)
    <3>1. b.call \in Calls \cup {NoCallID}
      BY DEF ContentBlock
    <3>2. Message("tool", <<"text">>, << >>, b.call) \in OpenAIMessage
      BY <3>1, PlainMessage, TextIsContent
    <3>3. MessageOf(b) = << Message("tool", <<"text">>, << >>, b.call) >>
      BY <2>1 DEF MessageOf, IsResult
    <3> QED BY <3>2, <3>3
  <2>2. CASE ~IsResult(b) /\ b.type \in {"text", "image"}
    <3>1. PartOf(b) \in Seq(Kinds)
      BY TextIsContent DEF PartOf
    <3>2. Message("user", PartOf(b), << >>, NoCallID) \in OpenAIMessage
      BY <3>1, PlainMessage
    <3> QED BY <2>2, <3>2 DEF MessageOf
  <2>3. CASE ~IsResult(b) /\ b.type \notin {"text", "image"}
    <3>1. MessageOf(b) = << >>
      BY <2>3 DEF MessageOf
    <3> QED BY <3>1
  <2> QED BY <2>1, <2>2, <2>3
<1> QED BY <1>1 DEF Split

(* The loops over the blocks of a message.                               *)
LEMMA BlocksJoined ==
    ASSUME NEW q \in Seq(ContentBlock)
    PROVE  /\ FlatMap(q, TextOf) = Joined(q, Texts)
           /\ FlatMap(q, CallOf) = Joined(q, CallsIn)
           /\ FlatMap(q, PartOf) = Joined(q, Parts)
           /\ FlatMap(q, MessageOf) = Joined(q, Split)
           /\ Joined(q, Texts) \in Seq(Kinds)
           /\ Joined(q, CallsIn) \in Seq(Call)
           /\ Joined(q, Parts) \in Seq(Kinds)
           /\ Joined(q, Split) \in Seq(OpenAIMessage)
<1>1. \A k \in DOMAIN q : q[k] \in ContentBlock
  OBVIOUS
<1>2. FlatMap(q, TextOf) = Joined(q, Texts)
  <2>1. [k \in DOMAIN q |-> TextOf(q[k])] = [k \in DOMAIN q |-> Texts[q[k]]]
    BY <1>1 DEF Texts
  <2> QED BY <2>1 DEF FlatMap, Map, Joined
<1>3. FlatMap(q, CallOf) = Joined(q, CallsIn)
  <2>1. [k \in DOMAIN q |-> CallOf(q[k])] = [k \in DOMAIN q |-> CallsIn[q[k]]]
    BY <1>1 DEF CallsIn
  <2> QED BY <2>1 DEF FlatMap, Map, Joined
<1>4. FlatMap(q, PartOf) = Joined(q, Parts)
  <2>1. [k \in DOMAIN q |-> PartOf(q[k])] = [k \in DOMAIN q |-> Parts[q[k]]]
    BY <1>1 DEF Parts
  <2> QED BY <2>1 DEF FlatMap, Map, Joined
<1>5. FlatMap(q, MessageOf) = Joined(q, Split)
  <2>1. [k \in DOMAIN q |-> MessageOf(q[k])] = [k \in DOMAIN q |-> Split[q[k]]]
    BY <1>1 DEF Split
  <2> QED BY <2>1 DEF FlatMap, Map, Joined
<1>6. Joined(q, Texts) \in Seq(Kinds)
  BY BlockTypes, JoinedType
<1>7. Joined(q, CallsIn) \in Seq(Call)
  BY BlockTypes, JoinedType
<1>8. Joined(q, Parts) \in Seq(Kinds)
  BY BlockTypes, JoinedType
<1>9. Joined(q, Split) \in Seq(OpenAIMessage)
  BY SplitType, JoinedType
<1> QED BY <1>2, <1>3, <1>4, <1>5, <1>6, <1>7, <1>8, <1>9

(* A message translated is a list of upstream's messages.                  *)
LEMMA ConvertedType == Converted \in [UserMessage -> Seq(OpenAIMessage)]
<1>1. ASSUME NEW m \in UserMessage PROVE convertMessage(m) \in Seq(OpenAIMessage)
  <2>0. m.role \in {"user", "assistant", "tool"} /\ m.content \in Seq(ContentBlock)
    BY DEF UserMessage
  <2>1. CASE m.content = << >>
    <3>1. Message(m.role, <<"text">>, << >>, NoCallID) \in OpenAIMessage
      BY <2>0, PlainMessage, TextIsContent
    <3> QED BY <2>1, <3>1 DEF convertMessage
  <2>2. CASE m.content # << >> /\ m.role = "assistant"
    <3>1. /\ FlatMap(m.content, TextOf) \in Seq(Kinds)
          /\ FlatMap(m.content, CallOf) \in Seq(Call)
      BY <2>0, BlocksJoined
    <3>2. Message("assistant", FlatMap(m.content, TextOf), FlatMap(m.content, CallOf), NoCallID)
            \in OpenAIMessage
      BY <3>1, MessageTypes
    <3> QED BY <2>2, <3>2 DEF convertMessage, convertAssistantMessage
  <2>3. CASE m.content # << >> /\ m.role # "assistant"
    <3>1. /\ FlatMap(m.content, PartOf) \in Seq(Kinds)
          /\ FlatMap(m.content, MessageOf) \in Seq(OpenAIMessage)
      BY <2>0, BlocksJoined
    <3>2. Message("user", FlatMap(m.content, PartOf), << >>, NoCallID) \in OpenAIMessage
      BY <3>1, PlainMessage
    <3>3. convertUserMessage(m.content) \in Seq(OpenAIMessage)
      BY <3>1, <3>2 DEF convertUserMessage
    <3> QED BY <2>3, <3>3 DEF convertMessage
  <2> QED BY <2>1, <2>2, <2>3
<1> QED BY <1>1 DEF Converted

(* The loop over a conversation, and the one over a request.             *)
LEMMA RequestJoined ==
    ASSUME NEW q \in Seq(UserMessage)
    PROVE  /\ TranslateToOpenAI(q) = Joined(q, Converted)
           /\ TranslateToOpenAI(q) \in Seq(OpenAIMessage)
<1>1. [k \in DOMAIN q |-> convertMessage(q[k])] = [k \in DOMAIN q |-> Converted[q[k]]]
  BY DEF Converted
<1>2. TranslateToOpenAI(q) = Joined(q, Converted)
  BY <1>1 DEF TranslateToOpenAI, FlatMap, Map, Joined
<1> QED BY <1>2, ConvertedType, JoinedType

LEMMA AnswersType == Answers \in [OpenAIMessage -> Seq(OpenAIMessage)]
BY DEF Answers, AnswerOf

LEMMA BackJoined ==
    ASSUME NEW q \in Seq(OpenAIMessage)
    PROVE  FlatMap(q, AnswerOf) = Joined(q, Answers)
<1>1. [k \in DOMAIN q |-> AnswerOf(q[k])] = [k \in DOMAIN q |-> Answers[q[k]]]
  BY DEF Answers
<1> QED BY <1>1 DEF FlatMap, Map, Joined

-----------------------------------------------------------------------------
(* What a user's message becomes                                           *)

\* The blocks a user sends.
UserBlock == {b \in ContentBlock : b.type # "tool_use"}

\* Those that become something: an image without source does not.
KeptBlock == {b \in UserBlock : b.type # "bare_image"}
KeptOf(b) == IF b.type = "bare_image" THEN << >> ELSE <<b>>
Kept == [b \in ContentBlock |-> KeptOf(b)]

Has(q, type) == \E j \in DOMAIN q : q[j].type = type

LEMMA KeptType ==
    /\ Kept \in [ContentBlock -> Seq(ContentBlock)]
    /\ \A q \in Seq(UserBlock) : Joined(q, Kept) \in Seq(KeptBlock)
<1>1. ASSUME NEW b \in ContentBlock PROVE KeptOf(b) \in Seq(ContentBlock)
  BY DEF KeptOf
<1>2. ASSUME NEW q \in Seq(UserBlock) PROVE Joined(q, Kept) \in Seq(KeptBlock)
  <2> DEFINE f == [b \in UserBlock |-> KeptOf(b)]
  <2>1. ASSUME NEW b \in UserBlock PROVE KeptOf(b) \in Seq(KeptBlock) /\ Kept[b] = KeptOf(b)
    <3>1. b.type # "bare_image" => b \in KeptBlock
      BY DEF KeptBlock
    <3> QED BY <3>1 DEF KeptOf, Kept, UserBlock
  <2>2. f \in [UserBlock -> Seq(KeptBlock)] /\ \A b \in UserBlock : Kept[b] = f[b]
    BY <2>1
  <2> HIDE DEF f
  <2>3. Joined(q, f) \in Seq(KeptBlock)
    BY <2>2, JoinedType
  <2>4. \A b \in UserBlock : Kept[b] = f[b]
    BY <2>2
  <2>5. Joined(q, Kept) = Joined(q, f)
    BY <2>4, JoinedSame
  <2> QED BY <2>3, <2>5
<1> QED BY <1>1, <1>2 DEF Kept

(* Leaving out the images without source changes nothing else.             *)
LEMMA KeptHas ==
    ASSUME NEW q \in Seq(UserBlock), NEW type, type # "bare_image"
    PROVE  Has(Joined(q, Kept), type) <=> Has(q, type)
<1> DEFINE G == {t \in Seq(UserBlock) : Has(Joined(t, Kept), type) <=> Has(t, type)}
<1>1. << >> \in G
  BY JoinedEmpty DEF Has
<1>2. ASSUME NEW t \in Seq(UserBlock), NEW x \in UserBlock, t \in G PROVE Append(t, x) \in G
  <2> DEFINE p == Joined(t, Kept)
             u == Append(t, x)
  <2>1. t \in Seq(ContentBlock) /\ x \in ContentBlock
    BY DEF UserBlock
  <2>2. Joined(u, Kept) = p \o KeptOf(x)
    <3>1. Kept \in [ContentBlock -> Seq(ContentBlock)] /\ Kept[x] = KeptOf(x)
      BY <2>1, KeptType DEF Kept
    <3>2. Joined(u, Kept) = p \o Kept[x]
      BY <2>1, <3>1, JoinedAppend
    <3> QED BY <3>1, <3>2
  <2>3. p \in Seq(ContentBlock)
    BY <2>1, KeptType, JoinedType
  <2>4. Has(p, type) <=> Has(t, type)
    BY <1>2
  <2>5. Has(u, type) <=> Has(t, type) \/ x.type = type
    <3>1. DOMAIN u = 1 .. Len(t) + 1 /\ DOMAIN t = 1 .. Len(t) /\ Len(t) \in Nat
          /\ u[Len(t) + 1] = x /\ \A k \in 1 .. Len(t) : u[k] = t[k]
      BY <2>1
    <3> HIDE DEF u
    <3>2. \A k \in 1 .. Len(t) + 1 : k = Len(t) + 1 \/ k \in 1 .. Len(t)
      BY <3>1
    <3>3. Len(t) + 1 \in 1 .. Len(t) + 1 /\ \A k \in 1 .. Len(t) : k \in 1 .. Len(t) + 1
      BY <3>1
    <3> QED BY <3>1, <3>2, <3>3 DEF Has
  <2> HIDE DEF p
  <2>6. x.type # "bare_image" => (Has(p \o <<x>>, type) <=> Has(p, type) \/ x.type = type)
    <3> DEFINE v == p \o <<x>>
    <3>1. DOMAIN v = 1 .. Len(p) + 1 /\ DOMAIN p = 1 .. Len(p) /\ Len(p) \in Nat
          /\ v[Len(p) + 1] = x /\ \A k \in 1 .. Len(p) : v[k] = p[k]
      BY <2>1, <2>3
    <3> HIDE DEF v
    <3>2. \A k \in 1 .. Len(p) + 1 : k = Len(p) + 1 \/ k \in 1 .. Len(p)
      BY <3>1
    <3>3. Len(p) + 1 \in 1 .. Len(p) + 1 /\ \A k \in 1 .. Len(p) : k \in 1 .. Len(p) + 1
      BY <3>1
    <3> QED BY <3>1, <3>2, <3>3 DEF Has, v
  <2>7. p \o << >> = p
    BY <2>3
  <2>8. Has(Joined(u, Kept), type) <=> Has(u, type)
    <3>1. CASE x.type = "bare_image"
      BY <2>2, <2>4, <2>5, <2>7, <3>1 DEF KeptOf
    <3>2. CASE x.type # "bare_image"
      BY <2>2, <2>4, <2>5, <2>6, <3>2 DEF KeptOf
    <3> QED BY <3>1, <3>2
  <2>9. u \in Seq(UserBlock)
    OBVIOUS
  <2> QED BY <2>8, <2>9
<1>3. Seq(UserBlock) \subseteq G
  <2> HIDE DEF G
  <2> QED BY <1>1, <1>2, SeqInduction
<1> QED BY <1>3

LEMMA KeptJoined ==
    ASSUME NEW q \in Seq(UserBlock)
    PROVE  /\ Joined(Joined(q, Kept), Parts) = Joined(q, Parts)
           /\ Joined(Joined(q, Kept), Split) = Joined(q, Split)
<1>0. q \in Seq(ContentBlock)
  BY DEF UserBlock
<1>1. Kept \in ListsFrom(ContentBlock, ContentBlock)
  BY KeptType DEF ListsFrom
<1>2. Parts \in ListsFrom(ContentBlock, Kinds)
  BY BlockTypes DEF ListsFrom
<1>3. Split \in ListsFrom(ContentBlock, OpenAIMessage)
  BY SplitType DEF ListsFrom
<1>4. ASSUME NEW b \in ContentBlock
      PROVE  Joined(Kept[b], Parts) = Parts[b] /\ Joined(Kept[b], Split) = Split[b]
  <2>1. CASE b.type = "bare_image"
    <3>1. Kept[b] = << >>
      BY <2>1 DEF Kept, KeptOf
    <3>2. Parts[b] = << >> /\ Split[b] = << >>
      BY <2>1 DEF Parts, Split, PartOf, MessageOf, IsResult
    <3> QED BY <3>1, <3>2, JoinedEmpty
  <2>2. CASE b.type # "bare_image"
    <3>1. Kept[b] = <<b>>
      BY <2>2 DEF Kept, KeptOf
    <3> QED BY <3>1, BlockTypes, SplitType, JoinedOne
  <2> QED BY <2>1, <2>2
<1>5. Joined(Joined(q, Kept), Parts) = Joined(q, Parts)
  <2>1. PICK h : /\ \A b \in ContentBlock : h[b] = Joined(Kept[b], Parts)
                 /\ Joined(Joined(q, Kept), Parts) = Joined(q, h)
    BY <1>0, <1>1, <1>2, JoinedTwice
  <2>2. Joined(q, h) = Joined(q, Parts)
    BY <1>0, <1>4, <2>1, JoinedSame
  <2> QED BY <2>1, <2>2
<1>6. Joined(Joined(q, Kept), Split) = Joined(q, Split)
  <2>1. PICK h : /\ \A b \in ContentBlock : h[b] = Joined(Kept[b], Split)
                 /\ Joined(Joined(q, Kept), Split) = Joined(q, h)
    BY <1>0, <1>1, <1>3, JoinedTwice
  <2>2. Joined(q, h) = Joined(q, Split)
    BY <1>0, <1>4, <2>1, JoinedSame
  <2> QED BY <2>1, <2>2
<1> QED BY <1>5, <1>6

(* What a text, an image or a result becomes next to results.            *)
KindOf(b) == IF b.type = "image" THEN "image_url" ELSE "text"

SingleOf(b) ==
    IF IsResult(b) THEN Message("tool", <<"text">>, << >>, b.call)
    ELSE Message("user", <<KindOf(b)>>, << >>, NoCallID)

LEMMA SinglesSplit ==
    ASSUME NEW q \in Seq(KeptBlock)
    PROVE  /\ Len(Joined(q, Split)) = Len(q)
           /\ \A k \in 1 .. Len(q) : Joined(q, Split)[k] = SingleOf(q[k])
<1>1. ASSUME NEW b \in KeptBlock
      PROVE  Split[b] \in Seq(OpenAIMessage) /\ Len(Split[b]) = 1 /\ Split[b][1] = SingleOf(b)
  <2>1. b \in ContentBlock /\ b.type \in {"text", "image", "tool_result"}
    BY DEF KeptBlock, UserBlock, ContentBlock
  <2>2. MessageOf(b) = <<SingleOf(b)>>
    <3>1. CASE b.type = "tool_result"
      BY <3>1 DEF MessageOf, IsResult, SingleOf
    <3>2. CASE b.type = "text"
      BY <3>2 DEF MessageOf, IsResult, SingleOf, PartOf, KindOf
    <3>3. CASE b.type = "image"
      BY <3>3 DEF MessageOf, IsResult, SingleOf, PartOf, KindOf
    <3> QED BY <2>1, <3>1, <3>2, <3>3
  <2>3. Split[b] = <<SingleOf(b)>>
    BY <2>1, <2>2 DEF Split
  <2>4. Split[b] \in Seq(OpenAIMessage)
    BY <2>1, SplitType
  <2> QED BY <2>3, <2>4
<1>2. /\ Len(Joined(q, Split)) = Len(q)
      /\ \A k \in 1 .. Len(q) : Joined(q, Split)[k] = Split[q[k]][1]
  BY <1>1, JoinedOnes
<1>3. \A k \in 1 .. Len(q) : q[k] \in KeptBlock
  OBVIOUS
<1> QED BY <1>1, <1>2, <1>3

(* Without results each block becomes one part.                          *)
PartBlock == {b \in ContentBlock : b.type \in {"text", "image"}}

LEMMA KindsJoined ==
    ASSUME NEW q \in Seq(PartBlock)
    PROVE  /\ Len(Joined(q, Parts)) = Len(q)
           /\ \A k \in 1 .. Len(q) : Joined(q, Parts)[k] = KindOf(q[k])
<1>1. ASSUME NEW b \in PartBlock
      PROVE  Parts[b] \in Seq(Kinds) /\ Len(Parts[b]) = 1 /\ Parts[b][1] = KindOf(b)
  <2>1. b \in ContentBlock /\ b.type \in {"text", "image"}
    BY DEF PartBlock
  <2>2. PartOf(b) = <<KindOf(b)>>
    <3>1. CASE b.type = "text"
      BY <3>1 DEF PartOf, KindOf
    <3>2. CASE b.type = "image"
      BY <3>2 DEF PartOf, KindOf
    <3> QED BY <2>1, <3>1, <3>2
  <2>3. Parts[b] = <<KindOf(b)>>
    BY <2>1, <2>2 DEF Parts
  <2>4. Parts[b] \in Seq(Kinds)
    BY <2>1, BlockTypes
  <2> QED BY <2>3, <2>4
<1>2. /\ Len(Joined(q, Parts)) = Len(q)
      /\ \A k \in 1 .. Len(q) : Joined(q, Parts)[k] = Parts[q[k]][1]
  BY <1>1, JoinedOnes
<1>3. \A k \in 1 .. Len(q) : q[k] \in PartBlock
  OBVIOUS
<1> QED BY <1>1, <1>2, <1>3

(* An image with its source in a message of the client.                  *)
HoldsImage(q) == Has(q, "image")

(* With results among the blocks each that is kept is a message of its     *)
(* own, in their order; without, they are one message.                     *)
LEMMA UserConverted ==
    ASSUME NEW q \in Seq(UserBlock)
    PROVE  LET m == [role |-> "user", content |-> q]
               r == convertMessage(m)
               p == Joined(q, Kept)
           IN  /\ m \in UserMessage
               /\ r \in Seq(OpenAIMessage) /\ r # << >>
               /\ \A k \in 1 .. Len(r) : r[k].calls = << >>
               /\ ShowsImage(r) <=> HoldsImage(q)
               /\ (\A k \in 1 .. Len(q) : ~IsResult(q[k])) =>
                      Len(r) = 1 /\ r[1].role = "user"
               /\ (\E k \in 1 .. Len(q) : IsResult(q[k])) =>
                      /\ Len(r) = Len(p)
                      /\ \A k \in 1 .. Len(p) :
                            IF IsResult(p[k])
                              THEN r[k].role = "tool" /\ r[k].answers = p[k].call
                              ELSE r[k].role = "user"
<1> DEFINE m == [role |-> "user", content |-> q]
           r == convertMessage(m)
           p == Joined(q, Kept)
<1>0. m \in UserMessage /\ m.content = q /\ m.role = "user" /\ q \in Seq(ContentBlock)
      /\ DOMAIN q = 1 .. Len(q) /\ Len(q) \in Nat
  BY DEF UserMessage, UserBlock
<1>4. /\ p \in Seq(KeptBlock) /\ Len(p) \in Nat /\ DOMAIN p = 1 .. Len(p)
      /\ \A k \in 1 .. Len(p) : p[k] \in KeptBlock
  <2>1. p \in Seq(KeptBlock)
    BY KeptType
  <2> HIDE DEF p
  <2> QED BY <2>1
<1>5. HoldsImage(p) <=> HoldsImage(q)
  BY KeptHas DEF HoldsImage
<1>6. (\E k \in 1 .. Len(p) : IsResult(p[k])) <=> \E k \in 1 .. Len(q) : IsResult(q[k])
  <2>1. Has(p, "tool_result") <=> Has(q, "tool_result")
    BY KeptHas
  <2> HIDE DEF p
  <2> QED BY <1>0, <1>4, <2>1 DEF Has, IsResult
<1>7. Joined(q, Parts) = Joined(p, Parts) /\ Joined(q, Split) = Joined(p, Split)
  BY KeptJoined
<1> HIDE DEF m, p
<1>1. r \in Seq(OpenAIMessage)
  <2>1. Converted[m] = r /\ Converted[m] \in Seq(OpenAIMessage)
    BY <1>0, ConvertedType DEF Converted
  <2> QED BY <2>1
<1>2. CASE \A k \in 1 .. Len(q) : ~IsResult(q[k])
  <2> DEFINE content == IF q = << >> THEN <<"text">> ELSE FlatMap(q, PartOf)
  <2>1. r = << Message("user", content, << >>, NoCallID) >>
    <3>1. CASE q = << >>
      BY <1>0, <3>1 DEF convertMessage
    <3>2. CASE q # << >>
      <4>1. r = convertUserMessage(q)
        BY <1>0, <3>2 DEF convertMessage
      <4> QED BY <1>0, <1>2, <3>2, <4>1 DEF convertUserMessage
    <3> QED BY <3>1, <3>2
  <2>2. content \in Seq(Kinds)
    BY <1>0, BlocksJoined, TextIsContent
  <2>3. HoldsImage(q) <=> \E j \in DOMAIN content : content[j] = "image_url"
    <3>1. CASE q = << >>
      BY <1>0, <3>1 DEF HoldsImage, Has
    <3>2. CASE q # << >>
      <4>1. p \in Seq(PartBlock)
        <5>1. ASSUME NEW k \in 1 .. Len(p) PROVE p[k] \in PartBlock
          <6>1. p[k] \in KeptBlock /\ ~IsResult(p[k])
            BY <1>2, <1>4, <1>6
          <6> QED BY <6>1 DEF KeptBlock, UserBlock, PartBlock, ContentBlock, IsResult
        <5> QED BY <1>4, <5>1
      <4>2. content = Joined(p, Parts)
        BY <1>0, <1>7, <3>2, BlocksJoined
      <4>3. Len(content) = Len(p) /\ \A k \in 1 .. Len(p) : content[k] = KindOf(p[k])
        BY <4>1, <4>2, KindsJoined
      <4> HIDE DEF content
      <4>4. \A k \in 1 .. Len(p) : content[k] = "image_url" <=> p[k].type = "image"
        BY <4>3 DEF KindOf
      <4>5. DOMAIN content = DOMAIN p
        BY <1>4, <2>2, <4>3
      <4> QED BY <1>4, <1>5, <4>4, <4>5 DEF HoldsImage, Has
    <3> QED BY <3>1, <3>2
  <2> HIDE DEF content
  <2> DEFINE a == Message("user", content, << >>, NoCallID)
  <2>4. a.role = "user" /\ a.content = content /\ a.calls = << >>
    BY <2>2, PlainMessage
  <2>5. r = <<a>>
    BY <2>1
  <2> HIDE DEF a, r
  <2>6. Len(r) = 1 /\ r[1] = a /\ DOMAIN r = {1}
    BY <2>5
  <2>7. ShowsImage(r) <=> HoldsImage(q)
    BY <2>3, <2>4, <2>6 DEF ShowsImage
  <2>8. \A k \in 1 .. Len(r) : r[k].calls = << >>
    BY <2>4, <2>6
  <2>9. r # << >> /\ r[1].role = "user"
    <3>1. r # << >>
      BY <2>5
    <3> QED BY <2>4, <2>6, <3>1
  <2> QED BY <1>0, <1>1, <1>2, <2>6, <2>7, <2>8, <2>9 DEF r, m, p
<1>3. CASE \E k \in 1 .. Len(q) : IsResult(q[k])
  <2>1. q # << >>
    BY <1>0, <1>3
  <2>2. r = FlatMap(q, MessageOf)
    <3>1. r = convertUserMessage(q)
      BY <1>0, <2>1 DEF convertMessage
    <3> QED BY <1>0, <1>3, <3>1 DEF convertUserMessage
  <2>3. r = Joined(p, Split)
    BY <1>0, <1>7, <2>2, BlocksJoined
  <2>4. ASSUME NEW k \in 1 .. Len(p)
        PROVE  /\ SingleOf(p[k]).calls = << >>
               /\ (\E j \in DOMAIN SingleOf(p[k]).content : SingleOf(p[k]).content[j] = "image_url")
                      <=> p[k].type = "image"
               /\ IF IsResult(p[k])
                    THEN SingleOf(p[k]).role = "tool" /\ SingleOf(p[k]).answers = p[k].call
                    ELSE SingleOf(p[k]).role = "user"
    <3> DEFINE b == p[k]
    <3>0. b \in ContentBlock
      BY <1>4 DEF KeptBlock, UserBlock
    <3>1. b.call \in Calls \cup {NoCallID}
      BY <3>0 DEF ContentBlock
    <3> HIDE DEF b
    <3>2. CASE IsResult(b)
      <4> DEFINE text == <<"text">>
                 call == b.call
                 a == Message("tool", text, << >>, call)
      <4>0. text \in Seq(Kinds)
        BY TextIsContent
      <4>2. SingleOf(b) = a
        BY <3>2 DEF SingleOf
      <4>5. call \in Calls \cup {NoCallID}
        BY <3>1
      <4> HIDE DEF text, call
      <4>1. a.role = "tool" /\ a.content = text /\ a.calls = << >> /\ a.answers = call
        BY <4>0, <4>5, PlainMessage
      <4> HIDE DEF a
      <4>3. ~(\E j \in DOMAIN a.content : a.content[j] = "image_url") /\ b.type # "image"
        BY <3>2, <4>1 DEF IsResult, text
      <4> QED BY <3>2, <4>1, <4>2, <4>3 DEF b, call
    <3>3. CASE ~IsResult(b)
      <4> DEFINE kind == <<KindOf(b)>>
                 a == Message("user", kind, << >>, NoCallID)
      <4>0. kind \in Seq(Kinds)
        BY TextIsContent DEF KindOf
      <4> HIDE DEF kind
      <4>1. a.role = "user" /\ a.content = kind /\ a.calls = << >>
        BY <4>0, PlainMessage
      <4>2. SingleOf(b) = a
        BY <3>3 DEF SingleOf, kind
      <4> HIDE DEF a
      <4>3. (\E j \in DOMAIN a.content : a.content[j] = "image_url") <=> b.type = "image"
        BY <4>1 DEF KindOf, kind
      <4> QED BY <3>3, <4>1, <4>2, <4>3 DEF b
    <3> QED BY <3>2, <3>3
  <2> HIDE DEF r
  <2>5. Len(r) = Len(p) /\ DOMAIN r = 1 .. Len(p) /\ \A k \in 1 .. Len(p) : r[k] = SingleOf(p[k])
    BY <1>1, <1>4, <2>3, SinglesSplit
  <2>6. ShowsImage(r) <=> HoldsImage(q)
    BY <1>4, <1>5, <2>4, <2>5 DEF ShowsImage, HoldsImage, Has
  <2>7. \A k \in 1 .. Len(r) : r[k].calls = << >>
    BY <2>4, <2>5
  <2>8. r # << >>
    BY <1>3, <1>4, <1>6, <2>5
  <2>9. \A k \in 1 .. Len(p) :
            IF IsResult(p[k]) THEN r[k].role = "tool" /\ r[k].answers = p[k].call
            ELSE r[k].role = "user"
    BY <2>4, <2>5
  <2> QED BY <1>0, <1>1, <1>3, <2>5, <2>6, <2>7, <2>8, <2>9 DEF r, m, p
<1> HIDE DEF r
<1> QED BY <1>2, <1>3 DEF r, m, p

-----------------------------------------------------------------------------
(* What an answer becomes, there and back                                  *)

(* The blocks of an answer, and what upstream says in a choice.          *)
AnswerBlock == {b \in ContentBlock : b.type \in {"text", "tool_use"}}
SaidCall == [id : Calls, args : {"json", "precise", "empty", "broken"}]
ChoiceType == [text : BOOLEAN, calls : Seq(SaidCall)]

(* The loops over choices, and a call there and back.                    *)
BlocksIn == [c \in ChoiceType |-> BlocksOf(c)]
TextsIn == [c \in ChoiceType |-> SaidText(c)]
CallsSaid == [c \in ChoiceType |-> CallsOf(c)]
CallBack(c) == [id |-> c.id, args |-> Marshalled(ParsedArguments(c.args))]
Back == [c \in SaidCall |-> <<CallBack(c)>>]

\* No call makes a text, and every call comes back.
LEMMA ToolUses ==
    ASSUME NEW c \in SaidCall
    PROVE  /\ ToolUse(c) \in AnswerBlock /\ ToolUse(c).type = "tool_use"
           /\ Texts[ToolUse(c)] = << >>
           /\ CallsIn[ToolUse(c)] = Back[c]
           /\ Back[c] \in Seq(Call) /\ Len(Back[c]) = 1 /\ Back[c][1] = CallBack(c)
           /\ SameCall(CallBack(c), c)
<1>1. /\ c.id \in Calls /\ c.args \in {"json", "precise", "empty", "broken"}
      /\ ParsedArguments(c.args) \in {"json", "rounded", "{}", "nil"}
  BY DEF SaidCall, ParsedArguments, Decoded
<1>2. /\ ToolUse(c) \in ContentBlock /\ ToolUse(c).type = "tool_use"
      /\ ToolUse(c).call = c.id /\ ToolUse(c).input = ParsedArguments(c.args)
  BY <1>1 DEF ToolUse, ContentBlock
<1>3. TextOf(ToolUse(c)) = << >>
  BY <1>2 DEF TextOf
<1>4. CallOf(ToolUse(c)) = <<CallBack(c)>>
  BY <1>2 DEF CallOf, CallBack
<1>5. SameCall(CallBack(c), c)
  <2>1. CallBack(c).args = Marshalled(ParsedArguments(c.args)) /\ CallBack(c).id = c.id
    BY DEF CallBack
  <2>2. CASE c.args = "json"
    BY <2>1, <2>2 DEF SameCall, ParsedArguments, Marshalled, Decoded
  <2>3. CASE c.args = "precise"
    BY <2>1, <2>3 DEF SameCall, ParsedArguments, Marshalled, Decoded
  <2>4. CASE c.args = "empty"
    BY <2>1, <2>4 DEF SameCall, ParsedArguments, Marshalled, Decoded
  <2>5. CASE c.args = "broken"
    BY <2>1, <2>5 DEF SameCall, ParsedArguments, Marshalled, Decoded
  <2> QED BY <1>1, <2>2, <2>3, <2>4, <2>5
<1>6. CallBack(c) \in Call
  BY <1>1 DEF Call, CallBack, Marshalled, Decoded
<1>7. Back[c] = <<CallBack(c)>>
  BY DEF Back
<1>8. Texts[ToolUse(c)] = TextOf(ToolUse(c)) /\ CallsIn[ToolUse(c)] = CallOf(ToolUse(c))
  BY <1>2 DEF Texts, CallsIn
<1>9. Back[c] \in Seq(Call) /\ Len(Back[c]) = 1 /\ Back[c][1] = CallBack(c)
  BY <1>6, <1>7
<1> QED BY <1>2, <1>3, <1>4, <1>5, <1>7, <1>8, <1>9 DEF AnswerBlock

(* A text comes back as one.                                             *)
LEMMA TextBlock ==
    /\ Plain("text") \in AnswerBlock
    /\ Texts[Plain("text")] = <<"text">> /\ CallsIn[Plain("text")] = << >>
<1>1. Plain("text") \in ContentBlock /\ Plain("text").type = "text"
  BY DEF Plain, ContentBlock
<1> QED BY <1>1 DEF AnswerBlock, Texts, CallsIn, TextOf, CallOf

(* One choice: its text, and its calls.                                    *)
LEMMA ChoiceBack ==
    ASSUME NEW c \in ChoiceType
    PROVE  /\ BlocksOf(c) \in Seq(AnswerBlock)
           /\ Joined(BlocksOf(c), Texts) = SaidText(c)
           /\ Joined(BlocksOf(c), CallsIn) = Joined(CallsOf(c), Back)
<1> DEFINE first == IF c.text THEN << Plain("text") >> ELSE << >>
           uses == Map(c.calls, ToolUse)
           U == {b \in AnswerBlock : b.type = "tool_use"}
<1>0. c.calls \in Seq(SaidCall) /\ Len(c.calls) \in Nat /\ DOMAIN c.calls = 1 .. Len(c.calls)
      /\ \A k \in 1 .. Len(c.calls) : c.calls[k] \in SaidCall
  BY DEF ChoiceType
<1>1. BlocksOf(c) = first \o uses
  BY DEF BlocksOf
<1>2. first \in Seq(AnswerBlock) /\ (~c.text => first = << >>) /\ (c.text => first = << Plain("text") >>)
  BY TextBlock
<1>3. uses = [k \in 1 .. Len(c.calls) |-> ToolUse(c.calls[k])]
  BY <1>0 DEF Map
<1>4. uses \in Seq(U)
  <2>1. \A k \in 1 .. Len(c.calls) : ToolUse(c.calls[k]) \in U
    BY <1>0, ToolUses
  <2> HIDE DEF U
  <2> QED BY <1>0, <1>3, <2>1
<1>5. Joined(uses, Texts) = << >>
  <2>1. \A b \in U : Texts[b] = << >>
    BY DEF AnswerBlock, Texts, TextOf
  <2> HIDE DEF U, uses
  <2> QED BY <1>4, <2>1, JoinedNothing
<1>6. Joined(uses, CallsIn) = Joined(CallsOf(c), Back)
  <2>1. \A k \in 1 .. Len(c.calls) : CallsIn[ToolUse(c.calls[k])] = Back[c.calls[k]]
    BY <1>0, ToolUses
  <2>2. DOMAIN uses = 1 .. Len(c.calls)
        /\ \A k \in 1 .. Len(c.calls) : CallsIn[uses[k]] = Back[c.calls[k]]
    BY <1>3, <2>1
  <2> HIDE DEF uses
  <2>3. [k \in DOMAIN uses |-> CallsIn[uses[k]]] = [k \in DOMAIN c.calls |-> Back[c.calls[k]]]
    BY <1>0, <2>2
  <2> QED BY <2>3 DEF Joined, CallsOf
<1> HIDE DEF first, uses
<1>7. first \in Seq(ContentBlock) /\ uses \in Seq(ContentBlock) /\ uses \in Seq(AnswerBlock)
  BY <1>2, <1>4 DEF AnswerBlock
<1>8. Joined(first, Texts) = SaidText(c) /\ Joined(first, CallsIn) = << >>
  <2>1. CASE c.text
    <3> DEFINE b == Plain("text")
    <3>1. b \in ContentBlock
      BY TextBlock DEF AnswerBlock
    <3>2. Texts[b] = <<"text">> /\ CallsIn[b] = << >>
      BY TextBlock
    <3>3. first = <<b>>
      BY <1>2, <2>1
    <3> HIDE DEF b
    <3>4. Joined(first, Texts) = Texts[b] /\ Joined(first, CallsIn) = CallsIn[b]
      BY <3>1, <3>3, BlockTypes, JoinedOne
    <3> QED BY <2>1, <3>2, <3>4 DEF SaidText
  <2>2. CASE ~c.text
    BY <1>2, <2>2, JoinedEmpty DEF SaidText
  <2> QED BY <2>1, <2>2
<1>9. /\ Joined(first \o uses, Texts) = Joined(first, Texts) \o Joined(uses, Texts)
      /\ Joined(first \o uses, CallsIn) = Joined(first, CallsIn) \o Joined(uses, CallsIn)
  <2>1. Texts \in [ContentBlock -> Seq(Kinds)] /\ CallsIn \in [ContentBlock -> Seq(Call)]
    BY BlockTypes
  <2>2. Joined(first \o uses, Texts) = Joined(first, Texts) \o Joined(uses, Texts)
    BY <1>7, <2>1, JoinedConcat
  <2>3. Joined(first \o uses, CallsIn) = Joined(first, CallsIn) \o Joined(uses, CallsIn)
    BY <1>7, <2>1, JoinedConcat
  <2> QED BY <2>2, <2>3
<1>10. /\ Joined(first, Texts) \in Seq(Kinds) /\ Joined(uses, CallsIn) \in Seq(Call)
  BY <1>7, BlockTypes, JoinedType
<1>11. /\ Joined(first, Texts) \o << >> = Joined(first, Texts)
       /\ << >> \o Joined(uses, CallsIn) = Joined(uses, CallsIn)
  BY <1>10
<1>12. first \o uses \in Seq(AnswerBlock)
  BY <1>2, <1>7
<1> QED BY <1>1, <1>5, <1>6, <1>8, <1>9, <1>11, <1>12

LEMMA ChoiceTypes ==
    /\ BlocksIn \in [ChoiceType -> Seq(AnswerBlock)]
    /\ BlocksIn \in [ChoiceType -> Seq(ContentBlock)]
    /\ TextsIn \in [ChoiceType -> Seq(Kinds)]
    /\ CallsSaid \in [ChoiceType -> Seq(SaidCall)]
    /\ Back \in [SaidCall -> Seq(Call)]
<1>1. \A c \in ChoiceType : BlocksOf(c) \in Seq(AnswerBlock)
  BY ChoiceBack
<1>2. \A c \in ChoiceType : BlocksOf(c) \in Seq(ContentBlock)
  <2>1. \A q \in Seq(AnswerBlock) : q \in Seq(ContentBlock)
    BY DEF AnswerBlock
  <2> QED BY <1>1, <2>1
<1>3. \A c \in ChoiceType : SaidText(c) \in Seq(Kinds)
  BY TextIsContent DEF SaidText
<1>4. \A c \in ChoiceType : CallsOf(c) \in Seq(SaidCall)
  BY DEF ChoiceType, CallsOf
<1>5. \A c \in SaidCall : <<CallBack(c)>> \in Seq(Call)
  <2>1. \A c \in SaidCall : Back[c] = <<CallBack(c)>> /\ Back[c] \in Seq(Call)
    BY ToolUses DEF Back
  <2> QED BY <2>1
<1> QED BY <1>1, <1>2, <1>3, <1>4, <1>5 DEF BlocksIn, TextsIn, CallsSaid, Back

(* The loops over the choices of a response.                             *)
LEMMA ChoicesJoined ==
    ASSUME NEW q \in Seq(ChoiceType)
    PROVE  /\ FlatMap(q, BlocksOf) = Joined(q, BlocksIn)
           /\ FlatMap(q, SaidText) = Joined(q, TextsIn)
           /\ AllCalls(q) = Joined(q, CallsSaid)
           /\ Joined(q, BlocksIn) \in Seq(AnswerBlock)
           /\ Joined(q, BlocksIn) \in Seq(ContentBlock)
           /\ Joined(q, TextsIn) \in Seq(Kinds)
           /\ Joined(q, CallsSaid) \in Seq(SaidCall)
<1>0. \A k \in DOMAIN q : q[k] \in ChoiceType
  OBVIOUS
<1>1. FlatMap(q, BlocksOf) = Joined(q, BlocksIn)
  <2>1. [k \in DOMAIN q |-> BlocksOf(q[k])] = [k \in DOMAIN q |-> BlocksIn[q[k]]]
    BY <1>0 DEF BlocksIn
  <2> QED BY <2>1 DEF FlatMap, Map, Joined
<1>2. FlatMap(q, SaidText) = Joined(q, TextsIn)
  <2>1. [k \in DOMAIN q |-> SaidText(q[k])] = [k \in DOMAIN q |-> TextsIn[q[k]]]
    BY <1>0 DEF TextsIn
  <2> QED BY <2>1 DEF FlatMap, Map, Joined
<1>3. AllCalls(q) = Joined(q, CallsSaid)
  <2>1. [k \in DOMAIN q |-> CallsOf(q[k])] = [k \in DOMAIN q |-> CallsSaid[q[k]]]
    BY <1>0 DEF CallsSaid
  <2> QED BY <2>1 DEF AllCalls, FlatMap, Map, Joined
<1>4. Joined(q, BlocksIn) \in Seq(AnswerBlock)
  BY ChoiceTypes, JoinedType
<1>5. Joined(q, BlocksIn) \in Seq(ContentBlock)
  BY ChoiceTypes, JoinedType
<1>6. Joined(q, TextsIn) \in Seq(Kinds)
  BY ChoiceTypes, JoinedType
<1>7. Joined(q, CallsSaid) \in Seq(SaidCall)
  BY ChoiceTypes, JoinedType
<1> QED BY <1>1, <1>2, <1>3, <1>4, <1>5, <1>6, <1>7

(* All choices: the texts and the calls of an answer come back.            *)
LEMMA ChoicesBack ==
    ASSUME NEW q \in Seq(ChoiceType)
    PROVE  LET content == FlatMap(q, BlocksOf) IN
           /\ Joined(content, Texts) = FlatMap(q, SaidText)
           /\ Joined(content, CallsIn) = Joined(AllCalls(q), Back)
<1> DEFINE both == [c \in ChoiceType |-> Joined(CallsSaid[c], Back)]
<1>1. \A c \in ChoiceType : TextsIn[c] = Joined(BlocksIn[c], Texts)
  BY ChoiceBack DEF TextsIn, BlocksIn
<1>2. \A c \in ChoiceType : both[c] = Joined(BlocksIn[c], CallsIn)
  BY ChoiceBack DEF BlocksIn, CallsSaid
<1>3. \A c \in ChoiceType : both[c] = Joined(CallsSaid[c], Back)
  OBVIOUS
<1> HIDE DEF both
<1>4. BlocksIn \in ListsFrom(ChoiceType, ContentBlock)
  BY ChoiceTypes DEF ListsFrom
<1>5. CallsSaid \in ListsFrom(ChoiceType, SaidCall)
  BY ChoiceTypes DEF ListsFrom
<1>6. Back \in ListsFrom(SaidCall, Call)
  BY ChoiceTypes DEF ListsFrom
<1>7. Texts \in ListsFrom(ContentBlock, Kinds)
  BY BlockTypes DEF ListsFrom
<1>8. CallsIn \in ListsFrom(ContentBlock, Call)
  BY BlockTypes DEF ListsFrom
<1>9. Joined(Joined(q, BlocksIn), Texts) = Joined(q, TextsIn)
  <2>1. PICK h : /\ \A c \in ChoiceType : h[c] = Joined(BlocksIn[c], Texts)
                 /\ Joined(Joined(q, BlocksIn), Texts) = Joined(q, h)
    BY <1>4, <1>7, JoinedTwice
  <2>2. Joined(q, h) = Joined(q, TextsIn)
    BY <1>1, <2>1, JoinedSame
  <2> QED BY <2>1, <2>2
<1>10. Joined(Joined(q, BlocksIn), CallsIn) = Joined(q, both)
  <2>1. PICK h : /\ \A c \in ChoiceType : h[c] = Joined(BlocksIn[c], CallsIn)
                 /\ Joined(Joined(q, BlocksIn), CallsIn) = Joined(q, h)
    BY <1>4, <1>8, JoinedTwice
  <2>2. Joined(q, h) = Joined(q, both)
    BY <1>2, <2>1, JoinedSame
  <2> QED BY <2>1, <2>2
<1>11. Joined(Joined(q, CallsSaid), Back) = Joined(q, both)
  <2>1. PICK h : /\ \A c \in ChoiceType : h[c] = Joined(CallsSaid[c], Back)
                 /\ Joined(Joined(q, CallsSaid), Back) = Joined(q, h)
    BY <1>5, <1>6, JoinedTwice
  <2>2. Joined(q, h) = Joined(q, both)
    BY <1>3, <2>1, JoinedSame
  <2> QED BY <2>1, <2>2
<1> QED BY <1>9, <1>10, <1>11, ChoicesJoined

(* No text is an image, and a call is not text.                            *)
LEMMA AnswerTexts ==
    ASSUME NEW q \in Seq(ContentBlock)
    PROVE  \A j \in DOMAIN Joined(q, Texts) : Joined(q, Texts)[j] = "text"
<1> DEFINE K == {"text"}
<1>1. Texts \in [ContentBlock -> Seq(K)]
  <2>1. <<"text">> \in Seq(K) /\ << >> \in Seq(K)
    <3>1. "text" \in K
      OBVIOUS
    <3> HIDE DEF K
    <3> QED BY <3>1
  <2> HIDE DEF K
  <2> QED BY <2>1 DEF Texts, TextOf
<1> HIDE DEF K
<1>2. Joined(q, Texts) \in Seq(K)
  BY <1>1, JoinedType
<1>3. \A j \in DOMAIN Joined(q, Texts) : Joined(q, Texts)[j] \in K
  BY <1>2
<1> QED BY <1>3 DEF K

(* A block of an answer is a text or a call.                             *)
LEMMA NotNothing ==
    ASSUME NEW q \in Seq(AnswerBlock), q # << >>
    PROVE  Joined(q, Texts) # << >> \/ Joined(q, CallsIn) # << >>
<1>1. PICK b \in AnswerBlock, t \in Seq(AnswerBlock) : q = <<b>> \o t
  <2>1. Head(q) \in AnswerBlock /\ Tail(q) \in Seq(AnswerBlock) /\ q = <<Head(q)>> \o Tail(q)
    OBVIOUS
  <2> QED BY <2>1
<1>2. b \in ContentBlock /\ t \in Seq(ContentBlock) /\ <<b>> \in Seq(ContentBlock)
      /\ b.type \in {"text", "tool_use"}
  BY DEF AnswerBlock
<1>3. Texts \in [ContentBlock -> Seq(Kinds)]
  BY BlockTypes
<1>4. CallsIn \in [ContentBlock -> Seq(Call)]
  BY BlockTypes
<1>5. /\ Joined(q, Texts) = Texts[b] \o Joined(t, Texts)
      /\ Texts[b] \in Seq(Kinds) /\ Joined(t, Texts) \in Seq(Kinds)
  <2>1. Joined(<<b>> \o t, Texts) = Joined(<<b>>, Texts) \o Joined(t, Texts)
    BY <1>2, <1>3, JoinedConcat
  <2>2. Joined(<<b>>, Texts) = Texts[b]
    BY <1>2, <1>3, JoinedOne
  <2>3. Joined(t, Texts) \in Seq(Kinds)
    BY <1>2, <1>3, JoinedType
  <2> QED BY <1>1, <1>2, <1>3, <2>1, <2>2, <2>3
<1>6. /\ Joined(q, CallsIn) = CallsIn[b] \o Joined(t, CallsIn)
      /\ CallsIn[b] \in Seq(Call) /\ Joined(t, CallsIn) \in Seq(Call)
  <2>1. Joined(<<b>> \o t, CallsIn) = Joined(<<b>>, CallsIn) \o Joined(t, CallsIn)
    BY <1>2, <1>4, JoinedConcat
  <2>2. Joined(<<b>>, CallsIn) = CallsIn[b]
    BY <1>2, <1>4, JoinedOne
  <2>3. Joined(t, CallsIn) \in Seq(Call)
    BY <1>2, <1>4, JoinedType
  <2> QED BY <1>1, <1>2, <1>4, <2>1, <2>2, <2>3
<1>7. CASE b.type = "text"
  <2>1. Texts[b] # << >>
    BY <1>2, <1>7 DEF Texts, TextOf
  <2> QED BY <1>5, <2>1
<1>8. CASE b.type = "tool_use"
  <2>1. CallsIn[b] # << >>
    BY <1>2, <1>8 DEF CallsIn, CallOf
  <2> QED BY <1>6, <2>1
<1> QED BY <1>2, <1>7, <1>8

(* An answer sent back is one message, the one that upstream gave.         *)
LEMMA AnswerConverted ==
    ASSUME NEW q \in Seq(ChoiceType)
    PROVE  LET m == [role |-> "assistant", content |-> TranslateToAnthropic(q)]
           IN  /\ m \in UserMessage /\ ~HoldsImage(m.content)
               /\ Said(q) \in OpenAIMessage
               /\ \E a \in OpenAIMessage :
                      /\ convertMessage(m) = <<a>>
                      /\ a.role = "assistant"
                      /\ a.calls = FlatMap(m.content, CallOf)
                      /\ \A j \in DOMAIN a.content : a.content[j] = "text"
                      /\ SameMessage(a, Said(q))
<1> DEFINE made == FlatMap(q, BlocksOf)
           content == TranslateToAnthropic(q)
           m == [role |-> "assistant", content |-> content]
           texts == Joined(content, Texts)
           back == Joined(content, CallsIn)
           a == Message("assistant", texts, back, NoCallID)
           calls == AllCalls(q)
           told == FlatMap(q, SaidText)
           saidTexts == IF told = << >> /\ calls = << >> THEN <<"text">> ELSE told
<1>1. /\ made \in Seq(AnswerBlock) /\ calls \in Seq(SaidCall) /\ told \in Seq(Kinds)
      /\ Joined(made, Texts) = told /\ Joined(made, CallsIn) = Joined(calls, Back)
  BY ChoicesJoined, ChoicesBack
<1>2. content = IF made = << >> THEN << Plain("text") >> ELSE made
  BY DEF TranslateToAnthropic
<1>3. Said(q) = Message("assistant", saidTexts, calls, NoCallID)
  BY DEF Said
<1> HIDE DEF made, content, calls, told
<1>4. content \in Seq(AnswerBlock) /\ content # << >>
  BY <1>1, <1>2, TextBlock
<1>5. content \in Seq(ContentBlock)
  BY <1>4 DEF AnswerBlock
<1>6. texts \in Seq(Kinds) /\ back \in Seq(Call)
  BY <1>5, BlocksJoined
<1>7. /\ Len(Joined(calls, Back)) = Len(calls)
      /\ \A k \in 1 .. Len(calls) : Joined(calls, Back)[k] = CallBack(calls[k])
  <2>1. \A c \in SaidCall : Back[c] \in Seq(Call) /\ Len(Back[c]) = 1
    BY ToolUses
  <2>2. /\ Len(Joined(calls, Back)) = Len(calls)
        /\ \A k \in 1 .. Len(calls) : Joined(calls, Back)[k] = Back[calls[k]][1]
    BY <1>1, <2>1, JoinedOnes
  <2>3. \A k \in 1 .. Len(calls) : calls[k] \in SaidCall
    BY <1>1
  <2> QED BY <2>2, <2>3, ToolUses
<1>8. texts = saidTexts /\ back = Joined(calls, Back)
  <2>1. CASE made = << >>
    <3>1. told = << >> /\ Joined(calls, Back) = << >>
      BY <1>1, <2>1, JoinedEmpty
    <3>2. calls = << >>
      <4>1. Len(calls) = 0
        BY <1>7, <3>1
      <4> QED BY <1>1, <4>1
    <3>3. texts = <<"text">> /\ back = << >>
      <4> DEFINE b == Plain("text")
      <4>1. b \in ContentBlock
        BY TextBlock DEF AnswerBlock
      <4>2. Texts[b] = <<"text">> /\ CallsIn[b] = << >>
        BY TextBlock
      <4>3. content = <<b>>
        BY <1>2, <2>1
      <4> HIDE DEF b
      <4>4. Joined(content, Texts) = Texts[b] /\ Joined(content, CallsIn) = CallsIn[b]
        BY <4>1, <4>3, BlockTypes, JoinedOne
      <4> QED BY <4>2, <4>4
    <3> QED BY <3>1, <3>2, <3>3
  <2>2. CASE made # << >>
    <3>1. texts = told /\ back = Joined(calls, Back)
      BY <1>1, <1>2, <2>2
    <3>2. told # << >> \/ Joined(calls, Back) # << >>
      BY <1>1, <2>2, NotNothing
    <3>3. calls = << >> => Joined(calls, Back) = << >>
      BY JoinedEmpty
    <3> QED BY <3>1, <3>2, <3>3
  <2> QED BY <2>1, <2>2
<1>9. calls \in Seq(Call)
  <2>1. \A c \in SaidCall : c \in Call
    BY DEF SaidCall, Call
  <2> QED BY <1>1, <2>1
<1>10. saidTexts \in Seq(Kinds)
  BY <1>6, <1>8
<1>11. /\ a \in OpenAIMessage /\ a.role = "assistant" /\ a.content = texts /\ a.calls = back
       /\ a.answers = NoCallID
  BY <1>6, MessageTypes
<1>12. /\ Said(q) \in OpenAIMessage /\ Said(q).content = saidTexts /\ Said(q).calls = calls
       /\ Said(q).answers = NoCallID
  <2> HIDE DEF saidTexts
  <2> QED BY <1>3, <1>9, <1>10, MessageTypes
<1>13. SameMessage(a, Said(q))
  <2>1. \A k \in 1 .. Len(calls) : SameCall(back[k], calls[k])
    <3>1. \A k \in 1 .. Len(calls) : calls[k] \in SaidCall
      BY <1>1
    <3> QED BY <1>7, <1>8, <3>1, ToolUses
  <2>2. Len(back) = Len(calls) /\ DOMAIN calls = 1 .. Len(calls)
    BY <1>1, <1>7, <1>8
  <2> HIDE DEF a, back, texts, saidTexts
  <2> QED BY <1>8, <1>11, <1>12, <2>1, <2>2 DEF SameMessage
<1>14. m \in UserMessage /\ m.content = content /\ m.role = "assistant"
  BY <1>5 DEF UserMessage
<1>15. ~HoldsImage(content)
  <2>1. \A j \in DOMAIN content : content[j] \in AnswerBlock
    BY <1>4
  <2> QED BY <2>1 DEF HoldsImage, Has, AnswerBlock
<1>16. convertMessage(m) = <<a>>
  <2>1. convertMessage(m) = convertAssistantMessage(content)
    BY <1>4, <1>14 DEF convertMessage
  <2> QED BY <1>5, <2>1, BlocksJoined DEF convertAssistantMessage
<1>17. a.calls = FlatMap(content, CallOf)
  BY <1>5, <1>11, BlocksJoined
<1>18. \A j \in DOMAIN a.content : a.content[j] = "text"
  BY <1>5, <1>11, AnswerTexts
<1> HIDE DEF a, m
<1> QED BY <1>11, <1>12, <1>13, <1>14, <1>15, <1>16, <1>17, <1>18 DEF m, content

-----------------------------------------------------------------------------
(* One more message                                                        *)

(* Two lists, index by index.                                            *)
LEMMA Joining ==
    ASSUME NEW Q, NEW p \in Seq(Q), NEW r \in Seq(Q)
    PROVE  /\ p \o r \in Seq(Q) /\ Len(p \o r) = Len(p) + Len(r)
           /\ Len(p) \in Nat /\ Len(r) \in Nat
           /\ \A k \in 1 .. Len(p) : (p \o r)[k] = p[k]
           /\ \A k \in 1 .. Len(r) : (p \o r)[Len(p) + k] = r[k]
           /\ \A k \in 1 .. Len(p \o r) : k <= Len(p) \/ k - Len(p) \in 1 .. Len(r)
OBVIOUS

(* The request grows by what the message is translated to.               *)
LEMMA RequestAppended ==
    ASSUME NEW q \in Seq(UserMessage), NEW m \in UserMessage
    PROVE  /\ TranslateToOpenAI(Append(q, m)) = TranslateToOpenAI(q) \o convertMessage(m)
           /\ TranslateToOpenAI(q) \in Seq(OpenAIMessage)
           /\ convertMessage(m) \in Seq(OpenAIMessage)
<1>1. Append(q, m) \in Seq(UserMessage) /\ Converted[m] = convertMessage(m)
  BY DEF Converted
<1>2. Joined(Append(q, m), Converted) = Joined(q, Converted) \o Converted[m]
  BY ConvertedType, JoinedAppend
<1>3. Converted[m] \in Seq(OpenAIMessage)
  BY ConvertedType
<1> QED BY <1>1, <1>2, <1>3, RequestJoined

(* An image is in one or the other.                                      *)
LEMMA ImagesAppended ==
    ASSUME NEW q \in Seq(UserMessage), NEW m \in UserMessage
    PROVE  Holds(Append(q, m), "image") <=> Holds(q, "image") \/ HoldsImage(m.content)
<1> DEFINE u == Append(q, m)
<1>1. /\ DOMAIN u = 1 .. Len(q) + 1 /\ DOMAIN q = 1 .. Len(q) /\ Len(q) \in Nat
      /\ u[Len(q) + 1] = m /\ \A k \in 1 .. Len(q) : u[k] = q[k]
  OBVIOUS
<1> HIDE DEF u
<1>2. \A k \in 1 .. Len(q) + 1 : k = Len(q) + 1 \/ k \in 1 .. Len(q)
  BY <1>1
<1>3. Holds(u, "image") <=> \E k \in 1 .. Len(q) + 1 : HoldsImage(u[k].content)
  BY <1>1 DEF Holds, HoldsImage, Has
<1>4. Holds(q, "image") <=> \E k \in 1 .. Len(q) : HoldsImage(q[k].content)
  BY <1>1 DEF Holds, HoldsImage, Has
<1>5. Len(q) + 1 \in 1 .. Len(q) + 1 /\ \A k \in 1 .. Len(q) : k \in 1 .. Len(q) + 1
  BY <1>1
<1> QED BY <1>1, <1>2, <1>3, <1>4, <1>5 DEF u

LEMMA ImagesJoined ==
    ASSUME NEW p \in Seq(OpenAIMessage), NEW r \in Seq(OpenAIMessage)
    PROVE  ShowsImage(p \o r) <=> ShowsImage(p) \/ ShowsImage(r)
<1> DEFINE u == p \o r
           Shows(n) == \E j \in DOMAIN n.content : n.content[j] = "image_url"
<1>1. /\ DOMAIN u = 1 .. Len(u) /\ DOMAIN p = 1 .. Len(p) /\ DOMAIN r = 1 .. Len(r)
      /\ Len(u) = Len(p) + Len(r) /\ Len(p) \in Nat /\ Len(r) \in Nat
      /\ \A k \in 1 .. Len(p) : u[k] = p[k]
      /\ \A k \in 1 .. Len(r) : u[Len(p) + k] = r[k]
      /\ \A k \in 1 .. Len(u) : k <= Len(p) \/ k - Len(p) \in 1 .. Len(r)
  BY Joining
<1> HIDE DEF u
<1>2. ShowsImage(u) <=> \E k \in 1 .. Len(u) : Shows(u[k])
  BY <1>1 DEF ShowsImage
<1>3. ShowsImage(p) <=> \E k \in 1 .. Len(p) : Shows(p[k])
  BY <1>1 DEF ShowsImage
<1>4. ShowsImage(r) <=> \E k \in 1 .. Len(r) : Shows(r[k])
  BY <1>1 DEF ShowsImage
<1> HIDE DEF Shows
<1>5. ASSUME NEW k \in 1 .. Len(u), Shows(u[k]) PROVE ShowsImage(p) \/ ShowsImage(r)
  <2>1. CASE k <= Len(p)
    <3>1. k \in 1 .. Len(p) /\ u[k] = p[k]
      BY <1>1, <2>1
    <3> QED BY <1>3, <1>5, <3>1
  <2>2. CASE k - Len(p) \in 1 .. Len(r)
    <3>1. u[k] = r[k - Len(p)]
      <4>1. Len(p) + (k - Len(p)) = k
        BY <1>1
      <4> QED BY <1>1, <2>2, <4>1
    <3> QED BY <1>4, <1>5, <2>2, <3>1
  <2> QED BY <1>1, <2>1, <2>2
<1>6. ShowsImage(p) => ShowsImage(u)
  <2>1. \A k \in 1 .. Len(p) : k \in 1 .. Len(u)
    BY <1>1
  <2> QED BY <1>1, <1>2, <1>3, <2>1
<1>7. ShowsImage(r) => ShowsImage(u)
  <2>1. \A k \in 1 .. Len(r) : Len(p) + k \in 1 .. Len(u)
    BY <1>1
  <2> QED BY <1>1, <1>2, <1>4, <2>1
<1> QED BY <1>2, <1>5, <1>6, <1>7 DEF u

\* ToolResultsFollowCalls, of any list of upstream's messages.
CallsAnswered(p) ==
    \A k \in 1 .. Len(p) :
        LET n == Len(p[k].calls) IN
        n > 0 /\ k < Len(p) =>
            k + n <= Len(p) /\ {p[j].answers : j \in k + 1 .. k + n} = Ids(p[k].calls)
AnswersCalled(p) ==
    \A k \in 1 .. Len(p) :
        p[k].role = "tool" =>
            \E j \in 1 .. k - 1 :
                p[k].answers \in Ids(p[j].calls) /\ \A l \in j + 1 .. k : p[l].role = "tool"

LEMMA MessageIs ==
    ASSUME NEW p \in Seq(OpenAIMessage), NEW k \in 1 .. Len(p)
    PROVE  p[k] \in OpenAIMessage /\ p[k].calls \in Seq(Call) /\ Len(p[k].calls) \in Nat
           /\ p[k].content \in Seq(Kinds)
<1>1. p[k] \in OpenAIMessage
  OBVIOUS
<1>2. p[k].calls \in Seq(Call) /\ p[k].content \in Seq(Kinds)
  BY <1>1 DEF OpenAIMessage, Kinds
<1> QED BY <1>1, <1>2

(* A user's message that answers the calls of the message before it.       *)
LEMMA ResultsFollow ==
    ASSUME NEW p \in Seq(OpenAIMessage), NEW r \in Seq(OpenAIMessage), NEW P \in Seq(Call),
           CallsAnswered(p), AnswersCalled(p),
           p # << >> => p[Len(p)].calls = P, p = << >> => P = << >>,
           Len(P) <= Len(r),
           \A k \in 1 .. Len(P) : r[k].role = "tool" /\ r[k].answers = P[k].id,
           \A k \in 1 .. Len(r) : r[k].role = "tool" => k <= Len(P),
           \A k \in 1 .. Len(r) : r[k].calls = << >>
    PROVE  CallsAnswered(p \o r) /\ AnswersCalled(p \o r)
<1> DEFINE u == p \o r
<1>1. /\ u \in Seq(OpenAIMessage) /\ Len(u) = Len(p) + Len(r)
      /\ Len(p) \in Nat /\ Len(r) \in Nat
      /\ \A k \in 1 .. Len(p) : u[k] = p[k]
      /\ \A k \in 1 .. Len(r) : u[Len(p) + k] = r[k]
      /\ \A k \in 1 .. Len(u) : k <= Len(p) \/ k - Len(p) \in 1 .. Len(r)
  BY Joining
<1>2. Len(P) \in Nat /\ DOMAIN P = 1 .. Len(P)
  OBVIOUS
<1>3. \A k \in 1 .. Len(P) : u[Len(p) + k].role = "tool" /\ u[Len(p) + k].answers = P[k].id
  <2>1. \A k \in 1 .. Len(P) : k \in 1 .. Len(r)
    BY <1>1, <1>2
  <2> QED BY <1>1, <2>1
<1>4. p = << >> <=> Len(p) = 0
  OBVIOUS
<1> HIDE DEF u
<1>5. CallsAnswered(u)
  <2> SUFFICES ASSUME NEW k \in 1 .. Len(u), Len(u[k].calls) > 0, k < Len(u)
               PROVE  /\ k + Len(u[k].calls) <= Len(u)
                      /\ {u[j].answers : j \in k + 1 .. k + Len(u[k].calls)} = Ids(u[k].calls)
    BY DEF CallsAnswered
  <2>1. CASE k < Len(p)
    <3>1. k \in 1 .. Len(p) /\ u[k] = p[k]
      BY <1>1, <2>1
    <3>2. /\ k + Len(p[k].calls) <= Len(p)
          /\ {p[j].answers : j \in k + 1 .. k + Len(p[k].calls)} = Ids(p[k].calls)
      BY <2>1, <3>1 DEF CallsAnswered
    <3>3. Len(p[k].calls) \in Nat
      BY <3>1, MessageIs
    <3>4. \A j \in k + 1 .. k + Len(p[k].calls) : u[j] = p[j]
      <4>1. \A j \in k + 1 .. k + Len(p[k].calls) : j \in 1 .. Len(p)
        BY <1>1, <3>1, <3>2, <3>3
      <4> QED BY <1>1, <4>1
    <3>5. {u[j].answers : j \in k + 1 .. k + Len(p[k].calls)}
            = {p[j].answers : j \in k + 1 .. k + Len(p[k].calls)}
      BY <3>4
    <3>6. k + Len(p[k].calls) <= Len(u)
      BY <1>1, <3>1, <3>2, <3>3
    <3> QED BY <3>1, <3>2, <3>5, <3>6
  <2>2. CASE k = Len(p)
    <3>1. u[k] = p[Len(p)] /\ p # << >>
      BY <1>1, <1>4, <2>2
    <3>2. u[k].calls = P
      BY <3>1
    <3>3. k + Len(P) <= Len(u)
      BY <1>1, <1>2, <2>2
    <3>4. {u[j].answers : j \in k + 1 .. k + Len(P)} = {P[i].id : i \in 1 .. Len(P)}
      <4>1. ASSUME NEW j \in k + 1 .. k + Len(P)
            PROVE  j - k \in 1 .. Len(P) /\ u[j].answers = P[j - k].id
        <5>1. j - k \in 1 .. Len(P) /\ Len(p) + (j - k) = j
          BY <1>1, <1>2, <2>2
        <5> QED BY <1>3, <5>1
      <4>2. ASSUME NEW i \in 1 .. Len(P)
            PROVE  k + i \in k + 1 .. k + Len(P) /\ u[k + i].answers = P[i].id
        BY <1>1, <1>2, <1>3, <2>2
      <4>3. {u[j].answers : j \in k + 1 .. k + Len(P)} \subseteq {P[i].id : i \in 1 .. Len(P)}
        BY <4>1
      <4>4. {P[i].id : i \in 1 .. Len(P)} \subseteq {u[j].answers : j \in k + 1 .. k + Len(P)}
        <5>1. ASSUME NEW i \in 1 .. Len(P)
              PROVE  P[i].id \in {u[j].answers : j \in k + 1 .. k + Len(P)}
          <6>1. k + i \in k + 1 .. k + Len(P) /\ u[k + i].answers = P[i].id
            BY <4>2
          <6> DEFINE j0 == k + i
          <6>2. j0 \in k + 1 .. k + Len(P) /\ u[j0].answers = P[i].id
            BY <6>1
          <6> HIDE DEF j0
          <6> QED BY <6>2
        <5> QED BY <5>1
      <4> QED BY <4>3, <4>4
    <3> QED BY <1>2, <3>2, <3>3, <3>4 DEF Ids
  <2>3. CASE k > Len(p)
    <3>1. k - Len(p) \in 1 .. Len(r) /\ Len(p) + (k - Len(p)) = k
      BY <1>1, <2>3
    <3>2. u[k] = r[k - Len(p)]
      BY <1>1, <3>1
    <3>3. u[k].calls = << >>
      BY <3>1, <3>2
    <3> QED BY <3>3
  <2> QED BY <1>1, <2>1, <2>2, <2>3
<1>6. AnswersCalled(u)
  <2> SUFFICES ASSUME NEW k \in 1 .. Len(u), u[k].role = "tool"
               PROVE  \E j \in 1 .. k - 1 :
                          /\ u[k].answers \in Ids(u[j].calls)
                          /\ \A l \in j + 1 .. k : u[l].role = "tool"
    BY DEF AnswersCalled
  <2>1. CASE k <= Len(p)
    <3>1. k \in 1 .. Len(p) /\ u[k] = p[k]
      BY <1>1, <2>1
    <3>2. PICK j \in 1 .. k - 1 :
              p[k].answers \in Ids(p[j].calls) /\ \A l \in j + 1 .. k : p[l].role = "tool"
      BY <3>1 DEF AnswersCalled
    <3>3. j \in 1 .. Len(p) /\ \A l \in j + 1 .. k : l \in 1 .. Len(p)
      BY <1>1, <3>1
    <3>4. u[j] = p[j] /\ \A l \in j + 1 .. k : u[l] = p[l]
      BY <1>1, <3>3
    <3> QED BY <3>1, <3>2, <3>4
  <2>2. CASE k > Len(p)
    <3> DEFINE i == k - Len(p)
    <3>1. i \in 1 .. Len(r) /\ Len(p) + i = k
      BY <1>1, <2>2
    <3>2. u[k] = r[i]
      BY <1>1, <3>1
    <3> HIDE DEF i
    <3>3. i \in 1 .. Len(P)
      <4>1. r[i].role = "tool"
        BY <3>2
      <4>2. i <= Len(P)
        BY <3>1, <4>1
      <4> QED BY <1>1, <1>2, <3>1, <4>2
    <3>4. p # << >> /\ Len(p) \in 1 .. Len(p) /\ Len(p) \in 1 .. k - 1
      <4>1. P # << >>
        BY <1>2, <3>3
      <4> QED BY <1>1, <1>4, <3>1, <4>1
    <3>5. u[Len(p)].calls = P
      BY <1>1, <3>4
    <3>6. u[k].answers = P[i].id
      BY <1>3, <3>1, <3>3
    <3>7. ASSUME NEW l \in Len(p) + 1 .. k PROVE u[l].role = "tool"
      <4>1. l - Len(p) \in 1 .. Len(P) /\ Len(p) + (l - Len(p)) = l
        BY <1>1, <1>2, <3>1, <3>3
      <4> QED BY <1>3, <4>1
    <3>8. u[k].answers \in Ids(u[Len(p)].calls)
      BY <1>2, <3>3, <3>5, <3>6 DEF Ids
    <3> QED BY <3>4, <3>7, <3>8
  <2> QED BY <1>1, <2>1, <2>2
<1> QED BY <1>5, <1>6 DEF u

(* An answer to a message without calls.                                   *)
LEMMA AnswerFollows ==
    ASSUME NEW p \in Seq(OpenAIMessage), NEW a \in OpenAIMessage,
           CallsAnswered(p), AnswersCalled(p), p # << >>, p[Len(p)].calls = << >>,
           a.role = "assistant"
    PROVE  CallsAnswered(p \o <<a>>) /\ AnswersCalled(p \o <<a>>)
<1> DEFINE u == p \o <<a>>
<1>1. /\ u \in Seq(OpenAIMessage) /\ Len(u) = Len(p) + 1 /\ Len(p) \in Nat
      /\ \A k \in 1 .. Len(p) : u[k] = p[k]
      /\ u[Len(p) + 1] = a
  OBVIOUS
<1> HIDE DEF u
<1>2. CallsAnswered(u)
  <2> SUFFICES ASSUME NEW k \in 1 .. Len(u), Len(u[k].calls) > 0, k < Len(u)
               PROVE  /\ k + Len(u[k].calls) <= Len(u)
                      /\ {u[j].answers : j \in k + 1 .. k + Len(u[k].calls)} = Ids(u[k].calls)
    BY DEF CallsAnswered
  <2>1. k \in 1 .. Len(p) /\ u[k] = p[k]
    BY <1>1
  <2>2. k < Len(p)
    <3>1. k # Len(p)
      BY <1>1, <2>1
    <3> QED BY <1>1, <2>1, <3>1
  <2>3. /\ k + Len(p[k].calls) <= Len(p)
        /\ {p[j].answers : j \in k + 1 .. k + Len(p[k].calls)} = Ids(p[k].calls)
    BY <2>1, <2>2 DEF CallsAnswered
  <2>4. Len(p[k].calls) \in Nat
    BY <2>1, MessageIs
  <2>5. \A j \in k + 1 .. k + Len(p[k].calls) : u[j] = p[j]
    <3>1. \A j \in k + 1 .. k + Len(p[k].calls) : j \in 1 .. Len(p)
      BY <1>1, <2>1, <2>3, <2>4
    <3> QED BY <1>1, <3>1
  <2>6. {u[j].answers : j \in k + 1 .. k + Len(p[k].calls)}
          = {p[j].answers : j \in k + 1 .. k + Len(p[k].calls)}
    BY <2>5
  <2>7. k + Len(p[k].calls) <= Len(u)
    BY <1>1, <2>1, <2>3, <2>4
  <2> QED BY <2>1, <2>3, <2>6, <2>7
<1>3. AnswersCalled(u)
  <2> SUFFICES ASSUME NEW k \in 1 .. Len(u), u[k].role = "tool"
               PROVE  \E j \in 1 .. k - 1 :
                          /\ u[k].answers \in Ids(u[j].calls)
                          /\ \A l \in j + 1 .. k : u[l].role = "tool"
    BY DEF AnswersCalled
  <2>1. k \in 1 .. Len(p) /\ u[k] = p[k]
    <3>1. k # Len(p) + 1
      BY <1>1
    <3> QED BY <1>1, <3>1
  <2>2. PICK j \in 1 .. k - 1 :
            p[k].answers \in Ids(p[j].calls) /\ \A l \in j + 1 .. k : p[l].role = "tool"
    BY <2>1 DEF AnswersCalled
  <2>3. j \in 1 .. Len(p) /\ \A l \in j + 1 .. k : l \in 1 .. Len(p)
    BY <1>1, <2>1
  <2>4. u[j] = p[j] /\ \A l \in j + 1 .. k : u[l] = p[l]
    BY <1>1, <2>3
  <2> QED BY <2>1, <2>2, <2>4
<1> QED BY <1>2, <1>3 DEF u

-----------------------------------------------------------------------------
(* The inductive invariant                                                 *)

\* A request ends with the calls that wait for their results, and a user's
\* message makes none.
EndsWithPending ==
    /\ messages # << >> => Request # << >> /\ Request[Len(Request)].calls = Pending
    /\ messages # << >> /\ messages[Len(messages)].role = "user" => Pending = << >>

\* Before the first answer all is of users.
RolesTell ==
    IF said = << >>
      THEN /\ messages # << >> => messages[Len(messages)].role = "user"
           /\ \A k \in 1 .. Len(Request) : Request[k].role = "user"
      ELSE \E k \in 1 .. Len(Request) : Request[k].role = "assistant"

(* The images with their sources go through the translation.             *)
ImagesMatch == Holds(messages, "image") <=> ShowsImage(Request)

ConversationInv ==
    /\ ConversationTypeOK /\ EndsWithPending /\ RolesTell /\ ImagesMatch
    /\ AnswersComeBack /\ ToolResultsFollowCalls

-----------------------------------------------------------------------------
(* What the invariant says of a state, in the words of the lemmas.       *)
LEMMA Typed ==
    ASSUME ConversationTypeOK
    PROVE  /\ messages \in Seq(UserMessage) /\ said \in Seq(OpenAIMessage)
           /\ Request \in Seq(OpenAIMessage)
           /\ Len(Request) \in Nat /\ DOMAIN Request = 1 .. Len(Request)
<1>1. messages \in Seq(UserMessage) /\ said \in Seq(OpenAIMessage)
  BY DEF ConversationTypeOK, UserMessage
<1>2. Request \in Seq(OpenAIMessage)
  BY <1>1, RequestJoined DEF Request
<1> QED BY <1>1, <1>2

LEMMA FollowParts ==
    ASSUME ConversationTypeOK
    PROVE  ToolResultsFollowCalls <=> CallsAnswered(Request) /\ AnswersCalled(Request)
BY Typed DEF ToolResultsFollowCalls, CallsAnswered, AnswersCalled

LEMMA BackParts ==
    ASSUME ConversationTypeOK
    PROVE  AnswersComeBack <=>
               /\ Len(Joined(Request, Answers)) = Len(said)
               /\ \A k \in 1 .. Len(said) : SameMessage(Joined(Request, Answers)[k], said[k])
<1>1. FlatMap(Request, AnswerOf) = Joined(Request, Answers) /\ DOMAIN said = 1 .. Len(said)
  BY Typed, BackJoined
<1> QED BY <1>1 DEF AnswersComeBack

(* A user's message is no answer, and makes no calls.                    *)
LEMMA NoAnswers ==
    ASSUME NEW r \in Seq(OpenAIMessage), \A k \in 1 .. Len(r) : r[k].role # "assistant"
    PROVE  Joined(r, Answers) = << >>
<1> DEFINE R == {a \in OpenAIMessage : a.role # "assistant"}
<1>1. r \in Seq(R)
  OBVIOUS
<1>2. \A a \in R : Answers[a] = << >>
  BY DEF Answers, AnswerOf
<1> HIDE DEF R
<1> QED BY <1>1, <1>2, JoinedNothing

LEMMA NoCallsOfUser ==
    ASSUME NEW q \in Seq(UserBlock)
    PROVE  FlatMap(q, CallOf) = << >>
<1>1. q \in Seq(ContentBlock)
  BY DEF UserBlock
<1>2. \A b \in UserBlock : CallsIn[b] = << >>
  BY DEF UserBlock, CallsIn, CallOf
<1>3. Joined(q, CallsIn) = << >>
  BY <1>2, JoinedNothing
<1> QED BY <1>1, <1>3, BlocksJoined

(* A conversation without messages.                                      *)
LEMMA ConversationInitially == ConversationInit => ConversationInv
<1> SUFFICES ASSUME ConversationInit PROVE ConversationInv
  OBVIOUS
<1>1. messages = << >> /\ said = << >>
  BY DEF ConversationInit
<1>2. ConversationTypeOK
  BY <1>1 DEF ConversationTypeOK
<1>3. Request = << >>
  <2>1. TranslateToOpenAI(messages) = Joined(messages, Converted)
    BY <1>2, Typed, RequestJoined
  <2> QED BY <1>1, <2>1, JoinedEmpty DEF Request
<1>4. EndsWithPending /\ RolesTell
  BY <1>1, <1>3 DEF EndsWithPending, RolesTell
<1>5. ImagesMatch
  BY <1>1, <1>3 DEF ImagesMatch, Holds, ShowsImage
<1>6. AnswersComeBack
  <2>1. Joined(Request, Answers) = << >>
    BY <1>3, JoinedEmpty
  <2> QED BY <1>1, <1>2, <2>1, BackParts
<1>7. ToolResultsFollowCalls
  <2>1. Len(Request) = 0
    BY <1>3
  <2> QED BY <1>2, <2>1, FollowParts DEF CallsAnswered, AnswersCalled
<1> QED BY <1>2, <1>4, <1>5, <1>6, <1>7 DEF ConversationInv

(* The calls that wait for their results.                                  *)
LEMMA PendingIs ==
    ASSUME ConversationTypeOK
    PROVE  Pending \in Seq(Call)
<1>1. CASE messages = << >>
  BY <1>1 DEF Pending
<1>2. CASE messages # << >>
  <2>1. messages[Len(messages)] \in UserMessage
    BY <1>2, Typed
  <2>2. messages[Len(messages)].content \in Seq(ContentBlock)
    BY <2>1 DEF UserMessage
  <2> QED BY <1>2, <2>2, BlocksJoined DEF Pending
<1> QED BY <1>1, <1>2

\* What one more message makes of the request and of what waits.
LEMMA OneMore ==
    ASSUME ConversationTypeOK, NEW m \in UserMessage, messages' = Append(messages, m)
    PROVE  /\ messages' \in Seq(UserMessage) /\ messages' # << >>
           /\ messages'[Len(messages')] = m
           /\ Request' = Request \o convertMessage(m)
           /\ convertMessage(m) \in Seq(OpenAIMessage)
           /\ Pending' = FlatMap(m.content, CallOf)
           /\ Holds(messages, "image")' <=> Holds(messages, "image") \/ HoldsImage(m.content)
<1>1. messages \in Seq(UserMessage)
  BY Typed
<1>2. messages' \in Seq(UserMessage) /\ messages' # << >> /\ messages'[Len(messages')] = m
  BY <1>1
<1>3. Request' = Request \o convertMessage(m) /\ convertMessage(m) \in Seq(OpenAIMessage)
  BY <1>1, RequestAppended DEF Request
<1>4. Pending' = FlatMap(m.content, CallOf)
  BY <1>2 DEF Pending
<1>5. Holds(messages, "image")' <=> Holds(messages, "image") \/ HoldsImage(m.content)
  BY <1>1, ImagesAppended
<1> QED BY <1>2, <1>3, <1>4, <1>5

(* The message of a user: results of the calls that wait, then the rest.   *)
ExtraBlocks == {Plain("text"), Plain("image"), Plain("bare_image")}

LEMMA UserMessageIs ==
    ASSUME NEW P \in Seq(Call), NEW extras \in Seq(ExtraBlocks)
    PROVE  LET q == Map(P, ResultOf) \o extras IN
           /\ q \in Seq(UserBlock) /\ Len(P) \in Nat /\ Len(P) <= Len(q) /\ Len(q) \in Nat
           /\ \A k \in 1 .. Len(P) : IsResult(q[k]) /\ q[k].call = P[k].id
           /\ \A k \in 1 .. Len(q) : IsResult(q[k]) => k <= Len(P)
<1> DEFINE X == ExtraBlocks
           results == Map(P, ResultOf)
           q == results \o extras
<1>1. \A x \in X : x \in UserBlock /\ ~IsResult(x)
  <2>1. ASSUME NEW type \in {"text", "image", "bare_image"}
        PROVE  Plain(type) \in UserBlock /\ ~IsResult(Plain(type))
    <3>1. Plain(type) \in ContentBlock /\ Plain(type).type = type
      BY DEF Plain, ContentBlock
    <3> QED BY <3>1 DEF UserBlock, IsResult
  <2> QED BY <2>1 DEF ExtraBlocks
<1>2. \A c \in Call : ResultOf(c) \in UserBlock /\ IsResult(ResultOf(c)) /\ ResultOf(c).call = c.id
  BY DEF Call, ResultOf, UserBlock, ContentBlock, IsResult
<1>3. Len(P) \in Nat /\ DOMAIN P = 1 .. Len(P) /\ \A k \in 1 .. Len(P) : P[k] \in Call
  OBVIOUS
<1>4. results = [k \in 1 .. Len(P) |-> ResultOf(P[k])]
  BY <1>3 DEF Map
<1>5. /\ results \in Seq(UserBlock) /\ Len(results) = Len(P)
      /\ \A k \in 1 .. Len(P) : results[k] = ResultOf(P[k])
  BY <1>2, <1>3, <1>4
<1> HIDE DEF X
<1>6. extras \in Seq(UserBlock) /\ \A k \in 1 .. Len(extras) : ~IsResult(extras[k])
  <2>1. extras \in Seq(X)
    BY DEF X
  <2> QED BY <1>1, <2>1
<1> HIDE DEF results
<1>7. /\ q \in Seq(UserBlock) /\ Len(q) = Len(P) + Len(extras) /\ Len(extras) \in Nat
      /\ \A k \in 1 .. Len(P) : q[k] = results[k]
      /\ \A k \in 1 .. Len(q) : k <= Len(P) \/ k - Len(P) \in 1 .. Len(extras)
      /\ \A k \in 1 .. Len(extras) : q[Len(P) + k] = extras[k]
  <2>1. /\ q \in Seq(UserBlock) /\ Len(q) = Len(results) + Len(extras) /\ Len(extras) \in Nat
        /\ \A k \in 1 .. Len(results) : q[k] = results[k]
        /\ \A k \in 1 .. Len(extras) : q[Len(results) + k] = extras[k]
        /\ \A k \in 1 .. Len(q) : k <= Len(results) \/ k - Len(results) \in 1 .. Len(extras)
    <3>1. results \in Seq(UserBlock) /\ extras \in Seq(UserBlock)
      BY <1>5, <1>6
    <3> QED BY <3>1, Joining
  <2> QED BY <1>5, <2>1
<1> HIDE DEF q
<1>8. \A k \in 1 .. Len(P) : IsResult(q[k]) /\ q[k].call = P[k].id
  BY <1>2, <1>3, <1>5, <1>7
<1>9. ASSUME NEW k \in 1 .. Len(q), IsResult(q[k]) PROVE k <= Len(P)
  <2>1. CASE k - Len(P) \in 1 .. Len(extras)
    <3>1. Len(P) + (k - Len(P)) = k
      BY <1>3
    <3>2. q[k] = extras[k - Len(P)]
      BY <1>7, <2>1, <3>1
    <3> QED BY <1>6, <1>9, <2>1, <3>2
  <2> QED BY <1>7, <2>1
<1>10. Len(P) <= Len(q) /\ Len(q) \in Nat
  BY <1>3, <1>7
<1> QED BY <1>3, <1>7, <1>8, <1>9, <1>10 DEF q, results

(* What is kept of it is such a message too.                               *)
LEMMA UserMessageKept ==
    ASSUME NEW P \in Seq(Call), NEW extras \in Seq(ExtraBlocks)
    PROVE  \E e \in Seq(ExtraBlocks) :
               Joined(Map(P, ResultOf) \o extras, Kept) = Map(P, ResultOf) \o e
<1> DEFINE results == Map(P, ResultOf)
           R == {b \in ContentBlock : IsResult(b)}
           f == [x \in ExtraBlocks |-> KeptOf(x)]
<1>1. \A c \in Call : ResultOf(c) \in R
  BY DEF Call, ResultOf, ContentBlock, IsResult
<1>2. results \in Seq(R)
  <2>1. Len(P) \in Nat /\ DOMAIN P = 1 .. Len(P) /\ \A k \in 1 .. Len(P) : P[k] \in Call
    OBVIOUS
  <2>2. results = [k \in 1 .. Len(P) |-> ResultOf(P[k])]
    BY <2>1 DEF Map
  <2> HIDE DEF R, results
  <2> QED BY <1>1, <2>1, <2>2
<1>3. \A b \in R : Kept[b] = <<b>> /\ Kept[b] \in Seq(ContentBlock) /\ Len(Kept[b]) = 1 /\ Kept[b][1] = b
  BY DEF Kept, KeptOf, IsResult
<1>4. results \in Seq(ContentBlock)
  BY <1>2
<1> HIDE DEF results, R
<1>5. Joined(results, Kept) = results
  <2>1. /\ Len(Joined(results, Kept)) = Len(results)
        /\ \A k \in 1 .. Len(results) : Joined(results, Kept)[k] = Kept[results[k]][1]
    BY <1>2, <1>3, JoinedOnes
  <2>2. \A k \in 1 .. Len(results) : results[k] \in R
    BY <1>2
  <2>3. Joined(results, Kept) \in Seq(ContentBlock)
    BY <1>4, KeptType, JoinedType
  <2> QED BY <1>3, <1>4, <2>1, <2>2, <2>3
<1>6. ASSUME NEW x \in ExtraBlocks
      PROVE  x \in ContentBlock /\ Kept[x] = KeptOf(x) /\ KeptOf(x) \in Seq(ExtraBlocks)
  <2>1. x \in ContentBlock
    <3>1. \A type \in {"text", "image", "bare_image"} : Plain(type) \in ContentBlock
      BY DEF Plain, ContentBlock
    <3> QED BY <3>1 DEF ExtraBlocks
  <2>2. ASSUME NEW X, NEW y \in X PROVE << >> \in Seq(X) /\ <<y>> \in Seq(X)
    OBVIOUS
  <2>3. KeptOf(x) \in Seq(ExtraBlocks)
    BY <2>2 DEF KeptOf
  <2> QED BY <2>1, <2>3 DEF Kept
<1>7. f \in [ExtraBlocks -> Seq(ExtraBlocks)] /\ \A x \in ExtraBlocks : Kept[x] = f[x]
  BY <1>6
<1> HIDE DEF f
<1>8. Joined(extras, Kept) \in Seq(ExtraBlocks)
  <2>1. Joined(extras, f) \in Seq(ExtraBlocks)
    BY <1>7, JoinedType
  <2>2. \A x \in ExtraBlocks : Kept[x] = f[x]
    BY <1>7
  <2>3. Joined(extras, Kept) = Joined(extras, f)
    BY <2>2, JoinedSame
  <2> QED BY <2>1, <2>3
<1>9. extras \in Seq(ContentBlock)
  BY <1>6
<1>10. Joined(results \o extras, Kept) = Joined(results, Kept) \o Joined(extras, Kept)
  BY <1>4, <1>9, KeptType, JoinedConcat
<1> QED BY <1>5, <1>8, <1>10 DEF results

-----------------------------------------------------------------------------
(* The user speaks.                                                      *)
LEMMA UserKeepsInv ==
    ASSUME ConversationInv, UserSpeaks
    PROVE  ConversationInv'
<1>1. ConversationTypeOK /\ EndsWithPending /\ RolesTell /\ ImagesMatch
      /\ AnswersComeBack /\ ToolResultsFollowCalls
  BY DEF ConversationInv
<1>2. PICK extras \in BoundedSeq(ExtraBlocks, MaxExtras) :
          messages' = Append(messages,
              [role |-> "user", content |-> Map(Pending, ResultOf) \o extras])
  BY DEF UserSpeaks, ExtraBlocks
<1>3. extras \in Seq(ExtraBlocks)
  <2>1. ASSUME NEW X, NEW e \in BoundedSeq(X, MaxExtras) PROVE e \in Seq(X)
    <3>1. PICK n \in 0 .. MaxExtras : e \in [1 .. n -> X]
      BY ConversationAssumption DEF BoundedSeq, SeqOf
    <3> QED BY <3>1, ConversationAssumption
  <2> QED BY <2>1
<1> DEFINE P == Pending
           q == Map(P, ResultOf) \o extras
           m == [role |-> "user", content |-> q]
           r == convertMessage(m)
           p == Request
           o == Joined(q, Kept)
<1>4. said' = said /\ Turn = "user"
  BY DEF UserSpeaks
<1>5. P \in Seq(Call)
  BY <1>1, PendingIs
<1>6. /\ q \in Seq(UserBlock) /\ Len(P) \in Nat /\ Len(P) <= Len(q) /\ Len(q) \in Nat
      /\ \A k \in 1 .. Len(P) : IsResult(q[k]) /\ q[k].call = P[k].id
      /\ \A k \in 1 .. Len(q) : IsResult(q[k]) => k <= Len(P)
  <2> HIDE DEF P
  <2> QED BY <1>3, <1>5, UserMessageIs
<1>21. /\ Len(P) <= Len(o) /\ Len(o) \in Nat
       /\ \A k \in 1 .. Len(P) : IsResult(o[k]) /\ o[k].call = P[k].id
       /\ \A k \in 1 .. Len(o) : IsResult(o[k]) => k <= Len(P)
  <2> HIDE DEF P
  <2>1. PICK e \in Seq(ExtraBlocks) : o = Map(P, ResultOf) \o e
    BY <1>3, <1>5, UserMessageKept
  <2> HIDE DEF o
  <2> QED BY <1>5, <2>1, UserMessageIs
<1>7. messages' = Append(messages, m)
  BY <1>2
<1> HIDE DEF q
<1>8. /\ m \in UserMessage
      /\ r \in Seq(OpenAIMessage) /\ r # << >>
      /\ \A k \in 1 .. Len(r) : r[k].calls = << >>
      /\ ShowsImage(r) <=> HoldsImage(q)
      /\ (\A k \in 1 .. Len(q) : ~IsResult(q[k])) => Len(r) = 1 /\ r[1].role = "user"
      /\ (\E k \in 1 .. Len(q) : IsResult(q[k])) =>
             /\ Len(r) = Len(o)
             /\ \A k \in 1 .. Len(o) :
                   IF IsResult(o[k])
                     THEN r[k].role = "tool" /\ r[k].answers = o[k].call
                     ELSE r[k].role = "user"
  BY <1>6, UserConverted
<1>9. m.content = q /\ m.role = "user"
  OBVIOUS
<1> HIDE DEF m, r, P, p, o
<1>10. /\ Len(P) <= Len(r) /\ Len(r) \in Nat
       /\ \A k \in 1 .. Len(P) : r[k].role = "tool" /\ r[k].answers = P[k].id
       /\ \A k \in 1 .. Len(r) : r[k].role = "tool" => k <= Len(P)
       /\ \A k \in 1 .. Len(r) : r[k].role # "assistant"
       /\ P = << >> => \A k \in 1 .. Len(r) : r[k].role = "user"
  <2>1. CASE P = << >>
    <3>1. Len(P) = 0
      BY <2>1
    <3>2. \A k \in 1 .. Len(q) : ~IsResult(q[k])
      BY <1>6, <3>1
    <3>3. Len(r) = 1 /\ r[1].role = "user"
      BY <1>8, <3>2
    <3> QED BY <3>1, <3>3
  <2>2. CASE P # << >>
    <3>1. 1 \in 1 .. Len(P) /\ 1 \in 1 .. Len(q)
      BY <1>5, <1>6, <2>2
    <3>2. \E k \in 1 .. Len(q) : IsResult(q[k])
      BY <1>6, <3>1
    <3>3. /\ Len(r) = Len(o)
          /\ \A k \in 1 .. Len(o) :
                IF IsResult(o[k])
                  THEN r[k].role = "tool" /\ r[k].answers = o[k].call
                  ELSE r[k].role = "user"
      BY <1>8, <3>2
    <3>4. \A k \in 1 .. Len(P) : k \in 1 .. Len(o)
      BY <1>6, <1>21
    <3> QED BY <1>6, <1>21, <2>2, <3>3, <3>4
  <2> QED BY <2>1, <2>2
<1>11. /\ messages' \in Seq(UserMessage) /\ messages' # << >>
       /\ messages'[Len(messages')] = m
       /\ p' = p \o r
       /\ Pending' = FlatMap(m.content, CallOf)
       /\ Holds(messages, "image")' <=> Holds(messages, "image") \/ HoldsImage(m.content)
  BY <1>1, <1>7, <1>8, OneMore DEF p, r
<1>12. p \in Seq(OpenAIMessage) /\ Len(p) \in Nat
  BY <1>1, Typed DEF p
<1>13. Pending' = << >>
  BY <1>6, <1>9, <1>11, NoCallsOfUser
<1>14. ConversationTypeOK'
  BY <1>1, <1>4, <1>11 DEF ConversationTypeOK, UserMessage
<1>15. /\ p \o r \in Seq(OpenAIMessage) /\ Len(p \o r) = Len(p) + Len(r) /\ Len(r) \in Nat
       /\ \A k \in 1 .. Len(p) : (p \o r)[k] = p[k]
       /\ \A k \in 1 .. Len(r) : (p \o r)[Len(p) + k] = r[k]
       /\ \A k \in 1 .. Len(p \o r) : k <= Len(p) \/ k - Len(p) \in 1 .. Len(r)
  BY <1>8, <1>12, Joining
<1>16. EndsWithPending'
  <2>1. Len(r) \in 1 .. Len(r)
    <3>1. Len(r) # 0
      BY <1>8
    <3> QED BY <1>10, <3>1
  <2>2. (p \o r)[Len(p \o r)].calls = << >> /\ p \o r # << >>
    <3>1. (p \o r)[Len(p) + Len(r)] = r[Len(r)]
      BY <1>15, <2>1
    <3>2. p \o r # << >>
      <4>1. Len(p \o r) # 0
        BY <1>12, <1>15, <2>1
      <4> QED BY <4>1
    <3> QED BY <1>8, <1>15, <2>1, <3>1, <3>2
  <2> QED BY <1>11, <1>13, <2>2 DEF EndsWithPending, p
<1>17. RolesTell'
  <2>1. CASE said = << >>
    <3>1. messages = << >>
      BY <1>1, <1>4, <2>1 DEF RolesTell, Turn
    <3>2. P = << >>
      BY <3>1 DEF P, Pending
    <3>3. \A k \in 1 .. Len(p) : p[k].role = "user"
      BY <1>1, <2>1 DEF RolesTell, p
    <3>4. ASSUME NEW k \in 1 .. Len(p \o r) PROVE (p \o r)[k].role = "user"
      <4>1. CASE k <= Len(p)
        <5>1. k \in 1 .. Len(p)
          BY <1>12, <1>15, <4>1
        <5> QED BY <1>15, <3>3, <5>1
      <4>2. CASE k - Len(p) \in 1 .. Len(r)
        <5>1. Len(p) + (k - Len(p)) = k
          BY <1>12, <1>15
        <5>2. (p \o r)[k] = r[k - Len(p)]
          BY <1>15, <4>2, <5>1
        <5> QED BY <1>10, <3>2, <4>2, <5>2
      <4> QED BY <1>15, <4>1, <4>2
    <3>5. messages'[Len(messages')].role = "user"
      BY <1>9, <1>11
    <3> QED BY <1>4, <1>11, <2>1, <3>4, <3>5 DEF RolesTell, p
  <2>2. CASE said # << >>
    <3>1. PICK k \in 1 .. Len(p) : p[k].role = "assistant"
      BY <1>1, <2>2 DEF RolesTell, p
    <3>2. k \in 1 .. Len(p \o r) /\ (p \o r)[k].role = "assistant"
      BY <1>12, <1>15, <3>1
    <3> QED BY <1>4, <1>11, <2>2, <3>2 DEF RolesTell, p
  <2> QED BY <2>1, <2>2
<1>18. ImagesMatch'
  <2>1. ShowsImage(p \o r) <=> ShowsImage(p) \/ ShowsImage(r)
    BY <1>8, <1>12, ImagesJoined
  <2> QED BY <1>1, <1>8, <1>9, <1>11, <2>1 DEF ImagesMatch, p
<1>19. AnswersComeBack'
  <2>1. Joined(p \o r, Answers) = Joined(p, Answers) \o Joined(r, Answers)
        /\ Joined(p, Answers) \in Seq(OpenAIMessage)
    BY <1>8, <1>12, AnswersType, JoinedConcat, JoinedType
  <2>2. Joined(r, Answers) = << >>
    BY <1>8, <1>10, NoAnswers
  <2>3. Joined(p \o r, Answers) = Joined(p, Answers)
    BY <2>1, <2>2
  <2>4. /\ Len(Joined(p, Answers)) = Len(said)
        /\ \A k \in 1 .. Len(said) : SameMessage(Joined(p, Answers)[k], said[k])
    BY <1>1, BackParts DEF p
  <2>5. FlatMap(p', AnswerOf) = Joined(p, Answers)
    BY <1>11, <1>15, <2>3, BackJoined
  <2>6. DOMAIN said' = 1 .. Len(said)
    BY <1>1, <1>4, Typed
  <2> QED BY <1>4, <2>4, <2>5, <2>6 DEF AnswersComeBack, p
<1>20. ToolResultsFollowCalls'
  <2>1. CallsAnswered(p) /\ AnswersCalled(p)
    BY <1>1, FollowParts DEF p
  <2>2. p # << >> => p[Len(p)].calls = P
    <3>1. messages = << >> => p = << >>
      <4>1. TranslateToOpenAI(messages) = Joined(messages, Converted)
        BY <1>1, Typed, RequestJoined
      <4> QED BY <4>1, JoinedEmpty DEF p, Request
    <3> QED BY <1>1, <3>1 DEF EndsWithPending, p, P
  <2>3. p = << >> => P = << >>
    <3>1. p = << >> => messages = << >>
      BY <1>1 DEF EndsWithPending, p
    <3> QED BY <3>1 DEF P, Pending
  <2>4. CallsAnswered(p \o r) /\ AnswersCalled(p \o r)
    BY <1>5, <1>8, <1>10, <1>12, <2>1, <2>2, <2>3, ResultsFollow
  <2>5. CallsAnswered(p') /\ AnswersCalled(p') /\ DOMAIN p' = 1 .. Len(p')
    BY <1>11, <1>15, <2>4
  <2> QED BY <2>5 DEF ToolResultsFollowCalls, CallsAnswered, AnswersCalled, p
<1> QED BY <1>14, <1>16, <1>17, <1>18, <1>19, <1>20 DEF ConversationInv

(* Whatever upstream answers is a list of choices.                         *)
LEMMA ResponsesAreChoices == Responses \subseteq Seq(ChoiceType)
<1> DEFINE S == [id : Calls \ UsedCalls, args : Arguments]
<1>1. S \subseteq SaidCall
  BY ConversationAssumption DEF SaidCall
<1> HIDE DEF S
<1>2. ASSUME NEW c \in BoundedSeq(S, 2) PROVE c \in Seq(SaidCall)
  <2>1. PICK n \in 0 .. 2 : c \in [1 .. n -> S]
    BY DEF BoundedSeq, SeqOf
  <2>2. c \in Seq(S)
    BY <2>1
  <2> QED BY <1>1, <2>2
<1>3. Choice \subseteq ChoiceType
  BY <1>2 DEF Choice, ChoiceType, S
<1>4. ASSUME NEW q \in Responses PROVE q \in Seq(ChoiceType)
  <2>1. PICK n \in 1 .. MaxChoices : q \in [1 .. n -> Choice]
    BY DEF Responses
  <2>2. q \in Seq(Choice)
    BY <2>1, ConversationAssumption
  <2> QED BY <1>3, <2>2
<1> QED BY <1>4

(* Upstream answers.                                                     *)
LEMMA AnswerKeepsInv ==
    ASSUME ConversationInv, UpstreamAnswers
    PROVE  ConversationInv'
<1>1. ConversationTypeOK /\ EndsWithPending /\ RolesTell /\ ImagesMatch
      /\ AnswersComeBack /\ ToolResultsFollowCalls
  BY DEF ConversationInv
<1>2. PICK choices \in Seq(ChoiceType) :
          /\ messages' = Append(messages,
                 [role |-> "assistant", content |-> TranslateToAnthropic(choices)])
          /\ said' = Append(said, Said(choices))
  BY ResponsesAreChoices DEF UpstreamAnswers
<1> DEFINE m == [role |-> "assistant", content |-> TranslateToAnthropic(choices)]
           p == Request
           back == Joined(p, Answers)
           n == Said(choices)
<1>3. messages' = Append(messages, m) /\ said' = Append(said, n) /\ m.role = "assistant"
  BY <1>2
<1>4. m \in UserMessage /\ ~HoldsImage(m.content) /\ n \in OpenAIMessage
  BY AnswerConverted
<1>5. PICK a \in OpenAIMessage :
          /\ convertMessage(m) = <<a>>
          /\ a.role = "assistant"
          /\ a.calls = FlatMap(m.content, CallOf)
          /\ \A j \in DOMAIN a.content : a.content[j] = "text"
          /\ SameMessage(a, n)
  BY AnswerConverted
<1> HIDE DEF m, n, p
<1>6. messages # << >> /\ messages[Len(messages)].role = "user"
  BY DEF UpstreamAnswers, Turn
<1>7. p # << >> /\ p[Len(p)].calls = << >>
  BY <1>1, <1>6 DEF EndsWithPending, p
<1>8. p \in Seq(OpenAIMessage) /\ said \in Seq(OpenAIMessage)
  BY <1>1, Typed DEF p
<1>9. /\ messages' \in Seq(UserMessage) /\ messages' # << >>
      /\ messages'[Len(messages')] = m
      /\ p' = p \o <<a>>
      /\ Pending' = FlatMap(m.content, CallOf)
      /\ Holds(messages, "image")' <=> Holds(messages, "image") \/ HoldsImage(m.content)
  BY <1>1, <1>3, <1>4, <1>5, OneMore DEF p
<1>10. /\ p' \in Seq(OpenAIMessage) /\ Len(p') = Len(p) + 1 /\ p'[Len(p) + 1] = a
       /\ Len(p) \in Nat /\ DOMAIN p' = 1 .. Len(p')
  BY <1>8, <1>9
<1>11. ConversationTypeOK'
  <2>1. said' \in Seq(OpenAIMessage)
    BY <1>3, <1>4, <1>8
  <2> QED BY <1>9, <2>1 DEF ConversationTypeOK, UserMessage
<1>12. EndsWithPending'
  <2>1. p' # << >> /\ p'[Len(p')].calls = Pending'
    BY <1>5, <1>9, <1>10
  <2> QED BY <1>3, <1>9, <2>1 DEF EndsWithPending, p
<1>13. RolesTell'
  <2>1. said' # << >>
    BY <1>3, <1>4, <1>8
  <2>2. Len(p) + 1 \in 1 .. Len(p') /\ p'[Len(p) + 1].role = "assistant"
    BY <1>5, <1>10
  <2> QED BY <2>1, <2>2 DEF RolesTell, p
<1>14. ImagesMatch'
  <2>1. <<a>> \in Seq(OpenAIMessage) /\ ~ShowsImage(<<a>>)
    BY <1>5 DEF ShowsImage
  <2>2. ShowsImage(p \o <<a>>) <=> ShowsImage(p)
    BY <1>8, <2>1, ImagesJoined
  <2> QED BY <1>1, <1>4, <1>9, <2>2 DEF ImagesMatch, p
<1>15. AnswersComeBack'
  <2>1. <<a>> \in Seq(OpenAIMessage) /\ Answers[a] = <<a>>
    BY <1>5 DEF Answers, AnswerOf
  <2>2. Joined(p \o <<a>>, Answers) = back \o Joined(<<a>>, Answers)
        /\ Joined(<<a>>, Answers) = Answers[a] /\ back \in Seq(OpenAIMessage)
    BY <1>8, <2>1, AnswersType, JoinedConcat, JoinedOne, JoinedType
  <2>3. FlatMap(p', AnswerOf) = back \o <<a>>
    BY <1>9, <1>10, <2>1, <2>2, BackJoined
  <2>4. /\ Len(back) = Len(said)
        /\ \A k \in 1 .. Len(said) : SameMessage(back[k], said[k])
    BY <1>1, BackParts DEF p
  <2> HIDE DEF back
  <2>5. /\ Len(back \o <<a>>) = Len(said) + 1 /\ Len(said) \in Nat
        /\ \A k \in 1 .. Len(said) : (back \o <<a>>)[k] = back[k]
        /\ (back \o <<a>>)[Len(said) + 1] = a
    <3>1. /\ Len(back \o <<a>>) = Len(back) + 1 /\ Len(back) \in Nat
          /\ \A k \in 1 .. Len(back) : (back \o <<a>>)[k] = back[k]
          /\ (back \o <<a>>)[Len(back) + 1] = a
      BY <2>2
    <3> QED BY <2>4, <3>1
  <2>6. /\ Len(said') = Len(said) + 1 /\ DOMAIN said' = 1 .. Len(said) + 1
        /\ \A k \in 1 .. Len(said) : said'[k] = said[k]
        /\ said'[Len(said) + 1] = n
    BY <1>3, <1>4, <1>8
  <2>7. ASSUME NEW k \in 1 .. Len(said) + 1 PROVE SameMessage((back \o <<a>>)[k], said'[k])
    <3>1. CASE k = Len(said) + 1
      BY <1>5, <2>5, <2>6, <3>1
    <3>2. CASE k # Len(said) + 1
      <4>1. k \in 1 .. Len(said)
        BY <2>5, <3>2
      <4> QED BY <2>4, <2>5, <2>6, <4>1
    <3> QED BY <3>1, <3>2
  <2>8. /\ Len(FlatMap(p', AnswerOf)) = Len(said')
        /\ \A k \in DOMAIN said' : SameMessage(FlatMap(p', AnswerOf)[k], said'[k])
    BY <2>3, <2>5, <2>6, <2>7
  <2> QED BY <2>8 DEF AnswersComeBack, p
<1>16. ToolResultsFollowCalls'
  <2>1. CallsAnswered(p) /\ AnswersCalled(p)
    BY <1>1, FollowParts DEF p
  <2>2. CallsAnswered(p') /\ AnswersCalled(p')
    BY <1>5, <1>7, <1>8, <1>9, <2>1, AnswerFollows
  <2> QED BY <1>10, <2>2 DEF ToolResultsFollowCalls, CallsAnswered, AnswersCalled, p
<1> QED BY <1>11, <1>12, <1>13, <1>14, <1>15, <1>16 DEF ConversationInv

(* Every step keeps the invariant, so it holds in every state.           *)
LEMMA ConversationStep == ConversationInv /\ [ConversationNext]_conversationVars => ConversationInv'
<1> SUFFICES ASSUME ConversationInv, [ConversationNext]_conversationVars PROVE ConversationInv'
  OBVIOUS
<1>1. CASE UserSpeaks
  BY <1>1, UserKeepsInv
<1>2. CASE UpstreamAnswers
  BY <1>2, AnswerKeepsInv
<1>3. CASE UNCHANGED conversationVars
  <2>1. messages' = messages /\ said' = said
    BY <1>3 DEF conversationVars
  <2>2. Request' = Request /\ Pending' = Pending
    BY <2>1 DEF Request, Pending
  <2>3. ConversationTypeOK' /\ EndsWithPending' /\ RolesTell' /\ ImagesMatch'
    BY <2>1, <2>2
       DEF ConversationInv, ConversationTypeOK, EndsWithPending, RolesTell, ImagesMatch
  <2>4. AnswersComeBack' /\ ToolResultsFollowCalls'
    BY <2>1, <2>2 DEF ConversationInv, AnswersComeBack, ToolResultsFollowCalls
  <2> QED BY <2>3, <2>4 DEF ConversationInv
<1> QED BY <1>1, <1>2, <1>3 DEF ConversationNext

LEMMA ConversationAlways == ConversationSpec => []ConversationInv
BY ConversationInitially, ConversationStep, PTL DEF ConversationSpec

(* Messages are texts, images, results and calls, and what upstream said   *)
(* is a list of its messages, in every conversation.                       *)
THEOREM ConversationTypeCorrect == ConversationSpec => []ConversationTypeOK
<1>1. ConversationInv => ConversationTypeOK
  BY DEF ConversationInv
<1> QED BY <1>1, ConversationAlways, PTL

(* Upstream gets back what it said: TranslateToAnthropic, then             *)
(* convertAssistantMessage, for any number of choices, texts and calls.    *)
THEOREM UpstreamKnowsItsAnswers == ConversationSpec => []AnswersComeBack
<1>1. ConversationInv => AnswersComeBack
  BY DEF ConversationInv
<1> QED BY <1>1, ConversationAlways, PTL

(* The order of calls and results survives convertUserMessage, which       *)
(* splits a message with results into one message for each block.          *)
THEOREM ResultsFollowCalls == ConversationSpec => []ToolResultsFollowCalls
<1>1. ConversationInv => ToolResultsFollowCalls
  BY DEF ConversationInv
<1> QED BY <1>1, ConversationAlways, PTL

(* What DoMessagesProxy derives for X-Initiator and for the vision header  *)
(* is right about the request that it sends.                               *)
THEOREM HeadersAreRight == ConversationSpec => []HeadersMatch
<1>1. ASSUME ConversationInv PROVE HeadersMatch
  <2>1. ConversationTypeOK /\ RolesTell /\ ImagesMatch
    BY <1>1 DEF ConversationInv
  <2>2. DOMAIN Request = 1 .. Len(Request)
    BY <2>1, Typed
  <2>3. initiatorFromMessages(Request) = IF said = << >> THEN "user" ELSE "agent"
    BY <2>1, <2>2 DEF initiatorFromMessages, RolesTell
  <2>4. checkVisionContent(messages) <=> Holds(messages, "image") \/ Holds(messages, "bare_image")
    BY DEF checkVisionContent, Holds
  <2> QED BY <2>1, <2>3, <2>4 DEF HeadersMatch, ImagesMatch
<1> QED BY <1>1, ConversationAlways, PTL
=============================================================================
