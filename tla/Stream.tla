-------------------------------- MODULE Stream --------------------------------
(***************************************************************************)
(* One streamed answer: the upstream's server-sent events arrive in chunks *)
(* cut anywhere, a bridge puts lines together and translates each into the *)
(* events of the client's protocol, the accumulator of core/aigate_core.c  *)
(* collects the text for the response cache, and the handler ends the      *)
(* stream.  A route is                                                     *)
(*   openai, anthropic, gemini   /v1/chat/completions over that adapter    *)
(*   responses                   /v1/responses over an OpenAI upstream     *)
(*   messages                    /v1/messages over an OpenAI upstream      *)
(*   claude, genai               the native paths, where bytes go through  *)
(*                               and a sniffer reads the usage             *)
(*                                                                         *)
(* A line is one event with a length; a text is a number.  What is kept of *)
(* a line buffer is its length and whether it holds a prefix of the line   *)
(* that is arriving.  Left out: the ids, the models, the cut at 8192 bytes *)
(* of a translated event (only longer lines than LineSizes reach it),      *)
(* watermarks, placeholders of personal data and error statuses, which     *)
(* arrive before any event.                                                *)
(***************************************************************************)
EXTENDS Naturals, Sequences, FiniteSets, SequencesExt

CONSTANTS
    Routes,       \* [kind, tag, single]: tag is tag_emulation, single is n_candidates = 1
    LineCap,      \* sizeof line_buf
    LineSizes,    \* lengths of the lines with data
    AccCap,       \* texts the accumulator can hold
    Step,         \* bytes of a replayed piece
    MaxItems,     \* bound: texts and tool calls of an answer
    MaxBlocks,    \* bound: blocks of an Anthropic answer
    MaxParts      \* bound: chunks that end inside a line

\* Only handle_chat_stream sets tag_emulation; line_buf is an array, and a replayed piece has bytes.
ASSUME StreamAssumption ==
    /\ Routes \subseteq [kind : {"openai", "anthropic", "gemini", "responses", "messages", "claude", "genai"},
                         tag : BOOLEAN, single : BOOLEAN]
    /\ \A r \in Routes : r.tag => r.kind \in {"openai", "anthropic", "gemini"}
    /\ LineCap \in Nat \ {0} /\ LineSizes \subseteq Nat
    /\ AccCap \in Nat /\ Step \in Nat \ {0}

VARIABLES
    route,
    up,        \* the upstream: where it is, the answer so far, the usage it reported
    line,      \* the line that is arriving, and what the upstream is after it
    buf,       \* line_buf
    b,         \* the bridge or sniffer
    acc,       \* stream_cache_acc_t
    call,      \* the handler
    cached,    \* the texts of the entry in the response cache
    replayed,  \* what a later request got from it
    seen       \* history: long lines, chunks that ended inside a line

streamVars == <<route, up, line, buf, b, acc, call, cached, replayed, seen>>

ClaudeSide == {"anthropic", "claude"}
Evented == ClaudeSide \cup {"responses"}    \* each event has an event line before its data
Native == {"claude", "genai"}
Chat == {"openai", "anthropic", "gemini"}

NewUp == [st |-> "start", blk |-> "", n |-> 0, items |-> <<>>, tok |-> {}, failed |-> FALSE, blocks |-> <<>>]
NoLine == [l |-> "none", t |-> "", k |-> "", size |-> 0, sent |-> 0, u |-> NewUp]
Empty == [len |-> 0, clean |-> TRUE, head |-> "none"]

\* calloc, and what the adapters set at once.
bridge_new ==
    [out |-> <<>>, headers |-> FALSE, aborted |-> FALSE, event |-> "",
     in_thinking |-> FALSE, in_tool |-> FALSE, tool_index |-> 0,
     tag_opened |-> FALSE, tag_closed |-> FALSE, done |-> FALSE, tok |-> {},
     started |-> FALSE, think_started |-> FALSE, think_closed |-> FALSE, text_started |-> FALSE]

NewAcc == [texts |-> <<>>, overflow |-> FALSE]

StreamInit ==
    /\ route \in Routes
    /\ up = NewUp /\ line = NoLine /\ buf = Empty /\ b = bridge_new /\ acc = NewAcc
    /\ call = [pc |-> "reading", attempt |-> 1, gone |-> FALSE, dirty |-> FALSE, late |-> FALSE]
    /\ cached = <<>> /\ replayed = <<>>
    /\ seen = [long |-> FALSE, parts |-> 0]

(***************************************************************************)
(* The upstream                                                            *)
(***************************************************************************)
\* An item of the answer: a thought, a text (a wide one is a character of two bytes), a tool call.
Grown(k) == [up EXCEPT !.n = @ + 1,
                       !.items = Append(@, [n |-> up.n + 1, k |-> k, w |-> IF k = "wide" THEN 2 ELSE 1])]
More == up.n < MaxItems

\* It starts to send an event of type t and kind k, after which it is u.
Sends(t, k, u) ==
    /\ call.pc = "reading" /\ ~b.aborted /\ line = NoLine
    /\ \E size \in IF u.n > up.n THEN LineSizes ELSE {2} :
         /\ line' = [l |-> IF route.kind \in Evented THEN "event" ELSE "data",
                     t |-> t, k |-> k, size |-> size, sent |-> 0, u |-> u]
         /\ seen' = [seen EXCEPT !.long = @ \/ size >= LineCap - 1]
    /\ UNCHANGED <<route, up, buf, b, acc, call, cached, replayed>>

OpenAiUpstream ==
    /\ route.kind \in {"openai", "messages"}
    /\ \/ up.st = "start" /\ Sends("hello", "", [up EXCEPT !.st = "body"])
       \/ /\ up.st = "body" /\ More
          /\ \E k \in {"reason", "text", "wide", "tool"} : Sends(k, k, Grown(k))
       \/ up.st = "body" /\ Sends("finish", "", [up EXCEPT !.st = "fin"])
       \/ up.st = "fin" /\ Sends("usage", "", [up EXCEPT !.st = "used", !.tok = {"in", "out"}])
       \/ up.st \in {"fin", "used"} /\ Sends("done", "", [up EXCEPT !.st = "end"])

ResponsesUpstream ==
    /\ route.kind = "responses"
    /\ \/ up.st = "start" /\ Sends("hello", "", [up EXCEPT !.st = "body"])
       \/ up.st = "body" /\ More /\ Sends("output", "", Grown("text"))
       \/ up.st = "body" /\ Sends("usage", "", [up EXCEPT !.st = "end", !.tok = {"in", "out"}])

ClaudeUpstream ==
    /\ route.kind \in ClaudeSide
    /\ \/ up.st = "start" /\ Sends("message_start", "", [up EXCEPT !.st = "open", !.tok = {"in"}])
       \/ /\ up.st = "open" /\ More /\ Len(up.blocks) < MaxBlocks
          /\ \E k \in {"thinking", "text", "tool_use"} :
               Sends("content_block_start", k,
                     [up EXCEPT !.st = "block", !.blk = k, !.blocks = Append(@, k)])
       \/ /\ up.st = "open" /\ More /\ Len(up.blocks) < MaxBlocks
          /\ Sends("content_block_start", "redacted_thinking",
                   [Grown("reason") EXCEPT !.st = "block", !.blk = "redacted", !.blocks = Append(@, "thinking")])
       \/ /\ up.st = "block" /\ More
          /\ \/ up.blk = "thinking" /\ Sends("content_block_delta", "thinking_delta", Grown("reason"))
             \/ up.blk = "text" /\ Sends("content_block_delta", "text_delta", Grown("text"))
             \/ up.blk = "tool_use"
                /\ Sends("content_block_delta", "input_json_delta", [up EXCEPT !.blk = "tool_args"])
       \/ up.st = "block" /\ up.blk = "thinking"
          /\ Sends("content_block_delta", "signature_delta", [up EXCEPT !.blk = "signed"])
       \/ up.st = "block" /\ up.blk \in {"thinking", "signed", "text", "redacted"}
          /\ Sends("content_block_stop", "", [up EXCEPT !.st = "open"])
       \/ up.st = "block" /\ up.blk \in {"tool_use", "tool_args"} /\ More
          /\ Sends("content_block_stop", "", [Grown("tool") EXCEPT !.st = "open"])
       \/ up.st = "open" /\ Sends("message_delta", "", [up EXCEPT !.st = "fin", !.tok = {"in", "out"}])
       \/ up.st = "fin" /\ Sends("message_stop", "", [up EXCEPT !.st = "end"])
       \/ up.st \in {"open", "block"} /\ Sends("error", "", [up EXCEPT !.st = "end", !.failed = TRUE])

\* Every chunk carries usageMetadata, the last one with the candidates' tokens.
GeminiUpstream ==
    /\ route.kind \in {"gemini", "genai"} /\ up.st \in {"start", "body"}
    /\ \/ /\ More
          /\ \E k \in {"reason", "text", "tool"} : Sends(k, k, [Grown(k) EXCEPT !.st = "body", !.tok = {"in"}])
       \/ Sends("finish", "", [up EXCEPT !.st = "end", !.tok = {"in", "out"}])

(***************************************************************************)
(* What a bridge sends                                                     *)
(***************************************************************************)
Frame(f, i, x) == [f |-> f, i |-> i, n |-> x.n, w |-> x.w]
Bare(f) == <<[f |-> f, i |-> 0, n |-> 0, w |-> 1]>>

\* openai_bridge_emit_sse, bridge_send_chunk, gemini_bridge_send_chunk, oai_ant_bridge_send: the
\* first event sends the headers. All but the first notice that the client is gone.
bridge_send_chunk(c, frames) ==
    IF frames = <<>> THEN c
    ELSE [c EXCEPT !.out = @ \o frames, !.headers = TRUE,
                   !.aborted = @ \/ (call.gone /\ route.kind \notin {"openai", "responses"})]

OpenTag(c) ==
    IF route.tag /\ ~c.tag_opened THEN bridge_send_chunk([c EXCEPT !.tag_opened = TRUE], Bare("tag")) ELSE c
CloseTag(c) ==
    IF route.tag /\ c.tag_opened /\ ~c.tag_closed
    THEN bridge_send_chunk([c EXCEPT !.tag_closed = TRUE], Bare("untag")) ELSE c

Thought(c, x) ==
    bridge_send_chunk(OpenTag(c), <<Frame(IF route.tag THEN "content" ELSE "reasoning", 0, x)>>)
Text(c, x) == bridge_send_chunk(CloseTag(c), <<Frame("content", 0, x)>>)

\* The item that an event completed.
New(e) == Last(e.u.items)

\* Tag emulation rewrites the chunks and leaves tool calls out; otherwise the line goes through.
openai_stream_process_line(c, e) ==
    LET d == IF e.t = "usage" THEN [c EXCEPT !.tok = {"in", "out"}] ELSE c
    IN  IF route.tag
        THEN CASE e.t = "done" -> bridge_send_chunk(CloseTag(d), Bare("done"))
               [] e.t = "reason" -> Thought(d, New(e))
               [] e.t \in {"text", "wide"} -> Text(d, New(e))
               [] e.t = "finish" -> bridge_send_chunk(CloseTag(d), Bare("finish"))
               [] OTHER -> d
        ELSE CASE e.t = "reason" -> Thought(d, New(e))
               [] e.t \in {"text", "wide"} -> Text(d, New(e))
               [] e.t \in {"tool", "output"} -> bridge_send_chunk(d, <<Frame(e.t, 0, New(e))>>)
               [] OTHER -> bridge_send_chunk(d, Bare(e.t))

(***************************************************************************)
(* The Anthropic bridge, by the event the last event line named            *)
(***************************************************************************)
content_block_start(c, e) ==
    CASE e.k \in {"thinking", "redacted_thinking"} ->
           LET d == OpenTag([c EXCEPT !.in_thinking = TRUE, !.in_tool = FALSE])
           IN  IF e.k = "thinking" THEN d ELSE Thought(d, New(e))
      [] e.k = "text" -> CloseTag([c EXCEPT !.in_thinking = FALSE, !.in_tool = FALSE])
      [] e.k = "tool_use" -> [c EXCEPT !.in_thinking = FALSE, !.in_tool = TRUE]

content_block_delta(c, e) ==
    CASE e.k = "signature_delta" -> IF route.tag THEN c ELSE bridge_send_chunk(c, Bare("signature"))
      [] e.k = "thinking_delta" -> Thought(c, New(e))
      [] e.k = "text_delta" -> Text(c, New(e))
      [] e.k = "input_json_delta" -> c

content_block_stop(c, e) ==
    LET d == IF c.in_thinking THEN CloseTag([c EXCEPT !.in_thinking = FALSE]) ELSE c
    IN  IF d.in_tool
        THEN bridge_send_chunk([d EXCEPT !.in_tool = FALSE, !.tool_index = @ + 1],
                               <<Frame("tool", d.tool_index, New(e))>>)
        ELSE d

\* Mutant: the output tokens of message_delta are not taken over.
MessageDeltaUncounted(c) == bridge_send_chunk(c, Bare("finish") \o Bare("usage"))

message_delta(c) ==
    bridge_send_chunk([c EXCEPT !.tok = @ \cup {"out"}], Bare("finish") \o Bare("usage"))

message_stop(c) == bridge_send_chunk([CloseTag(c) EXCEPT !.done = TRUE], Bare("done"))

error_event(c) == bridge_send_chunk([c EXCEPT !.done = TRUE], Bare("error") \o Bare("done"))

bridge_process_line(c, e) ==
    CASE e.l = "event" -> [c EXCEPT !.event = e.t]
      [] e.l = "blank" -> [c EXCEPT !.event = ""]
      [] OTHER ->
           IF c.event # e.t THEN c
           ELSE CASE e.t = "message_start" -> bridge_send_chunk([c EXCEPT !.tok = @ \cup {"in"}], Bare("role"))
                  [] e.t = "content_block_start" -> content_block_start(c, e)
                  [] e.t = "content_block_delta" -> content_block_delta(c, e)
                  [] e.t = "content_block_stop" -> content_block_stop(c, e)
                  [] e.t = "message_delta" -> message_delta(c)
                  [] e.t = "message_stop" -> message_stop(c)
                  [] e.t = "error" -> error_event(c)

(***************************************************************************)
(* The Gemini bridge, the OpenAI to Anthropic bridge, the sniffers         *)
(***************************************************************************)
gemini_bridge_process_line(c, e) ==
    LET d == [c EXCEPT !.tok = e.u.tok]
    IN  CASE e.t = "reason" -> Thought(d, New(e))
          [] e.t = "text" -> Text(d, New(e))
          [] e.t = "tool" -> bridge_send_chunk(d, <<Frame("tool", 0, New(e))>>)
          [] OTHER -> d

TextIndex(c) == IF c.think_started THEN 1 ELSE 0
BlockFrame(f, i) == <<[f |-> f, i |-> i, n |-> 0, w |-> 1]>>

\* The thinking block is closed by the first text, or at the end.
StopThinking(c) ==
    IF c.in_thinking /\ ~c.think_closed
    THEN bridge_send_chunk([c EXCEPT !.think_closed = TRUE, !.in_thinking = FALSE], BlockFrame("block_stop", 0))
    ELSE c

\* Tool calls are not translated.
oai_ant_process_line(c, e) ==
    IF e.t = "done" THEN c
    ELSE LET d == IF c.started THEN c
                  ELSE bridge_send_chunk([c EXCEPT !.started = TRUE], Bare("message_start"))
             g == IF e.t = "usage" THEN [d EXCEPT !.tok = {"in", "out"}] ELSE d
         IN  CASE e.t = "reason" ->
                    LET h == IF g.think_started THEN g
                             ELSE bridge_send_chunk([g EXCEPT !.think_started = TRUE, !.in_thinking = TRUE],
                                                    BlockFrame("block_start", 0))
                    IN  bridge_send_chunk(h, <<Frame("thinking", 0, New(e))>>)
               [] e.t \in {"text", "wide"} ->
                    LET h == StopThinking(g)
                        j == IF h.text_started THEN h
                             ELSE bridge_send_chunk([h EXCEPT !.text_started = TRUE],
                                                    BlockFrame("block_start", TextIndex(h)))
                    IN  bridge_send_chunk(j, <<Frame("text", TextIndex(j), New(e))>>)
               [] OTHER -> g

anthropic_sniffer_process_line(c, e) ==
    CASE e.l = "event" -> [c EXCEPT !.event = e.t]
      [] e.l = "blank" -> [c EXCEPT !.event = ""]
      [] OTHER -> CASE c.event = "message_start" /\ e.t = c.event -> [c EXCEPT !.tok = @ \cup {"in"}]
                    [] c.event = "message_delta" /\ e.t = c.event -> [c EXCEPT !.tok = @ \cup {"out"}]
                    [] OTHER -> c

gemini_sniffer_process_line(c, e) == [c EXCEPT !.tok = e.u.tok]

ProcessLine(c, e) ==
    IF route.kind \notin ClaudeSide /\ e.l # "data" THEN c
    ELSE CASE route.kind = "anthropic" -> bridge_process_line(c, e)
           [] route.kind = "claude" -> anthropic_sniffer_process_line(c, e)
           [] route.kind \in {"openai", "responses"} -> openai_stream_process_line(c, e)
           [] route.kind = "gemini" -> gemini_bridge_process_line(c, e)
           [] route.kind = "messages" -> oai_ant_process_line(c, e)
           [] route.kind = "genai" -> gemini_sniffer_process_line(c, e)

(***************************************************************************)
(* Feeding: lines from chunks                                              *)
(***************************************************************************)
Blank == [NoLine EXCEPT !.l = "blank"]

\* The line after this one: an event with a name is an event line, a data line and a blank line.
Following(e) ==
    CASE e.l = "event" -> [e EXCEPT !.l = "data", !.sent = 0]
      [] e.l = "data" /\ route.kind \in Evented -> Blank
      [] OTHER -> NoLine

\* The OpenAI bridge and the native paths send the headers with the first byte; a native path
\* gives the client the chunk before the sniffer sees it.
Fed(c) ==
    [c EXCEPT !.headers = @ \/ route.kind \in Native \cup {"openai", "responses"},
              !.aborted = @ \/ (call.gone /\ route.kind \in Native)]

\* The elements of s at the places that keep says.
Kept(s, keep) == FlattenSeq([i \in DOMAIN s |-> IF keep[i] THEN <<s[i]>> ELSE <<>>])

\* stream_cache_acc_write: the texts of the events that went through it.
Texts(frames) == Kept(frames, [i \in DOMAIN frames |-> frames[i].f \in {"content", "tag", "untag"}])
accumulate_sse_line(a, frames) ==
    LET all == a.texts \o Texts(frames)
    IN  IF a.overflow THEN a
        ELSE [texts |-> SubSeq(all, 1, IF Len(all) < AccCap THEN Len(all) ELSE AccCap),
              overflow |-> Len(all) > AccCap]
Accumulated(c) ==
    IF route.kind \in Chat \cup {"responses"} THEN accumulate_sse_line(acc, SubSeq(c.out, Len(b.out) + 1, Len(c.out))) ELSE acc

\* A chunk that ends inside the line.
FeedPart ==
    /\ call.pc = "reading" /\ ~b.aborted /\ line.l \in {"event", "data"} /\ seen.parts < MaxParts
    /\ \E k \in 1 .. line.size - line.sent :
         /\ line' = [line EXCEPT !.sent = @ + k]
         /\ buf' = IF buf.len + k < LineCap - 1
                   THEN [buf EXCEPT !.len = @ + k, !.head = IF buf.len = 0 /\ buf.clean THEN line.l ELSE @]
                   ELSE [Empty EXCEPT !.clean = FALSE]
    /\ b' = Fed(b)
    /\ seen' = [seen EXCEPT !.parts = @ + 1]
    /\ UNCHANGED <<route, up, acc, call, cached, replayed>>

\* Mutant: the buffer keeps the line that was processed.
KeepsLine == [Empty EXCEPT !.len = 1, !.clean = FALSE]

AfterLine == Empty

\* The rest of the line arrives with its newline. Bytes that do not make up a line are skipped,
\* but as an event line they name an event that nothing knows.
FeedEnd ==
    /\ call.pc = "reading" /\ ~b.aborted /\ line.l # "none"
    /\ LET rest == line.size - line.sent
           c == Fed(b)
           d == IF c.aborted \/ buf.len + rest >= LineCap THEN c
                ELSE IF buf.clean THEN ProcessLine(c, line)
                ELSE IF buf.len + rest = 0 THEN ProcessLine(c, Blank)
                ELSE IF buf.head = "event" THEN [c EXCEPT !.event = "?"] ELSE c
       IN  b' = d /\ acc' = Accumulated(d)
    /\ buf' = AfterLine
    /\ up' = IF line.l = "data" THEN line.u ELSE up
    /\ line' = Following(line)
    /\ UNCHANGED <<route, call, cached, replayed, seen>>

ClientLeaves ==
    /\ call.pc = "reading" /\ ~call.gone
    /\ call' = [call EXCEPT !.gone = TRUE]
    /\ UNCHANGED <<route, up, line, buf, b, acc, cached, replayed, seen>>

(***************************************************************************)
(* The handler                                                             *)
(***************************************************************************)
openai_bridge_finish(c) == CloseTag(c)

\* Mutant: an answer that stops inside a thought leaves its tag open.
FinishOpen(c) == IF c.done THEN c ELSE bridge_send_chunk([c EXCEPT !.done = TRUE], Bare("done"))

anthropic_bridge_finish(c) ==
    LET d == CloseTag(c)
    IN  IF d.done THEN d ELSE bridge_send_chunk([d EXCEPT !.done = TRUE], Bare("done"))

gemini_stream_bridge_finish(c) ==
    bridge_send_chunk([CloseTag(c) EXCEPT !.done = TRUE], Bare("finish") \o Bare("done"))

oai_ant_bridge_finish(c) ==
    LET d == StopThinking(c)
        g == IF d.text_started THEN bridge_send_chunk(d, BlockFrame("block_stop", TextIndex(d))) ELSE d
    IN  bridge_send_chunk([g EXCEPT !.done = TRUE], Bare("message_delta") \o Bare("message_stop"))

Finished(c) ==
    CASE route.kind \in {"openai", "responses"} -> openai_bridge_finish(c)
      [] route.kind = "anthropic" -> anthropic_bridge_finish(c)
      [] route.kind = "gemini" -> gemini_stream_bridge_finish(c)
      [] route.kind = "messages" -> oai_ant_bridge_finish(c)
      [] OTHER -> c

\* upstream_stream_call returned before anything was sent: the one target is asked again with the
\* same bridge, the next target with a new one, or the client gets a 502.
BeforeHeaders(ok) ==
    /\ ~b.headers
    /\ \/ /\ route.single /\ ~ok /\ call.attempt = 1
          /\ call' = [call EXCEPT !.attempt = 2, !.dirty = buf # Empty \/ b # bridge_new]
          /\ buf' = IF buf.len > 0 THEN [buf EXCEPT !.clean = FALSE] ELSE Empty
          /\ up' = NewUp /\ line' = NoLine
          /\ UNCHANGED <<b, acc>>
       \/ /\ ~route.single /\ call.attempt = 1
          /\ call' = [call EXCEPT !.attempt = 2]
          /\ buf' = Empty /\ b' = bridge_new /\ acc' = NewAcc
          /\ up' = NewUp /\ line' = NoLine
       \/ /\ call.attempt = 2 \/ (route.single /\ ok)
          /\ call' = [call EXCEPT !.pc = "failed"]
          /\ UNCHANGED <<up, line, buf, b, acc>>
    /\ UNCHANGED <<route, cached, replayed, seen>>

\* Mutant: what was accumulated is stored although it overflowed.
StoreOverflow(a) == a.texts

\* The entry cache_store_stream makes.
cache_store_stream(a) == IF a.overflow THEN <<>> ELSE a.texts

\* The upstream closed the connection after the headers: finish, charge, store.
Ended(kinds, c) ==
    /\ b.headers /\ route.kind \in kinds
    /\ b' = c /\ acc' = Accumulated(c)
    /\ cached' = cache_store_stream(acc')
    /\ call' = [call EXCEPT !.pc = "ended"]
    /\ UNCHANGED <<route, up, line, buf, replayed, seen>>

ChatEnds == Ended(Chat, Finished(b))
ResponsesEnds == Ended({"responses"}, Finished(b))
MessagesEnds == Ended({"messages", "claude"}, Finished(b))
GenaiEnds == Ended({"genai"}, b)

\* It broke after the headers: an error event goes to the client past the bridge.
Broken(kinds, c, frames) ==
    /\ b.headers /\ route.kind \in kinds
    /\ b' = [c EXCEPT !.out = @ \o frames]
    /\ call' = [call EXCEPT !.pc = "broken", !.late = \E i \in DOMAIN b.out : b.out[i].f = "done"]
    /\ UNCHANGED <<route, up, line, buf, acc, cached, replayed, seen>>

ChatBreaks == Broken(Chat, b, Bare("error") \o Bare("done"))
ResponsesBreaks == Broken({"responses"}, b, Bare("error") \o Bare("done"))
\* The message is ended before the error is sent.
MessagesBreaks == Broken({"messages", "claude"}, Finished(b), Bare("error"))
GenaiBreaks == Broken({"genai"}, b, Bare("error"))

\* The connection is closed by the upstream, or breaks, times out, or is aborted by the bridge.
UpstreamCloses ==
    /\ call.pc = "reading" /\ ~b.aborted
    /\ BeforeHeaders(TRUE) \/ ChatEnds \/ ResponsesEnds \/ MessagesEnds \/ GenaiEnds
UpstreamBreaks ==
    /\ call.pc = "reading"
    /\ BeforeHeaders(FALSE) \/ ChatBreaks \/ ResponsesBreaks \/ MessagesBreaks \/ GenaiBreaks

\* The bytes of the texts, cut into pieces; a piece that cuts a character is no JSON string, and
\* json_pack refuses it.
Bytes(texts) == FlattenSeq([i \in DOMAIN texts |-> [j \in 1 .. texts[i].w |-> [i |-> i, j |-> j]]])
Pieces(texts) ==
    LET bytes == Bytes(texts)
    IN  [p \in 1 .. (Len(bytes) + Step - 1) \div Step |->
            SubSeq(bytes, (p - 1) * Step + 1, IF p * Step < Len(bytes) THEN p * Step ELSE Len(bytes))]
cache_stream_replay ==
    /\ call.pc = "ended" /\ cached # <<>> /\ replayed = <<>>
    /\ LET p == Pieces(cached)
           whole == [i \in DOMAIN p |-> Head(p[i]).j = 1 /\ Last(p[i]).j = cached[Last(p[i]).i].w]
       IN  replayed' = FlattenSeq(Kept(p, whole)) \o <<"stop">>
    /\ UNCHANGED <<route, up, line, buf, b, acc, call, cached, seen>>

StreamNext ==
    \/ OpenAiUpstream \/ ResponsesUpstream \/ ClaudeUpstream \/ GeminiUpstream
    \/ FeedPart \/ FeedEnd \/ ClientLeaves
    \/ UpstreamCloses \/ UpstreamBreaks \/ cache_stream_replay

StreamSpec == StreamInit /\ [][StreamNext]_streamVars

(***************************************************************************)
(* Properties                                                              *)
(***************************************************************************)
\* Lines that fit the buffer even when the newline comes later, and a second attempt that found
\* nothing of the first in the bridge.
Regular == ~seen.long /\ ~call.dirty

\* The answer of u has its thoughts in one block and before the texts.
ThoughtsFirst(u) ==
    /\ \A i, j \in DOMAIN u.blocks : u.blocks[i] = "thinking" /\ u.blocks[j] = "thinking" => i = j
    /\ \A i, j \in DOMAIN u.items : u.items[i].k \in {"text", "wide"} /\ u.items[j].k = "reason" => j < i

\* The items that the client was sent; those it is to get.
Sent(out) == Kept(out, [i \in DOMAIN out |-> out[i].n > 0])
Untranslated == route.kind = "messages" \/ (route.kind = "openai" /\ route.tag)
Due(items) == Kept(items, [i \in DOMAIN items |-> items[i].k # "tool" \/ ~Untranslated])
Numbers(s) == [i \in DOMAIN s |-> s[i].n]

Positions(fs) == {i \in DOMAIN b.out : b.out[i].f \in fs}

\* However the bytes are cut into chunks, whoever leaves and whatever breaks, the client is sent
\* every item that arrived, once and in order; tool calls excepted where a bridge has no
\* translation for them (tag emulation over OpenAI, OpenAI to Anthropic).
AnswerWhole ==
    Regular /\ route.kind \notin Native => Numbers(Sent(b.out)) = Numbers(Due(up.items))

AtMostOne(S) == \A i, j \in S : i = j

\* Chat: [DONE] comes once and last; an error event of the upstream, or a cut after its own [DONE],
\* is followed by more.
DoneIsLast ==
    route.kind \in Chat =>
      /\ ~call.late /\ ~up.failed => \A i \in Positions({"done"}) : i = Len(b.out)
      /\ call.pc = "ended" /\ route.kind # "openai" => Positions({"done"}) # {}
      /\ call.pc = "broken" => Last(b.out).f = "done"

\* A <think> tag is opened and closed at most once, around all thoughts and no text, and is closed
\* when the stream ends.
TagsAroundThoughts ==
    route.tag =>
      /\ AtMostOne(Positions({"tag"})) /\ AtMostOne(Positions({"untag"}))
      /\ \A i \in Positions({"content"}) :
           (\E j \in DOMAIN up.items : up.items[j].n = b.out[i].n /\ up.items[j].k = "reason")
             <=> (\E o \in Positions({"tag"}) : o < i) /\ (\A c \in Positions({"untag"}) : c > i)
      /\ call.pc = "ended" /\ Positions({"tag"}) # {} => Positions({"untag"}) # {}

\* Messages: each block is started, filled and stopped, one after the other, before message_stop.
Started(i) == {j \in Positions({"block_start"}) : b.out[j].i = i}
Stopped(i) == {j \in Positions({"block_stop"}) : b.out[j].i = i}
BlocksInOrder ==
    route.kind = "messages" =>
      /\ b.out # <<>> => b.out[1].f = "message_start"
      /\ \A i \in {0, 1} : AtMostOne(Started(i)) /\ AtMostOne(Stopped(i))
      /\ \A p \in Positions({"thinking", "text"}) :
           (\E j \in Started(b.out[p].i) : j < p) /\ (\A j \in Stopped(b.out[p].i) : p < j)
      /\ \A j \in Started(1) : \E h \in Stopped(0) : h < j
      /\ call.pc = "ended" =>
           /\ Last(b.out).f = "message_stop"
           /\ \A i \in {0, 1} : Started(i) # {} => Stopped(i) # {}

\* The client's protocol, for answers with one block of thoughts, which comes first.
ClientProtocol == Regular /\ ThoughtsFirst(up) => DoneIsLast /\ TagsAroundThoughts /\ BlocksInOrder

\* What is charged is what the upstream reported up to here, for the bridges as for the sniffers.
BilledAsReported == Regular /\ ~call.gone => b.tok = up.tok

\* The cache keeps the texts the client was sent, all of them; a replay gives them back, as long
\* as no character takes several bytes.
CacheHoldsAnswer ==
    cached # <<>> =>
      /\ cached = Texts(b.out)
      /\ replayed # <<>> /\ (\A i \in DOMAIN cached : cached[i].w = 1) => replayed = Bytes(cached) \o <<"stop">>

\* "Store a completed SSE stream into the response cache" (core/aigate_core.c): a cached answer is
\* one that the upstream finished.
CachedIsComplete == cached # <<>> => up.st = "end" /\ ~up.failed
=============================================================================
