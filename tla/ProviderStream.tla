---------------------------- MODULE ProviderStream -----------------------------
(***************************************************************************)
(* One turn of a provider: the parser of server-sent events, which reads   *)
(* the body in chunks that end anywhere, the two adapters, which gather    *)
(* text and tool calls from the events, and the loop of the runtime that   *)
(* takes what they yield.                                                  *)
(*                                                                         *)
(* The body is a sequence of tokens: lines, which are whole or torn, and   *)
(* the characters of the line ends.  A chunk ends between any two of them; *)
(* inside a line it is only put together again.  A text or an argument is  *)
(* a sequence of parts, and a part is its length.                          *)
(*                                                                         *)
(* Left out: requests, headers, usage, the JSON of payloads, the names of  *)
(* tools, and credentials, none of which the parts contain.  Definitions   *)
(* called X_Something are X with a plausible bug and are not part of the   *)
(* model.                                                                  *)
(***************************************************************************)
EXTENDS Naturals, SequencesExt, TLC

CONSTANTS
    Turns,     \* what the provider may send: sequences of payloads
    Limit,     \* the 500 characters that redactCredentialText keeps
    MaxText,   \* MAX_ASSISTANT_TEXT_CHARACTERS
    MaxChunk   \* tokens in one chunk

ASSUME ProviderStreamAssumption == Limit \in Nat /\ MaxText \in Nat /\ MaxChunk \in Nat \ {0}

VARIABLES
    protocol, \* "openai-compatible" or "anthropic-compatible"
    style,    \* how its lines end, or "json" for an answer that is no stream
    turn,     \* what the provider sends
    wire,     \* what arrives of it
    position, \* how many tokens have been read
    buffer,   \* the parser's buffer, with line ends normalised
    carriage, \* pendingCarriageReturn
    events,   \* the events it has yielded so far
    reply,    \* what the adapter has gathered and the runtime has taken
    status    \* "streaming", "completed" or "failed"

vars == <<protocol, style, turn, wire, position, buffer, carriage, events, reply, status>>

None == "none"
Line(kind, value) == [line |-> kind, value |-> value]
LF == Line("LF", None)
CR == Line("CR", None)
Torn == [type |-> "torn"]

\* Payloads: a piece of text, the start of a call, a piece of its arguments,
\* the end of the turn, an error, or a comment that keeps the connection.
Text(n) == [type |-> "text", part |-> n]
Start(i, id) == [type |-> "start", index |-> i, id |-> id]
Arguments(i, n) == [type |-> "arguments", index |-> i, part |-> n]
End == [type |-> "end"]
Failure == [type |-> "error"]
Comment == [type |-> "comment"]

------------------------------------------------------------------------------
(* The provider's side.                                                    *)

LineEnd(s) == CASE s = "LF" -> <<LF>> [] s = "CR" -> <<CR>> [] s = "CRLF" -> <<CR, LF>>

\* A comment, or a payload under its event name; an OpenAI stream names errors
\* only.
Lines(p, proto) ==
    IF p.type = "comment" THEN <<Line("comment", None)>>
    ELSE IF proto = "anthropic-compatible" \/ p.type = "error"
    THEN <<Line("event", p.type), Line("data", p)>>
    ELSE <<Line("data", p)>>

Body(t, proto, s) ==
    FlattenSeq([i \in DOMAIN t |->
        FlattenSeq([k \in DOMAIN Lines(t[i], proto) |-> <<Lines(t[i], proto)[k]>> \o LineEnd(s)])
        \o LineEnd(s)])

\* What arrives of a body: all of it, or as much as came before the
\* connection was lost, the last line perhaps torn.
Arrivals(body) ==
    {SubSeq(body, 1, n) : n \in 0 .. Len(body)}
    \cup {Append(SubSeq(body, 1, n - 1), Line("data", Torn)) :
            n \in {k \in 1 .. Len(body) : body[k].line = "data"}}

Nothing == [text |-> <<>>, tools |-> <<>>, ended |-> FALSE, failed |-> FALSE, calls |-> <<>>]

Init ==
    /\ protocol \in {"openai-compatible", "anthropic-compatible"}
    /\ style \in {"LF", "CR", "CRLF", "json"}
    /\ turn \in Turns
    /\ wire \in IF style = "json" THEN {<<>>} ELSE Arrivals(Body(turn, protocol, style))
    /\ position = 0
    /\ buffer = <<>>
    /\ carriage = FALSE
    /\ events = <<>>
    /\ reply = Nothing
    /\ status = "streaming"

------------------------------------------------------------------------------
(* parseServerSentEvents.                                                  *)

\* normalizeLineEndings, one character: a carriage return waits for the next
\* one, which may be in the next chunk.
NormalizeCharacter(s, t) ==
    LET out == IF s.carriage THEN Append(s.out, LF) ELSE s.out
    IN  CASE s.carriage /\ t.line = "LF" -> [out |-> out, carriage |-> FALSE]
          [] t.line = "CR"               -> [out |-> out, carriage |-> TRUE]
          [] OTHER                -> [out |-> Append(out, t), carriage |-> FALSE]

Normalize_ChunkByChunk(chunk, pending) ==
    LET s == FoldLeft(NormalizeCharacter, [out |-> <<>>, carriage |-> FALSE], chunk)
    IN  [out |-> IF s.carriage THEN Append(s.out, LF) ELSE s.out, carriage |-> FALSE]

Normalize(chunk, pending) ==
    FoldLeft(NormalizeCharacter, [out |-> <<>>, carriage |-> pending], chunk)

\* The blocks that a blank line ends, and what is left of the text.
SplitCharacter(s, t) ==
    IF t.line = "LF" /\ s.rest # <<>> /\ Last(s.rest).line = "LF"
    THEN [blocks |-> Append(s.blocks, Front(s.rest)), rest |-> <<>>]
    ELSE [s EXCEPT !.rest = Append(@, t)]

Split(text) == FoldLeft(SplitCharacter, [blocks |-> <<>>, rest |-> <<>>], text)

\* parseEventBlock: none for a block without data.
ParseEventBlock(block) ==
    LET Of(kind) == SelectSeq(block, LAMBDA t : t.line = kind)
    IN  IF Of("data") = <<>> THEN <<>>
        ELSE <<[event |-> IF Of("event") = <<>> THEN None ELSE Last(Of("event")).value,
                data  |-> Of("data")[1].value]>>

Parse(blocks) == FlattenSeq([i \in DOMAIN blocks |-> ParseEventBlock(blocks[i])])

------------------------------------------------------------------------------
(* The adapters and the runtime.                                           *)

\* The payloads of a turn before its end.
Said(t) == SubSeq(t, 1, SelectInSeq(t, LAMBDA p : p = End) - 1)

IsText(p) == p.type = "text"
PartsOf(payloads) == [k \in DOMAIN payloads |-> payloads[k].part]

Total(parts) == FoldLeft(+, 0, parts)

\* redactCredentialText: a string, in parts, is cut at the limit.
Redact(parts) == [parts |-> parts, cut |-> Total(parts) > Limit]
Length(string) == IF string.cut THEN Limit ELSE Total(string.parts)

\* The runtime takes a piece of text, unless the text gets too long.
TakeText(r, parts) ==
    LET so_far == FoldLeft(LAMBDA n, string : n + Length(string), 0, r.text)
    IN  IF so_far + Length(Redact(parts)) > MaxText THEN [r EXCEPT !.failed = TRUE]
        ELSE [r EXCEPT !.text = Append(@, Redact(parts))]

\* collectToolCallDeltas: whatever names an index adds to its call.
CollectDelta(r, p) ==
    LET old == IF p.index \in DOMAIN r.tools THEN r.tools[p.index] ELSE [id |-> None, parts |-> <<>>]
        new == IF p.type = "start" THEN [old EXCEPT !.id = p.id]
               ELSE [old EXCEPT !.parts = Append(@, p.part)]
    IN  [r EXCEPT !.tools = (p.index :> new) @@ @]

\* content_block_start makes a call anew, input_json_delta adds to one that is
\* there.
ContentBlock(r, p) ==
    IF p.type = "start" THEN [r EXCEPT !.tools = (p.index :> [id |-> p.id, parts |-> <<>>]) @@ @]
    ELSE IF p.index \in DOMAIN r.tools THEN [r EXCEPT !.tools[p.index].parts = Append(@, p.part)]
    ELSE r

\* One event in streamTurn.  After the end marker nothing is looked at, and a
\* torn payload is no JSON.
Consume(r, e) ==
    IF r.ended \/ r.failed THEN r
    ELSE IF e.event = "error" THEN [r EXCEPT !.failed = TRUE]
    ELSE CASE e.data.type \in {"error", "torn"} -> [r EXCEPT !.failed = TRUE]
           [] e.data.type = "end"              -> [r EXCEPT !.ended = TRUE]
           [] e.data.type = "text"             -> TakeText(r, <<e.data.part>>)
           [] OTHER -> IF protocol = "openai-compatible" THEN CollectDelta(r, e.data)
                       ELSE ContentBlock(r, e.data)

\* A message that is no stream.  To the OpenAI adapter its text is one string.
ParseOpenAIJsonResponse(r, message) ==
    LET texts == SelectSeq(message, IsText)
        first == IF texts = <<>> THEN r ELSE TakeText(r, PartsOf(texts))
    IN  FoldLeft(CollectDelta, first, SelectSeq(message, LAMBDA p : ~IsText(p)))

ParseAnthropicJsonResponse(r, message) ==
    FoldLeft(LAMBDA s, p : Consume(s, [event |-> None, data |-> p]), r, message)

\* finalizeToolCalls, finalizeAnthropicTools: the calls in the order of their
\* indices, with their arguments redacted.
FinalizeToolCalls(tools) ==
    LET indices == SetToSortSeq(DOMAIN tools, <)
    IN  [k \in DOMAIN indices |->
            [id |-> tools[indices[k]].id, arguments |-> Redact(tools[indices[k]].parts)]]

\* The stream is over: it completes only behind the end marker, and the
\* runtime refuses calls without an id or with one it has seen.
Finish_WithoutMarker(r) ==
    LET calls == FinalizeToolCalls(r.tools)
        ids   == [k \in DOMAIN calls |-> calls[k].id]
    IN  IF r.failed \/ None \in Range(ids) \/ ~IsInjective(ids)
        THEN status' = "failed" /\ reply' = r
        ELSE status' = "completed" /\ reply' = [r EXCEPT !.calls = calls]

Finish(r) ==
    LET calls == FinalizeToolCalls(r.tools)
        ids   == [k \in DOMAIN calls |-> calls[k].id]
    IN  IF r.failed \/ ~r.ended \/ None \in Range(ids) \/ ~IsInjective(ids)
        THEN status' = "failed" /\ reply' = r
        ELSE status' = "completed" /\ reply' = [r EXCEPT !.calls = calls]

------------------------------------------------------------------------------
(* Actions.                                                                *)

Given == <<protocol, style, turn, wire>>

\* The adapter's loop breaks at the end marker or throws, else it goes on.
Deliver(new) ==
    LET r == FoldLeft(Consume, reply, new) IN
    /\ events' = events \o new
    /\ IF r.ended \/ r.failed THEN Finish(r) ELSE reply' = r /\ UNCHANGED status

\* reader.read() gives a chunk.
Read ==
    /\ status = "streaming"
    /\ style # "json"
    /\ \E n \in 1 .. MaxChunk :
         /\ position + n <= Len(wire)
         /\ position' = position + n
         /\ LET s == Normalize(SubSeq(wire, position + 1, position + n), carriage)
                b == Split(buffer \o s.out)
            IN  /\ carriage' = s.carriage
                /\ buffer' = b.rest
                /\ Deliver(Parse(b.blocks))
    /\ UNCHANGED Given

\* It is done: what is left in the buffer is the last event.
ReadDone ==
    /\ status = "streaming"
    /\ style # "json"
    /\ position = Len(wire)
    /\ LET new == ParseEventBlock(buffer) IN
         /\ events' = events \o new
         /\ Finish(FoldLeft(Consume, reply, new))
    /\ buffer' = <<>>
    /\ carriage' = FALSE
    /\ UNCHANGED <<Given, position>>

\* It rejects: the connection breaks, or the run is aborted.
ReadFails ==
    /\ status = "streaming"
    /\ status' = "failed"
    /\ UNCHANGED <<Given, position, buffer, carriage, events, reply>>

\* An answer that is no stream: the whole message at once, and no end marker; an
\* error comes alone.
Answer ==
    /\ status = "streaming"
    /\ style = "json"
    /\ LET message == SelectSeq(Said(turn), LAMBDA p : p # Comment)
           r == IF protocol = "openai-compatible" THEN ParseOpenAIJsonResponse(reply, message)
                ELSE ParseAnthropicJsonResponse(reply, message)
       IN  IF Failure \in Range(message) THEN status' = "failed" /\ UNCHANGED reply
           ELSE Finish([r EXCEPT !.ended = TRUE])
    /\ UNCHANGED <<Given, position, buffer, carriage, events>>

Next == Read \/ ReadDone \/ ReadFails \/ Answer

Spec == Init /\ [][Next]_vars

------------------------------------------------------------------------------
(* Safety.                                                                 *)

Payloads == SelectSeq(turn, LAMBDA p : p.type # "comment")

\* However the body is cut into chunks, and whatever ends its lines, the
\* parser yields the provider's payloads, each under its name, in order: none
\* merged, doubled or lost once the character behind its blank line is there.
\* Only the last one may be torn, where the connection broke.
EventsAreThePayloads ==
    /\ \A i \in DOMAIN events :
         /\ i <= Len(Payloads)
         /\ \/ /\ events[i].data = Payloads[i]
               /\ protocol = "anthropic-compatible" \/ Payloads[i].type = "error" =>
                    events[i].event = Payloads[i].type
            \/ i = Len(events) /\ events[i].data = Torn
    /\ style # "json" =>
         Len(events) >=
           Cardinality({k \in DOMAIN turn :
             /\ turn[k].type # "comment"
             /\ Len(Body(SubSeq(turn, 1, k), protocol, style)) < position})

\* The calls the provider sent before the end of its turn, by its own count:
\* each index has its id and the pieces of its arguments in their order.
SentCalls(sent) ==
    LET indices == SetToSortSeq({p.index : p \in {q \in Range(sent) : q.type = "start"}}, <)
        Pieces(i) == SelectSeq(sent, LAMBDA p : p.type = "arguments" /\ p.index = i)
        Of(i)   == [id |-> (CHOOSE p \in Range(sent) : p.type = "start" /\ p.index = i).id,
                    arguments |-> Redact(PartsOf(Pieces(i)))]
    IN  [k \in DOMAIN indices |-> Of(indices[k])]

\* The strings of text the provider sent before the end of its turn: each piece
\* is one, but the text of an OpenAI answer that is no stream is one string.
SentText(sent) ==
    LET parts == PartsOf(SelectSeq(sent, IsText))
    IN  IF protocol = "openai-compatible" /\ style = "json" /\ parts # <<>>
        THEN <<Redact(parts)>>
        ELSE [k \in DOMAIN parts |-> Redact(<<parts[k]>>)]

\* A turn is completed only as the provider sent it, but for the filter of
\* credentials: a stream that was cut, torn or reported an error never completes,
\* and text and calls are those sent before the end, none lost, merged, doubled
\* or out of order, with distinct ids.  "But for the filter": each string of text
\* and of arguments that is longer than the limit of redactCredentialText arrives
\* cut at it, and this property says that it is cut there and nowhere else.
TurnIsWhole ==
    status = "completed" =>
        LET sent == Said(turn)
        IN  /\ style = "json" \/ \E e \in Range(events) : e.data = End
            /\ Failure \notin Range(sent)
            /\ reply.text = SentText(sent)
            /\ reply.calls = SentCalls(sent)
            /\ \A k, l \in DOMAIN reply.calls : reply.calls[k].id = reply.calls[l].id => k = l

\* "Complete UTF-8 file contents." (tool-runtime, write_file): the arguments of
\* a call reach the tool as the provider sent them.
ArgumentsAreComplete ==
    status = "completed" => \A k \in DOMAIN reply.calls : ~reply.calls[k].arguments.cut
==============================================================================
