--------------------------- MODULE ResponseEvents ---------------------------
(***************************************************************************)
(* What the proxy reads in the events of a response: the texts they append *)
(* and the blocks they end (crates/providers/src/sse.rs), and the usage    *)
(* they report (crates/providers/src/usage.rs), for the three APIs.        *)
(***************************************************************************)
EXTENDS Json

EventType(ev) == At(ev, <<"type">>)

\* A number, which is 0 when the event does not tell.
Number(ev, path) == OrElse(At(ev, path), <<"0">>)[1]
Carrier(key, pointer) == [key |-> key, pointer |-> pointer]
CarrierAt(ev, key, pointer) == IF pointer \in DOMAIN ev THEN <<Carrier(key, pointer)>> ELSE <<>>

AnthropicCarriers(ev) ==
    LET key == <<Number(ev, <<"index">>)>>
        delta == At(ev, <<"delta", "type">>) IN
    CASE EventType(ev) # <<"content_block_delta">> -> <<>>
      [] delta = <<"text_delta">>       -> CarrierAt(ev, key, <<"delta", "text">>)
      [] delta = <<"input_json_delta">> -> CarrierAt(ev, key, <<"delta", "partial_json">>)
      [] OTHER                          -> <<>>

\* The index of a choice or of a tool call is its place when the event does not tell.
IndexOf(ev, element) == OrElse(At(ev, Append(element, "index")), <<Last(element)>>)[1]

ChatCarriers(ev) ==
    LET OfChoice(i) ==
            LET choice == <<"choices", i>>
                OfCall(j) ==
                    LET call == choice \o <<"delta", "tool_calls", j>> IN
                    CarrierAt(ev, <<IndexOf(ev, choice), "t", IndexOf(ev, call)>>,
                              call \o <<"function", "arguments">>)
            IN  CarrierAt(ev, <<IndexOf(ev, choice)>>, choice \o <<"delta", "content">>)
                    \o ForElements(OfCall)
    IN  ForElements(OfChoice)

\* The key holds the kind of the text, the part of the type before "delta".
ResponsesCarriers(ev) ==
    LET type == OrElse(EventType(ev), <<>>) IN
    IF type # <<>> /\ Last(type) = "delta"
    THEN CarrierAt(ev, <<Number(ev, <<"output_index">>), Number(ev, <<"content_index">>)>> \o
                       SubSeq(type, Len(type) - 1, Len(type) - 1), <<"delta">>)
    ELSE <<>>

Carriers(api, ev) ==
    CASE api = "AnthropicMessages" -> AnthropicCarriers(ev)
      [] api = "ChatCompletions"   -> ChatCarriers(ev)
      [] api = "Responses"         -> ResponsesCarriers(ev)
-----------------------------------------------------------------------------
\* The prefix of the keys that an event ends: <<>> for all of them.
AnthropicTerminator(ev) ==
    CASE EventType(ev) = <<"content_block_stop">> -> <<Number(ev, <<"index">>)>>
      [] EventType(ev) \in {<<"message_stop">>, <<"message_delta">>, <<"error">>} -> <<>>
      [] OTHER -> None

ChatTerminator(ev) ==
    LET Finished(i) == Has(ev, <<"choices", i, "finish_reason">>)
        finished == SelectSeq(Indices, Finished) IN
    CASE finished # <<>> -> <<IndexOf(ev, <<"choices", finished[1]>>)>>
      [] Has(ev, <<"usage">>) /\ ~Has(ev, <<"choices">>) -> <<>>  \* choices: []
      [] OTHER -> None

ResponsesTerminator(ev) ==
    LET type == OrElse(EventType(ev), <<>>) IN
    CASE type # <<>> /\ Last(type) = "done" -> <<Number(ev, <<"output_index">>)>>
      [] type = <<"error">> \/ \E end \in {"completed", "incomplete", "failed"} :
            type = <<"response", end>> -> <<>>
      [] OTHER -> None

TerminatorOf(api, ev) ==
    CASE api = "AnthropicMessages" -> AnthropicTerminator(ev)
      [] api = "ChatCompletions"   -> ChatTerminator(ev)
      [] api = "Responses"         -> ResponsesTerminator(ev)
-----------------------------------------------------------------------------
\* UsageMeta.
NoUsage == [response_model |-> None, input_tokens |-> None, output_tokens |-> None,
            cache_read_tokens |-> None, cache_write_tokens |-> None, stop_reason |-> None,
            error |-> None, reasoning_tokens |-> None, tool_calls |-> <<>>]

\* What the other one tells replaces what was known; tool calls are added.
Merge(meta, other) ==
    [f \in DOMAIN meta |-> IF f = "tool_calls" THEN meta[f] \o other[f]
                           ELSE OrElse(other[f], meta[f])]

UsageError(ev) ==
    IF Has(ev, <<"error">>) THEN OrElse(At(ev, <<"error", "message">>), <<"error">>) ELSE None

NamedTools(kinds) == {<<k>> : k \in kinds}
AnthropicTool(ev, block) ==
    LET name == Append(block, "name") IN
    IF At(ev, Append(block, "type")) \in NamedTools({"tool_use", "server_tool_use", "mcp_tool_use"})
       /\ name \in DOMAIN ev
    THEN <<ev[name]>> ELSE <<>>

AnthropicUsage(ev) ==
    LET message == IF EventType(ev) = <<"message_start">> /\ Has(ev, <<"message">>)
                   THEN <<"message">> ELSE <<>>
        In(path) == At(ev, message \o path)
        Tool(i) == AnthropicTool(ev, message \o <<"content", i>>)
    IN  [NoUsage EXCEPT
            !.response_model = In(<<"model">>),
            !.input_tokens = In(<<"usage", "input_tokens">>),
            !.output_tokens = OrElse(In(<<"usage", "output_tokens">>), At(ev, <<"usage", "output_tokens">>)),
            !.cache_read_tokens = In(<<"usage", "cache_read_input_tokens">>),
            !.cache_write_tokens = In(<<"usage", "cache_creation_input_tokens">>),
            !.stop_reason = OrElse(In(<<"stop_reason">>), At(ev, <<"delta", "stop_reason">>)),
            !.tool_calls = IF EventType(ev) = <<"content_block_start">>
                           THEN AnthropicTool(ev, <<"content_block">>) ELSE ForElements(Tool)]

ChatUsage(ev) ==
    LET In(path) == At(ev, path)
        part == IF Has(ev, <<"choices", "0", "message", "tool_calls">>) THEN "message" ELSE "delta"
        Tool(i) == LET name == <<"choices", "0", part, "tool_calls", i, "function", "name">> IN
                   IF In(name) \in {None, <<>>} THEN <<>> ELSE <<In(name)>>
    IN  [NoUsage EXCEPT
            !.response_model = In(<<"model">>),
            !.input_tokens = In(<<"usage", "prompt_tokens">>),
            !.output_tokens = In(<<"usage", "completion_tokens">>),
            !.cache_read_tokens = In(<<"usage", "prompt_tokens_details", "cached_tokens">>),
            !.reasoning_tokens = In(<<"usage", "completion_tokens_details", "reasoning_tokens">>),
            !.stop_reason = In(<<"choices", "0", "finish_reason">>),
            !.tool_calls = ForElements(Tool)]

\* The name of a tool that the API itself provides is part of the type of its call.
OwnTools == {"local_shell", "apply_patch", "web_search", "file_search", "computer",
             "code_interpreter", "image_generation"}
ResponsesTool(ev, item) ==
    LET type == At(ev, Append(item, "type"))
        name == Append(item, "name") IN
    CASE type \in NamedTools({"function_call", "custom_tool_call", "mcp_call"}) ->
            IF name \in DOMAIN ev THEN <<ev[name]>> ELSE <<>>
      [] \E tool \in OwnTools : type = <<tool, "call">> -> <<<<type[1]>>>>
      [] OTHER -> <<>>

\* In a stream a call is counted when its item is added, else from the output.
ResponsesTools(ev, response) ==
    LET Tool(i) == ResponsesTool(ev, response \o <<"output", i>>) IN
    CASE EventType(ev) = <<"response", "output_item", "added">> -> ResponsesTool(ev, <<"item">>)
      [] EventType(ev) = None -> ForElements(Tool)
      [] OTHER -> <<>>

ResponsesUsage(ev) ==
    LET response == IF Has(ev, <<"response">>) THEN <<"response">> ELSE <<>>
        In(path) == At(ev, response \o path)
    IN  [NoUsage EXCEPT
            !.response_model = In(<<"model">>),
            !.input_tokens = In(<<"usage", "input_tokens">>),
            !.output_tokens = In(<<"usage", "output_tokens">>),
            !.cache_read_tokens = In(<<"usage", "input_tokens_details", "cached_tokens">>),
            !.reasoning_tokens = In(<<"usage", "output_tokens_details", "reasoning_tokens">>),
            !.stop_reason = OrElse(In(<<"status">>), In(<<"incomplete_details", "reason">>)),
            !.tool_calls = ResponsesTools(ev, response)]

ParseUsage(api, ev) ==
    LET usage == CASE api = "AnthropicMessages" -> AnthropicUsage(ev)
                   [] api = "ChatCompletions"   -> ChatUsage(ev)
                   [] api = "Responses"         -> ResponsesUsage(ev)
    IN  [usage EXCEPT !.error = UsageError(ev)]
=============================================================================
