----------------------------- MODULE MCWsRelay -----------------------------
(* Connections of the three APIs with and without restoration, and one that is not   *)
(* relayed as messages; bodies and events as the tests of request.rs, sse.rs and     *)
(* usage.rs have them, with an alias cut between two events.                         *)
EXTENDS WsRelay, TLC

MCIndices == <<"0", "1">>
MCSessions ==
    [api : Apis, restore : BOOLEAN, transform : {TRUE}]
        \cup {[api |-> "Responses", restore |-> TRUE, transform |-> FALSE]}

W(word) == <<word>>
Said == <<"text", "original">>
At1(prefix, json) == [p \in {prefix \o q : q \in DOMAIN json} |-> json[SubSeq(p, Len(prefix) + 1, Len(p))]]

\* In each body the sensitive value is in places for texts of the user and in places that are
\* not (the model, a tool, an identifier).  The places are those that the APIs have, whether or
\* not the walk goes there: user lists all for texts of the user, missed those of them that it
\* passes over, in a document or in the output of the local shell (whose calls usage.rs counts).
AnthropicBody ==
    [json |->
        (<<"model">> :> Said) @@ (<<"system", "0", "type">> :> W("text")) @@
        (<<"system", "0", "text">> :> Said) @@
        (<<"messages", "0", "role">> :> W("user")) @@ (<<"messages", "0", "content">> :> Said) @@
        At1(<<"messages", "1", "content", "0">>,
            (<<"type">> :> W("tool_use")) @@ (<<"id">> :> Said) @@ (<<"name">> :> Said) @@
            (<<"input", "path">> :> Said) @@ (<<"input", "lines", "0">> :> Said)) @@
        At1(<<"messages", "1", "content", "1">>,
            (<<"type">> :> W("tool_result")) @@ (<<"tool_use_id">> :> Said) @@
            (<<"content", "0", "type">> :> W("text")) @@ (<<"content", "0", "text">> :> Said)),
     user |-> {<<"system", "0", "text">>, <<"messages", "0", "content">>,
               <<"messages", "1", "content", "0", "input", "path">>,
               <<"messages", "1", "content", "0", "input", "lines", "0">>,
               <<"messages", "1", "content", "1", "content", "0", "text">>},
     missed |-> {}]
AnthropicShort ==
    [json |-> (<<"system">> :> Said) @@
              At1(<<"messages", "0", "content", "0">>, (<<"type">> :> W("text")) @@ (<<"text">> :> Said)) @@
              At1(<<"messages", "0", "content", "1">>,
                  (<<"type">> :> W("tool_result")) @@ (<<"content">> :> Said)),
     user |-> {<<"system">>, <<"messages", "0", "content", "0", "text">>,
               <<"messages", "0", "content", "1", "content">>},
     missed |-> {}]
AnthropicDocument ==
    [json |-> At1(<<"messages", "0", "content", "0">>,
                  (<<"type">> :> W("document")) @@ (<<"title">> :> Said) @@
                  (<<"source", "type">> :> W("text")) @@ (<<"source", "data">> :> Said)) @@
              At1(<<"messages", "0", "content", "1">>, (<<"type">> :> W("text")) @@ (<<"text">> :> Said)),
     user |-> {<<"messages", "0", "content", "0", "title">>,
               <<"messages", "0", "content", "0", "source", "data">>,
               <<"messages", "0", "content", "1", "text">>},
     missed |-> {<<"messages", "0", "content", "0", "title">>,
                 <<"messages", "0", "content", "0", "source", "data">>}]

ChatBody ==
    [json |->
        (<<"model">> :> Said) @@ (<<"messages", "0", "content">> :> Said) @@
        (<<"messages", "1", "content", "0", "type">> :> W("text")) @@
        (<<"messages", "1", "content", "0", "text">> :> Said) @@
        (<<"messages", "1", "tool_calls", "1", "id">> :> Said) @@
        (<<"messages", "1", "tool_calls", "1", "function", "name">> :> Said) @@
        (<<"messages", "1", "tool_calls", "1", "function", "arguments">> :> Said),
     user |-> {<<"messages", "0", "content">>, <<"messages", "1", "content", "0", "text">>,
               <<"messages", "1", "tool_calls", "1", "function", "arguments">>},
     missed |-> {}]

ResponsesBody ==
    [json |->
        (<<"type">> :> <<"response", "create">>) @@ (<<"model">> :> Said) @@
        (<<"instructions">> :> Said) @@
        (<<"input", "0", "role">> :> W("user")) @@
        (<<"input", "0", "content", "0", "type">> :> W("input_text")) @@
        (<<"input", "0", "content", "0", "text">> :> Said) @@
        At1(<<"input", "1">>,
            (<<"type">> :> W("function_call")) @@ (<<"name">> :> Said) @@ (<<"call_id">> :> Said) @@
            (<<"arguments">> :> Said)),
     user |-> {<<"instructions">>, <<"input", "0", "content", "0", "text">>,
               <<"input", "1", "arguments">>},
     missed |-> {}]
ResponsesShort ==
    [json |-> (<<"type">> :> <<"response", "create">>) @@
              At1(<<"input", "0">>, (<<"type">> :> W("function_call_output")) @@ (<<"call_id">> :> Said) @@
                                    (<<"output">> :> Said)) @@
              At1(<<"input", "1">>, (<<"type">> :> W("custom_tool_call")) @@ (<<"input">> :> Said)),
     user |-> {<<"input", "0", "output">>, <<"input", "1", "input">>},
     missed |-> {}]
ResponsesShell ==
    [json |-> (<<"type">> :> <<"response", "create">>) @@
              At1(<<"input", "0">>, (<<"type">> :> W("local_shell_call_output")) @@
                                    (<<"call_id">> :> Said) @@ (<<"output">> :> Said)) @@
              At1(<<"input", "1">>, (<<"type">> :> W("message")) @@ (<<"content">> :> Said)),
     user |-> {<<"input", "0", "output">>, <<"input", "1", "content">>},
     missed |-> {<<"input", "0", "output">>}]
Bare == [json |-> (<<"input">> :> Said), user |-> {<<"input">>}, missed |-> {}]
Cancel == [json |-> (<<"type">> :> <<"response", "cancel">>) @@ (<<"reason">> :> Said),
           user |-> {}, missed |-> {}]

MCBodies == [AnthropicMessages |-> {AnthropicBody, AnthropicShort, AnthropicDocument, Cancel},
             ChatCompletions |-> {ChatBody, Cancel},
             Responses |-> {ResponsesBody, ResponsesShort, ResponsesShell, Bare, Cancel}]

-----------------------------------------------------------------------------
Texts(f) == [k \in Keys |-> IF k \in DOMAIN f THEN f[k] ELSE <<>>]

o0 == <<"0", "0", "output_text">>
o1 == <<"1", "0", "arguments">>
b0 == <<"0">>
b1 == <<"1">>
c0t1 == <<"0", "t", "1">>
MCKeys == {o0, o1, b0, b1, c0t1}

Delta(o, kind, text) == (<<"type">> :> <<"response", kind, "delta">>) @@
                        (<<"output_index">> :> W(o)) @@ (<<"delta">> :> text)
Completed == (<<"type">> :> <<"response", "completed">>) @@
             At1(<<"response">>, (<<"model">> :> W("gpt")) @@ (<<"status">> :> W("completed")) @@
                 (<<"usage", "input_tokens">> :> W("3")) @@ (<<"usage", "output_tokens">> :> W("4")) @@
                 (<<"usage", "output_tokens_details", "reasoning_tokens">> :> W("1")) @@
                 (<<"output", "0", "type">> :> W("function_call")) @@ (<<"output", "0", "name">> :> W("shell")))

\* A text and the arguments of a tool call.
Whole == [events |-> <<Delta("0", "output_text", <<"text", "start">>),
                       (<<"type">> :> <<"response", "output_item", "added">>) @@
                       (<<"item", "type">> :> W("function_call")) @@ (<<"item", "name">> :> W("shell")),
                       Delta("1", "arguments", Alias),
                       Delta("0", "output_text", <<"end">>),
                       Completed>>,
          text |-> Texts((o0 :> Said) @@ (o1 :> Original)),
          usage |-> [NoUsage EXCEPT !.response_model = W("gpt"), !.stop_reason = W("completed"),
                        !.input_tokens = W("3"), !.output_tokens = W("4"), !.reasoning_tokens = W("1"),
                        !.tool_calls = <<W("shell")>>]]
\* A text that ends in what might become an alias.
CutShort == [events |-> <<Delta("0", "output_text", <<"start">>),
                          (<<"type">> :> <<"response", "incomplete">>) @@
                          (<<"response", "incomplete_details", "reason">> :> W("max"))>>,
             text |-> Texts(o0 :> <<"start">>),
             usage |-> [NoUsage EXCEPT !.stop_reason = W("max")]]
Refusal == [events |-> <<(<<"type">> :> <<"error">>) @@ (<<"error", "message">> :> W("quota"))>>,
            text |-> Texts(<<>>),
            usage |-> [NoUsage EXCEPT !.error = W("quota")]]

AnthropicDelta(i, type, slot, text) ==
    (<<"type">> :> W("content_block_delta")) @@ (<<"index">> :> W(i)) @@
    (<<"delta", "type">> :> W(type)) @@ (<<"delta", slot>> :> text)
AnthropicAnswer ==
    [events |-> <<(<<"type">> :> W("message_start")) @@
                  At1(<<"message">>, (<<"model">> :> W("claude")) @@ (<<"usage", "input_tokens">> :> W("3")) @@
                                     (<<"usage", "output_tokens">> :> W("1"))),
                  AnthropicDelta("0", "text_delta", "text", <<"text", "start">>),
                  AnthropicDelta("0", "text_delta", "text", <<"end", "start">>),
                  (<<"type">> :> W("content_block_stop")) @@ (<<"index">> :> W("0")),
                  (<<"type">> :> W("content_block_start")) @@ (<<"index">> :> W("1")) @@
                  (<<"content_block", "type">> :> W("tool_use")) @@ (<<"content_block", "name">> :> W("Bash")),
                  AnthropicDelta("1", "input_json_delta", "partial_json", <<"start">>),
                  AnthropicDelta("1", "input_json_delta", "partial_json", <<"end">>),
                  (<<"type">> :> W("message_delta")) @@ (<<"delta", "stop_reason">> :> W("tool_use")) @@
                  (<<"usage", "output_tokens">> :> W("9"))>>,
     text |-> Texts((b0 :> <<"text", "original", "start">>) @@ (b1 :> Original)),
     usage |-> [NoUsage EXCEPT !.response_model = W("claude"), !.input_tokens = W("3"),
                   !.output_tokens = W("9"), !.stop_reason = W("tool_use"), !.tool_calls = <<W("Bash")>>]]

Choice(json) == At1(<<"choices", "0">>, json)
ChatAnswer ==
    [events |-> <<Choice(<<"delta", "content">> :> <<"text", "start">>) @@ (<<"model">> :> W("gpt")),
                  Choice(At1(<<"delta", "tool_calls", "0">>, (<<"index">> :> W("1")) @@
                             (<<"function", "name">> :> W("weather")) @@ (<<"function", "arguments">> :> <<"start">>))),
                  Choice((<<"delta", "content">> :> <<"end">>)),
                  Choice(At1(<<"delta", "tool_calls", "0">>, (<<"index">> :> W("1")) @@
                             (<<"function", "arguments">> :> <<"end", "start">>))),
                  Choice((<<"finish_reason">> :> W("stop"))),
                  (<<"usage", "prompt_tokens">> :> W("3")) @@ (<<"usage", "completion_tokens">> :> W("4"))>>,
     text |-> Texts((b0 :> Said) @@ (c0t1 :> <<"original", "start">>)),
     usage |-> [NoUsage EXCEPT !.response_model = W("gpt"), !.input_tokens = W("3"),
                   !.output_tokens = W("4"), !.stop_reason = W("stop"), !.tool_calls = <<W("weather")>>]]

MCAnswers == [AnthropicMessages |-> {AnthropicAnswer}, ChatCompletions |-> {ChatAnswer},
              Responses |-> {Whole, CutShort, Refusal}]

\* What the theorems about the answers assume of them.
ASSUME AnswersReport /\ AnswersArrive
=============================================================================
