---------------------------- MODULE RequestBody ----------------------------
(***************************************************************************)
(* Which strings of a request body are redacted                            *)
(* (crates/providers/src/request.rs): the walk over the bodies of the      *)
(* three conversation APIs.                                                *)
(***************************************************************************)
EXTENDS Json

Apis == {"AnthropicMessages", "ChatCompletions", "Responses"}

Type(json, path) == At(json, path \o <<"type">>)

\* Mutant: a content made of blocks is passed over.
InStringContent(content, p) == p = content

\* A content is a string, or blocks with a text.
InContent(content, p) == p = content \/ \E i \in Index : p = content \o <<i, "text">>

InAnthropicBlock(body, block, p) ==
    CASE Type(body, block) = <<"text">>        -> p = block \o <<"text">>
      [] Type(body, block) = <<"tool_use">>    -> IsPrefix(block \o <<"input">>, p)
      [] Type(body, block) = <<"tool_result">> -> InContent(block \o <<"content">>, p)
      [] OTHER                                 -> FALSE

InAnthropic(body, p) ==
    \/ InContent(<<"system">>, p)
    \/ \E m \in Index :
        LET content == <<"messages", m, "content">> IN
        p = content \/ \E b \in Index : InAnthropicBlock(body, Append(content, b), p)

InChatCompletions(p) ==
    \E m \in Index :
        LET message == <<"messages", m>> IN
        \/ InContent(message \o <<"content">>, p)
        \/ \E c \in Index : p = message \o <<"tool_calls", c, "function", "arguments">>

\* An item without a type is a message.
InItem(body, item, p) ==
    CASE OrElse(Type(body, item), <<"message">>) = <<"message">> -> InContent(item \o <<"content">>, p)
      [] Type(body, item) \in {<<"function_call">>, <<"custom_tool_call">>} ->
            p \in {item \o <<"arguments">>, item \o <<"input">>}
      [] Type(body, item) \in {<<"function_call_output">>, <<"custom_tool_call_output">>} ->
            InContent(item \o <<"output">>, p)
      [] OTHER -> FALSE

InResponses(body, p) ==
    \/ p \in {<<"instructions">>, <<"input">>}
    \/ \E i \in Index : InItem(body, <<"input", i>>, p)

Visited(api, body, p) ==
    CASE api = "AnthropicMessages" -> InAnthropic(body, p)
      [] api = "ChatCompletions"   -> InChatCompletions(p)
      [] api = "Responses"         -> InResponses(body, p)
      [] OTHER                     -> FALSE

\* Every visited string is given to Redact, all others stay as they are.
RedactRequestBody(api, body, Redact(_)) ==
    [p \in DOMAIN body |-> IF Visited(api, body, p) THEN Redact(body[p]) ELSE body[p]]
=============================================================================
