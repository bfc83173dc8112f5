----------------------------- MODULE MCStorage -----------------------------
EXTENDS Storage

MCColumns == <<"ttft_ms", "tool_calls">>

\* One scenario for the files, two for the logs, which start with the files in place.
MCBudgets ==
    {[starts |-> 3, crashes |-> 2, failures |-> 1, regenerations |-> 1, records |-> 0],
     [starts |-> 2, crashes |-> 0, failures |-> 0, regenerations |-> 0, records |-> 2],
     [starts |-> 1, crashes |-> 1, failures |-> 1, regenerations |-> 0, records |-> 2]}

MCInit == Init /\ (budget.records > 0 => schema.version = Latest /\ files.cert # None)
MCSpec == MCInit /\ [][Next]_vars

Connection ==
    [duration |-> 1, agent |-> "claude", provider |-> "anthropic", api |-> "other", status |-> None,
     error |-> "refused", streamed |-> FALSE, ttft |-> None, session |-> None, events |-> {},
     body |-> None, call |-> None]

Call ==
    [model |-> <<"gpt-5", "codex">>, response |-> None, input |-> 3, output |-> 2, cacheRead |-> 1,
     cacheWrite |-> None, reasoning |-> 1, stop |-> "stop", tools |-> <<"shell", "shell">>]

Turn ==
    [duration |-> 1, agent |-> "codex", provider |-> "openai", api |-> "responses", status |-> 200,
     error |-> None, streamed |-> TRUE, ttft |-> 1, session |-> "s", body |-> "text", call |-> Call,
     events |-> {[entity |-> "email", count |-> 2], [entity |-> "phone", count |-> 1]}]

Refused ==
    [Turn EXCEPT !.agent = "claude", !.provider = "anthropic", !.status = 429, !.duration = 0,
     !.events = {[entity |-> "email", count |-> 1]}, !.body = None, !.session = None,
     !.call = [@ EXCEPT !.response = <<"claude">>, !.input = None, !.output = None, !.tools = <<>>]]

MCContents == {Connection, Turn, Refused}

MCPrices ==
    <<[prefix |-> <<"gpt-5">>, input |-> 1, output |-> 4, cacheRead |-> 0, cacheWrite |-> 0],
      [prefix |-> <<"gpt-5", "codex">>, input |-> 2, output |-> 8, cacheRead |-> 1, cacheWrite |-> 0]>>
=============================================================================
