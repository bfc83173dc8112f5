------------------------------ MODULE Exchange ------------------------------
(***************************************************************************)
(* HTTP exchanges through the proxy, from the request line to the row in   *)
(* the log (crates/proxy-core/src/pipeline.rs and body.rs).  Each exchange *)
(* is a task that the client may drop whenever it waits; they share the    *)
(* settings, the placeholder table and the sink of the records.            *)
(*                                                                         *)
(* A request carries one sensitive value, which is also the name of its    *)
(* alias.  A response is made of units: "text", the "start" and the "end"  *)
(* of the alias, which SseRestorer may have to join, and the "usage" and   *)
(* the "fault" that the provider reports in its JSON.                      *)
(***************************************************************************)
EXTENDS Integers, Sequences, FiniteSets

CONSTANTS
    Requests,   \* the requests
    Values,     \* the sensitive values in them
    Cap,        \* capacity of the placeholder table
    Bodies,     \* the buffered responses: sequences of units, the alias by itself or none of it
    MaxChunks,  \* bound: chunks of a streamed response
    None

Alias == <<"start", "end">>
Units == {"text", "start", "end", "usage", "fault"}

VARIABLES
    restore,   \* restore_responses of the configuration in force
    table,     \* the values that have an alias, oldest first
    lost,      \* history: the requests whose alias left the table before their response was through
    exchange,  \* per request, what its task knows
    logs       \* per request, the records sent to the sink

vars == <<restore, table, lost, exchange, logs>>

\* RequestLog.
Log == [error : BOOLEAN, warned : BOOLEAN, bytes : Nat, restored : Nat, usage : BOOLEAN]
EmptyLog == [error |-> FALSE, warned |-> FALSE, bytes |-> 0, restored |-> 0, usage |-> FALSE]

ASSUME ExchangeAssumption ==
    /\ Cap \in Nat \ {0} /\ MaxChunks \in Nat
    /\ Bodies \subseteq Seq(Units)
    /\ \A body \in Bodies \ {Alias} : \A i \in 1 .. Len(body) - 1 : SubSeq(body, i, i + 1) # Alias
    /\ None \notin Log /\ None \notin {"alias", "raw"}

\* What a task knows: what it serves, for which value and under which setting; what it sent
\* on; the record while it is under way; of a stream, the restorer's held tail and its
\* count, and whether the collector has met a usage; what the client got.
Exchange == [phase : {"new", "reading", "connecting", "buffering", "streaming", "over"},
             chat : BOOLEAN, value : Values \cup {None}, restore : BOOLEAN,
             sent : {None, "alias", "raw"}, log : Log \cup {None}, carry : Seq(Units),
             restored : Nat, usage : BOOLEAN,
             client : Seq(Units \cup {"original"}), chunks : 0 .. MaxChunks, left : BOOLEAN]

NewExchange == [phase |-> "new", chat |-> FALSE, value |-> None, restore |-> FALSE, sent |-> None,
                log |-> None, carry |-> <<>>, restored |-> 0, usage |-> FALSE,
                client |-> <<>>, chunks |-> 0, left |-> FALSE]

Init ==
    /\ restore \in BOOLEAN
    /\ table = <<>>
    /\ lost = {}
    /\ exchange = [x \in Requests |-> NewExchange]
    /\ logs = [x \in Requests |-> <<>>]

In(x, phase) == exchange[x].phase = phase
-----------------------------------------------------------------------------
\* The exchange goes on with the given fields changed.
Continue(x, e) == exchange' = [exchange EXCEPT ![x] = e]

\* LogFinalizer: the record is sent once, when the exchange ends or is dropped.
Finished(e) == [e EXCEPT !.phase = "over", !.log = None, !.carry = <<>>]
Record(x, log) == logs' = IF log = None THEN logs ELSE [logs EXCEPT ![x] = Append(@, log)]
End(x, e) == Record(x, e.log) /\ Continue(x, Finished(e))

\* A PAC file, the certificate, the health check or an unknown prefix: answered at once,
\* without a record.
Local(x) ==
    /\ In(x, "new")
    /\ Continue(x, [NewExchange EXCEPT !.phase = "over"])
    /\ UNCHANGED <<restore, table, lost, logs>>

\* chat: a POST of JSON to a conversation API, the only requests that are rewritten.
Handle(x, chat, v) ==
    /\ In(x, "new")
    /\ Continue(x, [NewExchange EXCEPT
            !.phase = "reading", !.chat = chat, !.value = v, !.restore = restore])
    /\ UNCHANGED <<restore, table, lost, logs>>

Known(v) == \E i \in DOMAIN table : table[i] = v

\* placeholder_for: a new value gets an alias, and the oldest one gives way, whichever
\* response may still hold it.
Issue(v) ==
    /\ table' = IF Known(v) THEN table
                ELSE IF Len(table) = Cap THEN Append(Tail(table), v) ELSE Append(table, v)
    /\ lost' = lost \cup {y \in Requests :
                  /\ exchange[y].sent = "alias" /\ ~In(y, "over")
                  /\ ~ \E i \in DOMAIN table' : table'[i] = exchange[y].value}

Redact(x) ==
    LET e == exchange[x] IN
    /\ In(x, "reading") /\ e.chat
    /\ Issue(e.value)
    /\ Continue(x, [e EXCEPT !.phase = "connecting", !.sent = "alias", !.log = EmptyLog])
    /\ UNCHANGED <<restore, logs>>

\* Other requests are forwarded as they are; a chat body that cannot be decoded or parsed
\* too, with a warning.
Forward(x) ==
    LET e == exchange[x] IN
    /\ In(x, "reading")
    /\ Continue(x, [e EXCEPT !.phase = "connecting", !.sent = "raw",
            !.log = [EmptyLog EXCEPT !.warned = e.chat]])
    /\ UNCHANGED <<restore, table, lost, logs>>

\* The body of the request cannot be read, or no request to the upstream can be built from
\* it: there is no LogFinalizer yet.
Fails(x) ==
    /\ In(x, "reading")
    /\ UNCHANGED <<table, lost>> \/ (exchange[x].chat /\ Issue(exchange[x].value))
    /\ End(x, exchange[x])
    /\ UNCHANGED restore
-----------------------------------------------------------------------------
\* Mutant: an upstream that cannot be reached is reported to the client only.
UpstreamFailsUnlogged(x) ==
    /\ In(x, "connecting") \/ In(x, "buffering")
    /\ Continue(x, Finished(exchange[x]))
    /\ UNCHANGED <<restore, table, lost, logs>>

UpstreamFails(x) ==
    /\ In(x, "connecting") \/ In(x, "buffering")
    /\ End(x, [exchange[x] EXCEPT !.log.error = TRUE])
    /\ UNCHANGED <<restore, table, lost>>

\* The headers of the response: a chat response that is not a stream of events is buffered.
UpstreamResponds(x, sse) ==
    LET e == exchange[x] IN
    /\ In(x, "connecting")
    /\ Continue(x, [e EXCEPT !.phase = IF e.chat /\ ~sse THEN "buffering" ELSE "streaming",
            !.log.warned = @ \/ (e.chat /\ ~e.restore)])
    /\ UNCHANGED <<restore, table, lost, logs>>

Restores(e) == e.chat /\ e.restore

\* restore_text of one alias at most.
Restore(e, text) == IF text = Alias /\ Known(e.value) THEN <<"original">> ELSE text
Originals(text) == Cardinality({i \in DOMAIN text : text[i] = "original"})

Deliver(e, text) == [e EXCEPT !.client = @ \o text, !.log.bytes = @ + Len(text)]

\* parse_usage_json, the collector: what the provider reports of the tokens or of an error.
Has(text, unit) == \E i \in DOMAIN text : text[i] = unit
Reports(text) == Has(text, "usage") \/ Has(text, "fault")

\* The restored body is parsed: an error that the provider reports is one of the record.
Buffered(x, text) ==
    LET e == exchange[x]
        restored == IF Restores(e) THEN Restore(e, text) ELSE text IN
    /\ In(x, "buffering")
    /\ End(x, [Deliver(e, restored) EXCEPT !.log.restored = Originals(restored),
            !.log.usage = Reports(restored), !.log.error = Has(restored, "fault")])
    /\ UNCHANGED <<restore, table, lost>>
-----------------------------------------------------------------------------
\* Mutant: each chunk is restored by itself.
ChunkAlone(x, unit) ==
    /\ In(x, "streaming") /\ exchange[x].chunks < MaxChunks
    /\ Continue(x, [Deliver(exchange[x], <<unit>>) EXCEPT !.chunks = @ + 1])
    /\ UNCHANGED <<restore, table, lost, logs>>

\* A chunk of one unit.  The collector of a chat response reads it as it came; the restorer
\* keeps the start of an alias back and counts what it puts back.
Chunk(x, unit) ==
    LET e == exchange[x]
        text == IF Restores(e) THEN Restore(e, Append(e.carry, unit)) ELSE <<unit>>
        hold == IF Restores(e) /\ unit = "start" THEN 1 ELSE 0 IN
    /\ In(x, "streaming") /\ e.chunks < MaxChunks
    /\ Continue(x, [Deliver(e, SubSeq(text, 1, Len(text) - hold)) EXCEPT
            !.chunks = @ + 1, !.carry = SubSeq(text, Len(text) - hold + 1, Len(text)),
            !.restored = @ + Originals(text), !.usage = @ \/ (e.chat /\ Reports(<<unit>>))])
    /\ UNCHANGED <<restore, table, lost, logs>>

\* Mutant: the record is closed before the tail is counted.
FinalizeUncounted(e) ==
    [e EXCEPT !.log.restored = IF Restores(e) THEN e.restored ELSE @,
              !.log.usage = IF e.usage THEN TRUE ELSE @]

\* finalize: the tail is counted, and what the restorer and the collector, if there are any,
\* have counted and met goes into the record.
Finalize(e) ==
    [e EXCEPT !.log.bytes = @ + Len(e.carry),
              !.log.restored = IF Restores(e) THEN e.restored ELSE @,
              !.log.usage = IF e.usage THEN TRUE ELSE @]

StreamEnds(x) ==
    LET e == exchange[x] IN
    /\ In(x, "streaming")
    /\ End(x, [Finalize(e) EXCEPT !.client = @ \o e.carry])
    /\ UNCHANGED <<restore, table, lost>>

\* The upstream breaks off: the tail is dropped.
StreamBreaks(x) ==
    /\ In(x, "streaming")
    /\ End(x, [Finalize(exchange[x]) EXCEPT !.log.error = TRUE])
    /\ UNCHANGED <<restore, table, lost>>

\* The client goes away: hyper drops the task or the body of the response.
Leave(x) ==
    /\ exchange[x].phase \in {"reading", "connecting", "buffering", "streaming"}
    /\ End(x, [exchange[x] EXCEPT !.left = TRUE])
    /\ UNCHANGED <<restore, table, lost>>
-----------------------------------------------------------------------------
\* The user changes the settings: exchanges under way keep the ones they began with.
UpdateConfig ==
    /\ restore' = ~restore
    /\ UNCHANGED <<table, lost, exchange, logs>>

Next ==
    \/ \E x \in Requests :
        \/ Local(x)
        \/ \E chat \in BOOLEAN, v \in Values : Handle(x, chat, v)
        \/ Redact(x) \/ Forward(x) \/ Fails(x)
        \/ UpstreamFails(x)
        \/ \E sse \in BOOLEAN : UpstreamResponds(x, sse)
        \/ \E text \in Bodies : Buffered(x, text)
        \/ \E unit \in Units : Chunk(x, unit)
        \/ StreamEnds(x) \/ StreamBreaks(x)
        \/ Leave(x)
    \/ UpdateConfig

Spec == Init /\ [][Next]_vars
-----------------------------------------------------------------------------
\* The table stays within its capacity, and the client gets units and originals.
TypeOK ==
    /\ restore \in BOOLEAN
    /\ table \in Seq(Values) /\ Len(table) <= Cap
    /\ lost \subseteq Requests
    /\ exchange \in [Requests -> Exchange]
    /\ logs \in [Requests -> Seq(Log)]

\* Every exchange that reached the point of being forwarded leaves exactly one record when
\* it is over, on each of its ways out: failures before and after the headers, a stream that
\* ends or breaks, a client that leaves (finish and Drop of LogFinalizer); others leave none.
LoggedOnce ==
    \A x \in Requests :
        Len(logs[x]) = IF In(x, "over") /\ exchange[x].sent # None THEN 1 ELSE 0

\* The record of an exchange that was read to its end tells what the client got: its size,
\* how many values were put back, and whether the provider reported a usage in it.
RecordTellsDelivery ==
    \A x \in Requests : \A i \in DOMAIN logs[x] :
        LET log == logs[x][i]
            e == exchange[x] IN
        ~log.error /\ ~e.left =>
            /\ log.bytes = Len(e.client)
            /\ log.restored = Originals(e.client)
            /\ log.usage <=> e.chat /\ Reports(e.client)

\* The client sees an original only if it asked for it when the request came, and then never
\* an alias of its own request, unless other requests pushed that alias out of the table
\* before the response was through.
RestoredAsAsked ==
    \A x \in Requests :
        LET e == exchange[x] IN
        /\ ~Restores(e) => Originals(e.client) = 0
        /\ Restores(e) /\ e.sent = "alias" /\ x \notin lost =>
              \A i \in 1 .. Len(e.client) - 1 : SubSeq(e.client, i, i + 1) # Alias

\* A chat request that went out as it came has a warning in its record.
RawIsWarned ==
    \A x \in Requests : \A i \in DOMAIN logs[x] :
        exchange[x].chat /\ exchange[x].sent = "raw" => logs[x][i].warned
=============================================================================
