------------------------------ MODULE WsRelay ------------------------------
(***************************************************************************)
(* A WebSocket connection through the proxy, from the upgrade to the last  *)
(* record (crates/proxy-core/src/ws.rs, relay_upgrade in pipeline.rs).     *)
(* The connection has a record, and every request of the model that the    *)
(* client sends over it, a turn, has one of its own.  One restorer serves  *)
(* all the turns.  The relay handles one message at a time, but the two    *)
(* sides send when they like: the client may go on while the answer to its *)
(* last request is still arriving.                                         *)
(*                                                                         *)
(* Texts have one sensitive value, "original", whose alias two events may  *)
(* share between them.                                                     *)
(***************************************************************************)
EXTENDS RequestBody, ResponseEvents, FiniteSets

CONSTANTS
    Sessions,   \* [api, restore, transform]: what the connection may be
    Bodies,     \* per API, the JSON texts of the client: [json, user, the paths of user texts,
                \* missed, those of them that are known not to be redacted]
    Answers,    \* per API, the answers: [events, text, what its blocks say restored, usage]
    Keys,       \* the keys of the blocks of an answer
    MaxTurns    \* bound: requests over the connection

Original == <<"original">>
Alias == <<"start", "end">>

ASSUME RelayAssumption ==
    /\ MaxTurns \in Nat \ {0} /\ IsFiniteSet(Keys)
    /\ \A s \in Sessions : s.api \in Apis /\ s.restore \in BOOLEAN /\ s.transform \in BOOLEAN
    /\ \A api \in Apis :
        /\ None \notin Answers[api]
        /\ \A a \in Answers[api] : a.events \in Seq(ToSet(a.events)) /\ a.events # <<>>

Turns == 1 .. MaxTurns

VARIABLES
    session,    \* what the connection is
    phase,      \* where relay_upgrade is
    fin,        \* the record of the connection, until it is sent
    current,    \* the record of the turn that is open, or None
    pending,    \* the tails that the restorer holds, by key
    restored,   \* how many aliases the restorer has put back so far
    logs,       \* the records that were sent to the sink
    failure,    \* why the relay ends: None or an error
    request,    \* the last text of the client and what became of it
    asked,      \* how many turns there are
    answering,  \* the turn the upstream is answering, 0 for none
    answers,    \* turn -> its answer, or None
    place,      \* turn -> how many events of its answer have come
    delivered,  \* turn -> key -> the text the client got with the answer
    orderly,    \* every answer was complete before the client or the upstream went on
    answered,   \* the turns that were answered in full while that held
    plain       \* bound: one text that is not JSON

relay == <<phase, fin, current, pending, restored, logs, failure>>
peers == <<asked, answering, answers, place, delivered, orderly, answered, plain>>
vars == <<session, relay, request, peers>>

\* RequestLog, the record of turn 0 being that of the connection.
Template(s) ==
    [turn |-> 0, status |-> None, error |-> None, warned |-> ~s.transform \/ ~s.restore,
     usage |-> None, bytes |-> 0, restored |-> 0]

Init ==
    /\ session \in Sessions
    /\ phase = "connecting"
    /\ fin = Template(session)
    /\ current = None /\ restored = 0 /\ logs = <<>> /\ failure = None /\ request = None
    /\ pending = [k \in Keys |-> None]
    /\ asked = 0 /\ answering = 0
    /\ answers = [t \in Turns |-> None]
    /\ place = [t \in Turns |-> 0]
    /\ delivered = [t \in Turns |-> [k \in Keys |-> <<>>]]
    /\ orderly = TRUE /\ answered = {} /\ plain = FALSE
-----------------------------------------------------------------------------
\* relay_upgrade.  LogFinalizer sends the record of the connection when it is finished or
\* dropped.
FinishConnection(record) ==
    /\ phase' = "over"
    /\ fin' = None
    /\ logs' = Append(logs, record)
    /\ UNCHANGED <<session, current, pending, restored, failure, request, peers>>

\* The upstream cannot be reached, breaks off the handshake, or the client goes away.
Dropped ==
    /\ phase \in {"connecting", "upgrading"}
    /\ FinishConnection(fin)

\* Any other answer than 101, whether or not its body can be read to the end.
Refused ==
    /\ phase = "connecting"
    /\ FinishConnection([fin EXCEPT !.status = 400])

Switch ==
    /\ phase = "connecting"
    /\ phase' = "upgrading"
    /\ fin' = [fin EXCEPT !.status = 101]
    /\ UNCHANGED <<session, current, pending, restored, logs, failure, request, peers>>

Upgraded ==
    /\ phase = "upgrading"
    /\ phase' = IF session.transform THEN "relaying" ELSE "tunnel"
    /\ UNCHANGED <<session, fin, current, pending, restored, logs, failure, request, peers>>

TunnelEnds(error) ==
    /\ phase = "tunnel"
    /\ FinishConnection([fin EXCEPT !.error = error])
-----------------------------------------------------------------------------
\* finish_turn: the record of a turn that ends, for the reason given.  What the API
\* reported as an error comes last.
Ended(turn, error) ==
    [turn EXCEPT
        !.status = IF error = None THEN 200 ELSE 502,
        !.error = IF turn.usage = None THEN error ELSE OrElse(turn.usage.error, error)]

\* Mutant: the finalizer sends the record again when it is dropped.
FinishTurnTwice(turn, error) ==
    IF turn = None THEN logs ELSE logs \o <<Ended(turn, error), Ended(turn, error)>>

FinishTurn(turn, error) == IF turn = None THEN logs ELSE Append(logs, Ended(turn, error))

IsRequest(json) ==
    IF Type(json, <<>>) = None
    THEN Has(json, <<"input">>) \/ Has(json, <<"messages">>)
    ELSE Type(json, <<>>) = <<"response", "create">>

\* redact_text replaces every sensitive value by its alias.
RedactText(text) ==
    FlattenSeq([i \in DOMAIN text |-> IF text[i] = Original[1] THEN Alias ELSE <<text[i]>>])

\* The text could be sent on, or the relay ends.
Sent(ok) == phase' = IF ok THEN "relaying" ELSE "closing"

\* on_client_text for a request: the last turn ends, although it may have had no terminal
\* event, and the next one begins.
ClientRequest(body, ok) ==
    /\ phase = "relaying" /\ asked < MaxTurns
    /\ IsRequest(body.json)
    /\ logs' = FinishTurn(current, None)
    /\ current' = [Template(session) EXCEPT !.turn = asked + 1]
    /\ request' = [of |-> body, to |-> RedactRequestBody(session.api, body.json, RedactText)]
    /\ asked' = asked + 1
    /\ orderly' = (orderly /\ asked \in answered \cup {0})
    /\ Sent(ok)
    /\ UNCHANGED <<session, fin, pending, restored, failure, answering, answers, place, delivered,
                   answered, plain>>

\* Any other text.
ClientText(body, ok) ==
    /\ phase = "relaying"
    /\ ~IsRequest(body.json)
    /\ request' = [of |-> body, to |-> body.json]
    /\ Sent(ok)
    /\ UNCHANGED <<session, fin, current, pending, restored, logs, failure, peers>>
-----------------------------------------------------------------------------
\* The restorer works on the texts that an event carries.
Live == {Alias}
Sse == INSTANCE SseRestorer WITH
    Aliases <- Live, Original <- [a \in Live |-> Original], PREFIX <- <<"PG_">>,
    EntityChars <- {}, HexChars <- {}, HASH_HEX_LEN <- 1,
    Events <- {}, Tables <- {Live}, MaxEvents <- 0, live <- Live, events <- 0,
    received <- delivered, ended <- {}, finished <- FALSE

CarriersOf(api, ev) ==
    LET cs == Carriers(api, ev) IN
    [i \in DOMAIN cs |-> [key |-> cs[i].key, text |-> ev[cs[i].pointer]]]

Aliased(text) == Cardinality({i \in 1 .. Len(text) - 1 : SubSeq(text, i, i + 1) = Alias})
Originals(text) == Cardinality({i \in DOMAIN text : text[i] = Original[1]})
TextsOf(cs) == FlattenSeq([i \in DOMAIN cs |-> cs[i].text])
Size(frames) == Len(FlattenSeq([i \in DOMAIN frames |-> TextsOf(frames[i])]))

\* restore_json_event: the event with its texts restored and the tails held then.
Restoring(cs) ==
    FoldLeft(LAMBDA acc, i : Sse!Carry(acc, i), [event |-> cs, pending |-> pending],
             [i \in DOMAIN cs |-> i])

\* How many aliases are put back: those of the tails joined with the texts of the event.
PutBack(cs) ==
    FoldLeft(LAMBDA n, i : n + Aliased(
                 (IF pending[cs[i].key] = None THEN <<>> ELSE pending[cs[i].key].tail) \o cs[i].text),
             0, [i \in DOMAIN cs |-> i])

IsTerminal(ev) ==
    EventType(ev) \in {<<"response", "completed">>, <<"response", "failed">>,
                       <<"response", "incomplete">>, <<"error">>}

\* Mutant: the usage of an event replaces what was noted before.
ObserveLast(turn, frames, usage, count) ==
    IF turn = None THEN None
    ELSE [turn EXCEPT !.bytes = @ + Size(frames), !.restored = count, !.usage = usage]

\* What on_server_text notes in the record of the open turn.
Observe(turn, frames, usage, count) ==
    IF turn = None THEN None
    ELSE [turn EXCEPT
            !.bytes = @ + Size(frames),
            !.restored = count,
            !.usage = IF usage = NoUsage THEN @ ELSE Merge(OrElse(@, NoUsage), usage)]

\* The client gets the first n frames.
Deliver(t, frames, n) ==
    delivered' = [delivered EXCEPT ![t] =
        [k \in Keys |-> @[k] \o Sse!TextOfAll(SubSeq(frames, 1, n), k)]]

\* The upstream answers the turns in their order.
Begin(answer) ==
    LET t == Cardinality({u \in Turns : answers[u] # None}) + 1 IN
    /\ phase = "relaying" /\ answering = 0 /\ t <= asked
    /\ answering' = t
    /\ answers' = [answers EXCEPT ![t] = answer]
    /\ UNCHANGED <<session, relay, request, asked, place, delivered, orderly, answered, plain>>

\* Mutant: only an error of the API ends the blocks of an answer.
FramesOnError(ev) ==
    LET acc == Restoring(CarriersOf(session.api, ev))
        keys == IF EventType(ev) = <<"error">> THEN Keys ELSE {} IN
    {[frames |-> [i \in DOMAIN order |-> Sse!Flushed(acc.pending[order[i]])] \o <<acc.event>>,
      pending |-> Sse!FlushPending(acc.pending, keys),
      count |-> restored + PutBack(CarriersOf(session.api, ev))] :
        order \in Sse!FlushOrders(acc.pending, keys)}

\* The frames that an event becomes, and the tails held after it.
Frames(ev) ==
    LET cs == CarriersOf(session.api, ev)
        acc == Restoring(cs)
        keys == Sse!Terminated(TerminatorOf(session.api, ev)) IN
    IF session.restore
    THEN {[frames |-> [i \in DOMAIN order |-> Sse!Flushed(acc.pending[order[i]])] \o <<acc.event>>,
           pending |-> Sse!FlushPending(acc.pending, keys), count |-> restored + PutBack(cs)] :
             order \in Sse!FlushOrders(acc.pending, keys)}
    ELSE {[frames |-> <<cs>>, pending |-> pending, count |-> restored]}

\* on_server_text for the next event of the answer; the client gets n of its frames.
ServerText(n) ==
    LET ev == answers[answering].events[place[answering] + 1]
        last == place[answering] + 1 = Len(answers[answering].events) IN
    /\ phase = "relaying" /\ answering # 0
    /\ \E out \in Frames(ev) :
        LET turn == Observe(current, out.frames, ParseUsage(session.api, ev), out.count) IN
        /\ n <= Len(out.frames)
        /\ Sent(n = Len(out.frames))
        /\ Deliver(answering, out.frames, n)
        /\ pending' = out.pending
        /\ restored' = out.count
        /\ logs' = IF IsTerminal(ev) THEN FinishTurn(turn, None) ELSE logs
        /\ current' = IF IsTerminal(ev) THEN None ELSE turn
        /\ answered' = IF last /\ orderly /\ answering = asked /\ n = Len(out.frames)
                       THEN answered \cup {asked} ELSE answered
    /\ place' = [place EXCEPT ![answering] = @ + 1]
    /\ answering' = IF last THEN 0 ELSE answering
    /\ UNCHANGED <<session, fin, failure, request, asked, answers, orderly, plain>>

\* The upstream gives an answer up, after a cancellation for instance.
GiveUp ==
    /\ phase = "relaying" /\ answering # 0
    /\ answering' = 0
    /\ orderly' = FALSE
    /\ UNCHANGED <<session, relay, request, asked, answers, place, delivered, answered, plain>>

\* A text of the upstream that is not JSON: the alias in it is put back.
ServerPlain ==
    /\ phase = "relaying" /\ ~plain
    /\ plain' = TRUE
    /\ current' = IF current = None \/ ~session.restore THEN current
                  ELSE [current EXCEPT !.restored = @ + 1]
    /\ UNCHANGED <<session, phase, fin, pending, restored, logs, failure, request,
                   asked, answering, answers, place, delivered, orderly, answered>>
-----------------------------------------------------------------------------
\* A side closes the connection, or its socket fails.
Closes(error) ==
    /\ phase = "relaying"
    /\ phase' = "closing"
    /\ failure' = error
    /\ UNCHANGED <<session, fin, current, pending, restored, logs, request, peers>>

\* on_close, and then relay_upgrade goes on after relay: the tails are dropped, the open
\* turn ends, and so does the connection.
OnClose ==
    /\ phase = "closing"
    /\ phase' = "over"
    /\ pending' = Sse!FlushPending(pending, Keys)
    /\ logs' = Append(FinishTurn(current, failure), fin)
    /\ current' = None /\ fin' = None
    /\ UNCHANGED <<session, restored, failure, request, peers>>

Next ==
    \/ Dropped \/ Refused \/ Switch \/ Upgraded
    \/ \E error \in {None, <<"socket">>} : TunnelEnds(error) \/ Closes(error)
    \/ \E body \in Bodies[session.api], ok \in BOOLEAN : ClientRequest(body, ok) \/ ClientText(body, ok)
    \/ \E answer \in Answers[session.api] : Begin(answer)
    \/ \E n \in 0 .. Cardinality(Keys) + 1 : ServerText(n)
    \/ GiveUp
    \/ ServerPlain
    \/ OnClose

Spec == Init /\ [][Next]_vars
-----------------------------------------------------------------------------
\* What the API has reported after n events, as a function of n.
Reported(api, events) ==
    LET told[n \in 0 .. Len(events)] ==
            IF n = 0 THEN NoUsage
            ELSE LET usage == ParseUsage(api, events[n]) IN
                 IF usage = NoUsage THEN told[n - 1] ELSE Merge(told[n - 1], usage)
    IN  told

\* The usage of an answer is what its events report, and it does not go on after a terminal
\* event.
AnswersReport ==
    \A api \in Apis : \A a \in Answers[api] :
        /\ a.usage = Reported(api, a.events)[Len(a.events)] /\ a.usage # NoUsage
        /\ \A n \in 1 .. Len(a.events) - 1 : ~IsTerminal(a.events[n])

\* The texts that the first n events of an answer carry, block by block.
Gathered(api, events, n) ==
    [k \in Keys |-> FlattenSeq([i \in 1 .. n |-> Sse!TextOf(CarriersOf(api, events[i]), k)])]

\* The blocks that the first n events of an answer end.
Ends(api, ev) == Sse!Terminated(TerminatorOf(api, ev))
EndedBy(api, events, n) == UNION {Ends(api, events[i]) : i \in 1 .. n}

\* The text of an answer is what its events carry, restored as a whole.  An event carries at
\* most one text, of a block that goes on, and without a value that was not replaced, or it
\* ends blocks; the last one ends them all.
AnswersArrive ==
    \A api \in Apis : \A a \in Answers[api] :
        /\ a.text = [k \in Keys |-> Sse!Restore(Live, Gathered(api, a.events, Len(a.events))[k])]
        /\ Ends(api, a.events[Len(a.events)]) = Keys
        /\ \A n \in DOMAIN a.events :
            LET cs == CarriersOf(api, a.events[n]) IN
            \/ cs = <<>>
            \/ /\ cs = <<cs[1]>> /\ Ends(api, a.events[n]) = {}
               /\ cs[1].key \in Keys \ EndedBy(api, a.events, n - 1)
               /\ cs[1].text \in Seq(ToSet(cs[1].text) \ ToSet(Original))

\* The records sent for a turn, or for the connection when t is 0.
RecordsOf(t) == {i \in DOMAIN logs : logs[i].turn = t}

\* Every response.create is one record of a model call (the comment at the head of ws.rs),
\* and the connection is another one, on each of the ways out: an upgrade that fails, an
\* answer without a terminal event, a socket that closes or breaks.  A record is sent once,
\* and only for a turn or connection that is not open any more.
RecordedOnce ==
    /\ \A t \in 1 .. asked :
        Cardinality(RecordsOf(t)) = IF current # None /\ current.turn = t THEN 0 ELSE 1
    /\ Cardinality(RecordsOf(0)) = IF phase = "over" THEN 1 ELSE 0
    /\ phase = "over" => current = None
    /\ Len(logs) <= asked + 1

\* When the client waits for each answer before it asks again, the record of a turn that was
\* answered has the usage and the error that the API reported in the events of that answer
\* (usage is noted in whatever record is open, and none may be), each of them once.
UsageOfItsTurn ==
    \A t \in answered : \A i \in RecordsOf(t) :
        /\ logs[i].usage = answers[t].usage
        /\ answers[t].usage.error # None => logs[i].error = answers[t].usage.error

\* With such a client every answer reaches it whole and restored, the tail of no other turn
\* in it, ...
TextOfItsTurn == session.restore => \A t \in answered : delivered[t] = answers[t].text

\* ... and the record of its turn has the size and the restorations of what the client got.
SizeOfItsTurn ==
    \A t \in answered : \A i \in RecordsOf(t) :
        /\ logs[i].bytes = SumFunction([k \in Keys |-> Len(delivered[t][k])])
        /\ t = 1 /\ ~plain /\ session.restore =>
             logs[i].restored = SumFunction([k \in Keys |-> Originals(delivered[t][k])])

\* What an orderly client gets for a turn, and what the record of the turn says of it, is the
\* answer to that turn: its text, its size and its restorations.
AnswerToItsTurn == TextOfItsTurn /\ SizeOfItsTurn

\* Of a request only the texts of the user are changed: what frames it (the model, a tool, an
\* identifier) and what is no request is passed on as it is, and only the places listed as
\* missed are left out.
OnlyUserTextRedacted ==
    request # None =>
        LET json == request.of.json IN
        request.to = [p \in DOMAIN json |->
            IF p \in request.of.user \ request.of.missed THEN RedactText(json[p]) ELSE json[p]]

\* The comment of redact_request_body: it is applied to all the texts of the user.
AllUserTextRedacted ==
    request # None => \A p \in request.of.user : request.to[p] = RedactText(request.of.json[p])
=============================================================================
