------------------------------- MODULE Ledger -------------------------------
(***************************************************************************)
(* The log of requests (crates/store/src/lib.rs, sink.rs) and what is      *)
(* computed from it: lists, statistics, the usage report (report.rs) and   *)
(* its costs (pricing.rs).                                                 *)
(*                                                                         *)
(* A proxy sends each log to the writer thread of its process, which       *)
(* inserts it into four tables in one transaction; the application deletes *)
(* old rows, or all, of the first table, and the others follow.  SQLite    *)
(* admits one writer of all processes at a time, and readers see what is   *)
(* committed.                                                              *)
(***************************************************************************)
EXTENDS Integers, SequencesExt

CONSTANTS
    Writers,    \* the processes with a proxy and a writer thread
    Contents,   \* the logs a proxy may record, without their time
    Prices,     \* the price list: a sequence of [prefix, input, output, cacheRead, cacheWrite]
    Retention,  \* log_retention_days
    BucketSize, \* bucket_secs of the report
    MaxTime,    \* bound on the clock
    None

VARIABLES
    now,    \* the clock
    logs,   \* every log recorded so far; its place is its id
    queue,  \* per process, the logs its writer thread has still to insert
    db,     \* the tables: requests, calls, bodies by id, and the rows of redaction_events
    tx      \* the transaction under way: who writes which log, the statements left, the tables

Tokens == {"input", "output", "cacheRead", "cacheWrite", "reasoning"}

\* What a proxy may record, and an entry of the price list.
IsCall(call) ==
    /\ call.tools \in Seq(ToSet(call.tools))
    /\ \A t \in Tokens : call[t] \in Nat \cup {None}
IsContent(content) ==
    /\ DOMAIN content = {"duration", "agent", "provider", "api", "status", "error", "streamed",
                         "ttft", "session", "events", "body", "call"}
    /\ content.duration \in Nat /\ content.status \in Nat \cup {None}
    /\ IsFiniteSet(content.events)
    /\ content.events \subseteq [entity : {e.entity : e \in content.events}, count : Nat]
    /\ content.call = None \/ IsCall(content.call)
IsPrice(price) ==
    /\ price.prefix \in Seq(ToSet(price.prefix))
    /\ \A rate \in {"input", "output", "cacheRead", "cacheWrite"} : price[rate] \in Nat

ledgerVars == <<now, logs, queue, db, tx>>

Empty == [requests |-> <<>>, calls |-> <<>>, events |-> {}, bodies |-> <<>>]

LedgerInit ==
    /\ now = 0 /\ logs = <<>> /\ db = Empty /\ tx = None
    /\ queue = [p \in Writers |-> <<>>]
-----------------------------------------------------------------------------
\* The rows of a log.

With(table, id, row) == [i \in DOMAIN table \cup {id} |-> IF i = id THEN row ELSE table[i]]
Without(table, ids) == [i \in DOMAIN table \ ids |-> table[i]]

SumOver(S, f(_)) == SumFunction([x \in S |-> f(x)])

\* A record with the fields of f, and those that g adds.
Joined(f, g) == [x \in DOMAIN f \cup DOMAIN g |-> IF x \in DOMAIN f THEN f[x] ELSE g[x]]
Redactions(log) == SumOver(log.events, LAMBDA e : e.count)

RequestRow(log) ==
    [started |-> log.started, duration |-> log.duration, ttft |-> log.ttft, agent |-> log.agent,
     provider |-> log.provider, api |-> log.api, status |-> log.status, error |-> log.error,
     streamed |-> log.streamed, redactions |-> Redactions(log), session |-> log.session]

EventRows(id, log) == {[id |-> id, entity |-> e.entity, count |-> e.count] : e \in log.events}

\* A record of insert_log: a call only for a model request, a body only in debug mode.
Insert(tables, statement, id, log) ==
    CASE statement = "request" -> [tables EXCEPT !.requests = With(@, id, RequestRow(log))]
      [] statement = "call" /\ log.call # None -> [tables EXCEPT !.calls = With(@, id, log.call)]
      [] statement = "events" -> [tables EXCEPT !.events = @ \cup EventRows(id, log)]
      [] statement = "body" /\ log.body # None -> [tables EXCEPT !.bodies = With(@, id, log.body)]
      [] OTHER -> tables

\* DELETE FROM requests, with the rows that reference it: ON DELETE CASCADE.
Delete(tables, ids) ==
    [requests |-> Without(tables.requests, ids), calls |-> Without(tables.calls, ids),
     events |-> {e \in tables.events : e.id \notin ids}, bodies |-> Without(tables.bodies, ids)]
-----------------------------------------------------------------------------
Tick == now < MaxTime /\ now' = now + 1 /\ UNCHANGED <<logs, queue, db, tx>>

\* An exchange ends, and its log is sent to the writer thread.
Record(p, content) ==
    /\ content.duration <= now
    /\ logs' = Append(logs, Joined(content, [started |-> now - content.duration]))
    /\ queue' = [queue EXCEPT ![p] = Append(@, Len(logs'))]
    /\ UNCHANGED <<now, db, tx>>

Writes(p) == tx # None /\ tx.by = p

\* insert_log: the first statement takes SQLite's write lock.
Begin(p) ==
    /\ tx = None /\ queue[p] # <<>>
    /\ tx' = [by |-> p, id |-> Head(queue[p]), tables |-> db,
              todo |-> <<"request", "call", "events", "body">>]
    /\ queue' = [queue EXCEPT ![p] = Tail(@)]
    /\ UNCHANGED <<now, logs, db>>

Execute(p) ==
    /\ Writes(p) /\ tx.todo # <<>>
    /\ tx' = [tx EXCEPT !.tables = Insert(@, Head(tx.todo), tx.id, logs[tx.id]), !.todo = Tail(@)]
    /\ UNCHANGED <<now, logs, queue, db>>

Commit(p) ==
    /\ Writes(p) /\ tx.todo = <<>>
    /\ db' = tx.tables /\ tx' = None
    /\ UNCHANGED <<now, logs, queue>>

\* Mutant: the statements are executed without a transaction.
InsertHalfFails(p) ==
    /\ Writes(p)
    /\ db' = tx.tables /\ tx' = None
    /\ UNCHANGED <<now, logs, queue>>

\* A statement fails, or the lock is not had for five seconds: the writer thread goes on.
InsertFails(p) ==
    /\ Writes(p)
    /\ tx' = None
    /\ UNCHANGED <<now, logs, queue, db>>

\* The process ends with what it has not written: SQLite rolls its transaction back.
Lose(p) ==
    /\ queue' = [queue EXCEPT ![p] = <<>>]
    /\ tx' = IF Writes(p) THEN None ELSE tx
    /\ UNCHANGED <<now, logs, db>>

Before(time) == {id \in DOMAIN db.requests : db.requests[id].started < time}

\* purge_before, in the self-check of the application, and clear_logs.
Purge ==
    /\ tx = None
    /\ db' = Delete(db, Before(now - Retention))
    /\ UNCHANGED <<now, logs, queue, tx>>
ClearLogs ==
    /\ tx = None
    /\ db' = Delete(db, DOMAIN db.requests)
    /\ UNCHANGED <<now, logs, queue, tx>>

\* The log on its own, whatever the processes around it do.
LedgerNext ==
    \/ \E p \in Writers :
        \/ \E content \in Contents : Record(p, content)
        \/ Begin(p) \/ Execute(p) \/ Commit(p) \/ InsertFails(p) \/ Lose(p)
    \/ Purge \/ ClearLogs \/ Tick

LedgerSpec == LedgerInit /\ [][LedgerNext]_ledgerVars
-----------------------------------------------------------------------------
\* Lists and statistics.

OrElse(x, y) == IF x # None THEN x ELSE y

\* Mutant: an error without an answer does not count.
IsErrorStatus(r) == r.status # None /\ r.status >= 400

IsError(r) == r.error # None \/ (r.status # None /\ r.status >= 400)

Since(time) == {id \in DOMAIN db.requests : db.requests[id].started >= time}

AnyFilter == [agent |-> None, provider |-> None, outcome |-> None, since |-> None, until |-> None,
              redacted |-> FALSE, limit |-> 0, offset |-> 0]

Selected(f) ==
    {id \in DOMAIN db.requests :
        LET r == db.requests[id] IN
        /\ f.agent \in {None, r.agent} /\ f.provider \in {None, r.provider}
        /\ f.outcome = "ok" => r.error = None /\ (r.status = None \/ r.status < 400)
        /\ f.outcome = "error" => IsError(r)
        /\ f.since # None => r.started >= f.since
        /\ f.until # None => r.started <= f.until
        /\ f.redacted => r.redactions > 0}

PageLimit(n) == IF n = 0 THEN 100 ELSE IF n < 1000 THEN n ELSE 1000

\* ORDER BY started_at DESC.
NewestFirst(ids) ==
    CHOOSE s \in SetToSeqs(ids) : \A i, j \in DOMAIN s :
        i < j => db.requests[s[i]].started >= db.requests[s[j]].started

ListRequests(f) ==
    LET all == NewestFirst(Selected(f))
        last == f.offset + PageLimit(f.limit)
    IN  SubSeq(all, f.offset + 1, IF last < Len(all) THEN last ELSE Len(all))

RequestDetail(id) ==
    IF id \notin DOMAIN db.requests THEN None
    ELSE [request |-> db.requests[id],
          call |-> IF id \in DOMAIN db.calls THEN db.calls[id] ELSE None,
          redactions |-> {e \in db.events : e.id = id},
          body |-> IF id \in DOMAIN db.bodies THEN db.bodies[id] ELSE None]

\* The first ten models are shown; here all.
Stats(since) ==
    LET ids == Since(since)
        called == DOMAIN db.calls \cap ids
        events == {e \in db.events : e.id \in ids}
        agent(id) == db.requests[id].agent
        model(id) == db.calls[id].model
    IN  [requests |-> Cardinality(ids),
         redactions |-> SumOver(ids, LAMBDA i : db.requests[i].redactions),
         errors |-> Cardinality({i \in ids : IsError(db.requests[i])}),
         input |-> SumOver(called, LAMBDA i : OrElse(db.calls[i].input, 0)),
         output |-> SumOver(called, LAMBDA i : OrElse(db.calls[i].output, 0)),
         byEntity |-> [x \in {e.entity : e \in events} |->
                          SumOver({e \in events : e.entity = x}, LAMBDA e : e.count)],
         byAgent |-> [x \in {agent(i) : i \in ids} |-> Cardinality({i \in ids : agent(i) = x})],
         byModel |-> [x \in {model(i) : i \in called} |-> Cardinality({i \in called : model(i) = x})]]
-----------------------------------------------------------------------------
\* Prices.

\* The longest prefix, and of several alike the last.
PriceFor(model) ==
    LET fits == {i \in DOMAIN Prices : Prices[i].prefix # <<>> /\ IsPrefix(Prices[i].prefix, model)}
        longest == {i \in fits : \A j \in fits : Len(Prices[j].prefix) <= Len(Prices[i].prefix)}
    IN  IF fits = {} THEN None ELSE Prices[Max(longest)]

\* The input of OpenAI includes what was read from its cache.
EstimateCost(provider, model, c) ==
    LET price == PriceFor(model)
        uncached == IF provider # "openai" THEN c.input
                    ELSE IF c.input > c.cacheRead THEN c.input - c.cacheRead ELSE 0
    IN  IF price = None THEN None
        ELSE uncached * price.input + c.output * price.output
             + c.cacheRead * price.cacheRead + c.cacheWrite * price.cacheWrite
-----------------------------------------------------------------------------
\* The usage report.  What is counted of a row is a number in its field.

\* scan_rows: a row of requests with its call, or zeros.
Row(id) ==
    LET r == db.requests[id]
        called == id \in DOMAIN db.calls
        call == IF called THEN db.calls[id] ELSE None
        model == IF called THEN OrElse(OrElse(call.response, call.model), <<"(unknown)">>)
                 ELSE <<"(unknown)">>
        used == [t \in Tokens |-> IF called THEN OrElse(call[t], 0) ELSE 0]
        tools == IF called THEN call.tools ELSE <<>>
        cost == IF called THEN EstimateCost(r.provider, model, used) ELSE None
    IN  Joined(Joined(r, used),
        [id |-> id, model |-> model, tools |-> tools, stop |-> IF called THEN call.stop ELSE None,
         requests |-> 1, calls |-> IF called THEN 1 ELSE 0, errors |-> IF IsError(r) THEN 1 ELSE 0,
         streams |-> IF r.streamed THEN 1 ELSE 0, toolCalls |-> Len(tools),
         cost |-> OrElse(cost, 0), priced |-> IF cost = None THEN 0 ELSE 1])

GroupFields == {"requests", "errors", "input", "output", "cost"}
BucketFields == GroupFields \cup {"cacheRead", "reasoning", "redactions", "toolCalls"}
TotalFields == BucketFields \cup {"calls", "streams", "cacheWrite", "priced"}
ModelFields == GroupFields \cup {"cacheRead", "cacheWrite", "reasoning", "toolCalls", "priced"}
SessionFields == (BucketFields \ {"errors", "reasoning"})

Total(rows, field) == SumOver(rows, LAMBDA r : r[field])
Tally(rows, fields) == [f \in fields |-> Total(rows, f)]
GroupedBy(rows, key, fields) ==
    [k \in {r[key] : r \in rows} |-> Tally({r \in rows : r[key] = k}, fields)]

Oldest(rows) == CHOOSE r \in rows : \A q \in rows : r.started <= q.started
Newest(rows) == Oldest({r \in rows : \A q \in rows : q.started <= r.started})

Sorted(rows, field) == SortSeq(SetToSeq({<<r[field], r.id>> : r \in {q \in rows : q[field] # None}}),
                               LAMBDA x, y : x[1] < y[1])
\* The p-th percentile, its place rounded; None for no values.
Percentile(sorted, p) ==
    IF sorted = <<>> THEN None ELSE sorted[((2 * (Len(sorted) - 1) * p + 100) \div 200) + 1][1]
Average(rows, field) == IF rows = {} THEN 0 ELSE Total(rows, field) \div Cardinality(rows)

Latency(rows) ==
    LET durations == Sorted(rows, "duration")
        ttfts == Sorted(rows, "ttft")
    IN  [avg |-> Average(rows, "duration"), p50 |-> OrElse(Percentile(durations, 50), 0),
         p95 |-> OrElse(Percentile(durations, 95), 0), p99 |-> OrElse(Percentile(durations, 99), 0),
         ttft50 |-> Percentile(ttfts, 50), ttft95 |-> Percentile(ttfts, 95)]

\* A model's rows; the rate of cache hits is what was read out of what there was to read.
ModelUsage(rows) ==
    LET sums == Tally(rows, ModelFields)
        provider == Oldest(rows).provider
    IN  Joined(sums, [provider |-> provider, latency |-> Latency(rows),
                      readable |-> IF provider = "openai" THEN sums.input
                                   ELSE sums.input + sums.cacheRead])

SessionUsage(rows) ==
    Joined(Tally(rows, SessionFields),
           [agent |-> Oldest(rows).agent, model |-> Newest(rows).model,
            first |-> Oldest(rows).started, last |-> Newest(rows).started])

Count(rows, valueOf(_)) ==
    [v \in {valueOf(r) : r \in rows} \ {None} |-> Cardinality({r \in rows : valueOf(r) = v})]
\* 0 for "network", an error without a status.
StatusOf(r) == IF r.status # None THEN r.status ELSE IF r.errors = 1 THEN 0 ELSE None

BucketOf(time) == time - (time % BucketSize)

Sessions(called) ==
    [s \in {r.session : r \in called} \ {None} |-> SessionUsage({r \in called : r.session = s})]

\* Thirty sessions are shown, the last seen first.
Shown(sessions) ==
    LET all == SetToSortSeq(DOMAIN sessions, LAMBDA s, t : sessions[s].last > sessions[t].last)
    IN  SubSeq(all, 1, IF Len(all) < 30 THEN Len(all) ELSE 30)

Series(current, since) ==
    [b \in {BucketOf(t) : t \in since..now} \cup {BucketOf(r.started) : r \in current} |->
        Tally({r \in current : BucketOf(r.started) = b}, BucketFields)]

Tools(called) ==
    [t \in UNION {ToSet(r.tools) : r \in called} |->
        SumOver(called, LAMBDA r : Cardinality({i \in DOMAIN r.tools : r.tools[i] = t}))]

\* What is shown of the rows of the window and of those of the window before it.
Report(current, previous, called, sessions, since) ==
    [totals |-> Tally(current, TotalFields), previous |-> Tally(previous, TotalFields),
     byModel |-> [x \in {r.model : r \in called} |-> ModelUsage({r \in called : r.model = x})],
     byAgent |-> GroupedBy(current, "agent", GroupFields),
     byProvider |-> GroupedBy(current, "provider", GroupFields),
     byApi |-> GroupedBy(current, "api", GroupFields),
     series |-> Series(current, since), tools |-> Tools(called),
     stopReasons |-> Count(called, LAMBDA r : r.stop), statusCodes |-> Count(current, StatusOf),
     sessions |-> sessions, sessionsShown |-> Shown(sessions), latency |-> Latency(current)]

ReportOf(rows, since) ==
    LET current == {r \in rows : r.started >= since}
        called == {r \in current : r.calls = 1}
    IN  Report(current, rows \ current, called, Sessions(called), since)

UsageReport(since) == ReportOf({Row(id) : id \in Since(since - (now - since))}, since)
-----------------------------------------------------------------------------
\* Whatever fails, is deleted or dies in between, a request in the database has exactly the
\* rows of its log, and no row of another table is without its request.
RowsWhole ==
    /\ DOMAIN db.calls \cup DOMAIN db.bodies \cup {e.id : e \in db.events} \subseteq DOMAIN db.requests
    /\ \A id \in DOMAIN db.requests :
          RequestDetail(id) = [request |-> RequestRow(logs[id]), call |-> logs[id].call,
                               redactions |-> EventRows(id, logs[id]), body |-> logs[id].body]

SumOf(groups, field) == SumOver(DOMAIN groups, LAMBDA k : groups[k][field])
SumOfCounts(counts) == SumOver(DOMAIN counts, LAMBDA k : counts[k])

\* The first page of n rows.
Page(n) == IF n < PageLimit(0) THEN n ELSE PageLimit(0)

Agree(u, s, all, ok, failed, inSession) ==
    /\ u.totals.requests = s.requests
    /\ all = Page(s.requests) /\ failed = Page(s.errors) /\ ok = Page(s.requests - s.errors)
    /\ \A f \in {"errors", "input", "output", "redactions"} : u.totals[f] = s[f]
    /\ SumOfCounts(s.byEntity) = s.redactions /\ SumOfCounts(s.byAgent) = s.requests
    /\ SumOfCounts(s.byModel) = u.totals.calls
    /\ \A f \in BucketFields : SumOf(u.series, f) = u.totals[f]
    /\ \A f \in GroupFields, g \in {u.byAgent, u.byProvider, u.byApi} : SumOf(g, f) = u.totals[f]
    /\ \A f \in ModelFields \ {"requests", "errors"} : SumOf(u.byModel, f) = u.totals[f]
    /\ SumOf(u.byModel, "requests") = u.totals.calls
    /\ SumOfCounts(u.tools) = u.totals.toolCalls
    /\ SumOf(u.sessions, "requests") = inSession

\* The report, the statistics and the list of requests tell the same of a window: each
\* request is in one bucket, agent, provider and interface, a call in one model, and neither
\* tokens, tools, costs nor errors are counted twice or left out.
ReportAgrees ==
    \A since \in 0..now :
        LET listed(outcome) == Len(ListRequests([AnyFilter EXCEPT !.since = since, !.outcome = outcome]))
        IN  Agree(UsageReport(since), Stats(since), listed(None), listed("ok"), listed("error"),
                  Cardinality({id \in Since(since) \cap DOMAIN db.calls : db.requests[id].session # None}))
=============================================================================
