# A verification project for PrivacyGuard

PrivacyGuard is a desktop program (Rust, Tauri) that stands between coding agents and the
APIs of language models.  A local proxy replaces the sensitive values in a request by
*aliases* and puts the originals back in the response.  The user turns the protection of each
agent on and off; that changes configuration files and the PAC settings of macOS.  A second
program, `pg`, starts an agent behind a proxy of its own or the application's.

This directory holds TLA+ models of that program, the TLC runs that check them on small
instances, and proofs, checked by TLAPS, of what holds for every instance.  Paths below are
relative to `src/`.

## 1. Inventory

| Part | State it keeps | Operations | What makes it correct |
|---|---|---|---|
| **Placeholder table** `crates/redact/src/placeholder.rs` | `forward`, `reverse`, `order`, three identity maps, `alias_set`, two window widths, a lazily built automaton, all under one mutex | `placeholder_for`, `set_identity`, `set_style`, `restore_text`, `holdback`, `clear` | the indexes agree; an alias restores to the value it replaced; eviction is first-in first-out; the automaton is never stale |
| **Text restoration** `placeholder.rs`, `stream.rs` | the bytes carried over between chunks | `feed`, `finish` | nothing is lost; chunk boundaries are invisible |
| **Event restoration** `crates/proxy-core/src/sse_restore.rs`, `crates/providers/src/sse.rs` | per block of the response, a tail with a template event | one event in, events out; `finish` | as above, over interleaved blocks; no tail outlives its block |
| **Detection** `crates/redact/src/detector.rs`, `identity.rs`, `lib.rs` | none | `detect`, `resolve_overlaps`, `redact_text` | spans do not overlap; the identity yields to no rule below it; a hit that is dropped has been beaten |
| **HTTP exchange** `crates/proxy-core/src/pipeline.rs`, `body.rs`, `log.rs` | per request a task, its restorer, its `LogFinalizer`; shared settings, table and sink | `handle_http`, the stream of the response, `Drop` | one record per forwarded exchange, which tells what happened; settings taken once |
| **Request body walk** `crates/providers/src/request.rs` | none | `redact_request_body` | the texts of the user are visited, no structural one is changed |
| **WebSocket relay** `crates/proxy-core/src/ws.rs`, `relay_upgrade` in `pipeline.rs` | the open turn, a restorer for all turns, two records | upgrade, texts both ways, terminal events, close | one record per turn and one for the connection; an answer and its usage belong to their turn |
| **Usage** `crates/providers/src/usage.rs` | `UsageMeta` of a response | `parse_usage_json`, `merge` | what the events report is neither lost nor counted twice |
| **Application control** `src-tauri/src/state.rs`, `commands.rs`, `crates/proxy-core/src/server.rs` | stored settings, the running proxy, its listener, the redactor, the authority | start, stop, restart, settings, rules, imports, identities, a new authority | what runs is what is stored; what is shown as running accepts connections |
| **Agent activation** `src-tauri/src/activation.rs`, `crates/platform-macos/src/agents.rs`, `network.rs` | activation rows, a PAC backup, configuration files, the system PAC | `enable`, `disable`, the PAC buttons, the hourly `reconcile` | the user's values always come back; shown is applied; the PAC follows use |
| **Data directory** `crates/store/src/schema.rs`, `crates/proxy-core/src/ca.rs`, `crates/platform-macos/src/runtime.rs`, `crates/pg-cli/src/main.rs` | schema version and columns; certificate and key; the runtime file; in each process the authority and the proxy it runs | open and migrate; load, create, regenerate; start, stop, launch, serve, quit | the schema is complete when the store is open; certificate and key belong together; an agent trusts the proxy it is pointed at until the authority changes |
| **Store and reports** `crates/store/src/lib.rs`, `sink.rs`, `report.rs`, `pricing.rs` | four tables of the log, a queue per process | `insert_log`, `list_requests`, `request_detail`, `stats`, `usage_report`, `purge_before`, `clear_logs` | a request has all its rows or none; list, statistics and report agree |
| Connections and TLS `server.rs`, `upstream.rs`, `encoding.rs` | none | CONNECT, tunnel, reverse entry | only listed hosts are intercepted |
| Classification `classify.rs` | none | host and path to API | a table |
| Rules and fake values `rule.rs`, `synthetic.rs` | none | regular expressions, generators | format of fake values |
| Keychain, shell, environment, tray, windows, user interface | none | calls of the system | not state machines |

How they interact.  `pipeline.rs` walks the body of a chat request and calls detection on every
text of the user; detection calls the table for each span; the response goes through event
restoration (streams, WebSocket texts) or `restore_text` (buffered bodies), which share the table
with every other request.  The record of an exchange or turn, with the usage read in its events,
goes through the sink to a writer thread and into the store, from which the application draws
lists, statistics and reports.  Control configures the redactor and starts the proxy; activation
reads the port and the authority from control, and control pushes the PAC hosts activation has
decided on.  `pg` opens the same directory: the same database, authority and runtime file.

What is hard here: tables shared by concurrent requests and evicted under them; an alias cut by
chunk, character and event boundaries; exchanges and connections that end in half a dozen ways;
asynchronous commands without a lock between their steps; several durable places (files,
database, system settings) written one after the other with failures and crashes in between;
two processes over one directory without a lock.  `PROJECT.json` lists the hazards one by one,
at their lines.

## 2. Modules

| Module | Models | State and actions |
|---|---|---|
| `AliasTable` | what the table promises | a bounded FIFO list of pairs; `Issue`, `Reset` |
| `PlaceholderMap` | `PlaceholderMap` of `placeholder.rs` | one variable per field, one action per method (all hold one mutex).  HMAC, fake values and `to_lowercase` are constants; `out` is the last reply |
| `PlaceholderHistory` | the same, with a client that resends its history | `sent` |
| `AliasText` | `restore_text`, `holdback`, `holdback_len` | operators on sequences of characters |
| `StreamRestorer` | `stream.rs` | `Arrive` of a chunk (`Feed`), `FinishStream`; `Learn`: another request adds an alias, for which a full table drops one; `Forget`: new settings take an alias of the identity away.  `ValidUpTo` is what `from_utf8` reports.  The type is public and tested, but only `SseRestorer` is used by the proxy |
| `SseRestorer` | `SseRestorer` | `Receive` of an event (restore every carrier in turn, hold back, flush what it terminates), `Finish` |
| `Detection` | detection of one text | `Consider` is one round of the loop of `resolve_overlaps`; `Compose` and `Resolved` are `CompositeDetector`; `Replace` and `Rest` are `redact_text`.  What the expressions hit is arbitrary |
| `Exchange` | an exchange, its stream and its record | `Handle` to `End`; `Leave` is the drop of the task or body, at each of its awaits; `Finalize` takes the count of the restorer and what the collector has met; `lost` remembers whose alias left the table too early.  Routing, headers, JSON and compression are left out; a request has one sensitive value |
| `Json` | `serde_json::Value` as the proxy reads it | a value is the function from the paths of its strings to those strings, which are sequences of words |
| `RequestBody` | `request.rs` | `Visited` says which paths `redact_request_body` gives to the redactor |
| `ResponseEvents` | `sse.rs`, `usage.rs` | carriers, terminator and usage of an event, for the three APIs; `Merge` |
| `WsRelay` | `ws.rs`, `relay_upgrade`, `LogFinalizer` | one action per message (`ClientRequest`, `ClientText`, `ServerText`, `ServerPlain`) and per way out (`Dropped`, `Refused`, `TunnelEnds`, `Closes`, `OnClose`); `Begin` and `GiveUp` are the upstream |
| `Control` | `AppState` and its commands | a command is a list of steps between which other commands may run: each read of the store, each lock, each await is one step.  `import_rules` stores rule by rule and may meet an invalid one |
| `Activation` | `activation.rs` and the files and settings it writes | as `Control`: each access to the database, to a file or to the system is one step of a task, and any number of commands may be under way, on one agent too.  Each step may fail (`PromptDismissed`, `FileFails`, `DatabaseFails`), those of the undoing as well.  `Edit` is the user, who may keep our mark or remove it, `Unmark` removes it alone, `Crash` is the death of the program.  `parted` remembers which of two writes that belong together (`Half`) a failure or a death has separated |
| `DataDir` | migration, authority files, runtime file, both programs | each statement of a migration, each file written or removed is a step of the process that does it; `FailToOpen` ends a process whose migration fails, `Crash` and `WriteFails` leave a file as it was or half written, a removal that fails is ignored (`RemoveCert`, `KeyStays`).  The agent of pg has the certificate it read and the place of the proxy it uses (`via`), whatever authority that proxy has by then |
| `Ledger` | the log and what is computed from it | `Record`, `Begin`, `Execute`, `Commit`, `InsertFails`, `Lose`, `Purge`, `ClearLogs`; `ListRequests`, `Stats`, `UsageReport`, `EstimateCost` are operators on the committed tables |
| `Storage` | both programs over one directory and one log | composes `DataDir` and `Ledger`: records once a proxy has run (exchanges in flight record after it stopped), writes while the process lives, loses its queue when it ends |

`Exchange` keeps the table as the bounded list that `AliasTable` promises and `PlaceholderMap` is shown
to implement (`ImplementsAliasTable`), and adds what only exchanges can tell: whose alias a new one has
pushed out.  `StreamRestorer` and `SseRestorer` extend `AliasText`.  `WsRelay` extends `RequestBody` and
`ResponseEvents`, and restores with the operators of `SseRestorer`, instantiated with the texts
that an event carries.  `Storage` extends `DataDir` and instantiates `Ledger` with the two
processes as its writers; `StorageRefinesLedger` is the refinement.

`MC*` modules give constants their values and add symmetry where model values are
interchangeable (`Exchange`: requests, values; `Control`: ports, options, rules, tasks).
Definitions marked *Mutant* are plausible bugs of the definition that follows them; each
property is shown to fail when one of them takes its place.

## 3. Runs

| Run | Question | Bounds, and why they are enough |
|---|---|---|
| `placeholder_map` | do the indexes of the table agree under every order of calls? | three values, nine aliases, capacity 2, three identities, unbounded length of behaviours.  Two values collide on their first hash and their first fake value, one fake value equals its value and one another real value: every branch of the choice of a candidate is taken; three values overflow a table of two |
| `stream_chunks` | are chunk boundaries invisible? | all streams of up to four characters and a placeholder with one more on each side, every cut, aliases nested and overlapping, a two-byte character.  Two changes of the table (`MaxChanges`): an alias can come and go, or take the place of one the stream began with; 940,000 states |
| `sse_blocks` | does each block of a response arrive whole? | four events, two choices and a tool call, six pieces that spell two aliases in several ways |
| `detection` | which spans are replaced? | length 4, up to three hits of three rules (two with one priority, one that ranks with the identity) and any set of identity hits: every relation of two and three intervals (apart, touching, nested, crossing, equal) occurs |
| `exchange` | is there one true record, and restoration as asked? | two exchanges, one place in the table (so that each may evict the other's alias), streams of two chunks, which is an alias cut in two, or a usage or an error beside a text, buffered bodies with an alias, a usage or an error, and of no bytes, settings changing at any moment; 1.4 million states |
| `ws_relay` | does every turn get one record and its own answer, and is only user text redacted, all but what is known to be missed? | two turns over a connection of each API: the second shows what the first leaves behind.  Bodies have every kind of content the walk knows beside texts it must not touch, and two kinds it does not know (`missed`); answers have a text, a tool call and usage over several events with an alias over two of them.  Either side goes on, stops or closes at any message; 220,000 states |
| `storage` | do two programs keep one directory sound? | three scenarios by budget: three starts with two crashes, a failure (of a write, a removal or a statement) and a regeneration (crash, restart, crash in the repair); two processes with two records; one with two records, a crash and a failure.  Databases start empty, at version 2 and at version 3; two columns are enough to be cut between.  Two records of three kinds (no call, a priced call with two tools, a refused call) make every group of the report have one or two rows; 1.5 million states |
| `control` | does the running proxy agree with the store? | four commands, two at a time, two values of each setting, imports of up to two rules of which one may be invalid.  Three commands are needed to start, change and restart; the fourth starts again after a failure; 1.7 million states |
| `activation` | do files, rows and system settings agree, and does the self-check take back what it must? | four scenarios over both agents, all three modes and two commands.  One at a time: four commands with a dismissed prompt, a failing file and an edit (an agent is enabled, switched, disabled and enabled again); three with a button, a dismissed prompt, a failing access to the database, a lost mark and a crash.  Overlapping, on one agent or on two: three commands with a failing file, so that a third meets what two have left; two with a dismissed prompt, a failing access to the database, a lost mark and a crash; 760,000 states |

Three runs show what a comment, a test or the interface says of the code and the code does not do;
each is a finding of `PROJECT.json`, with the lines:

- `resent_history`: the same value may get another alias after it was evicted
  (`placeholder.rs:56` says it never does).
- `sse_longer_alias`: an alias that begins a longer one is restored before the longer one can
  arrive (`sse_restore.rs:165` restores before it holds back; a test of `placeholder.rs` expects
  the tail to be held).
- `activation_crash_pac`: a crash between changing the system PAC and storing what it was makes the
  next command record our own PAC as the user's (`activation.rs:187`).

Others of this kind have no run of their own; section 5 describes them, with the definition that
each breaks and the constants that show it.

### Fairness

Only `LostMarkIsNoticed` needs any.  Tokio runs every task that is ready, and each step waits for
something that ends (a query, a file, a dialog): weak fairness of each task's steps, of `Detect`
and of `MarkOff`.  The loop of `lib.rs` comes back every hour for every agent: strong fairness
of `Reconcile(a)`, as it is enabled again and again and not continuously (the check has one task
for both agents).  Everything else is safety, and no run asserts that a command, an exchange or a
connection must end: an upstream may stay silent for ever.

Deadlock is not checked where the system may stop: streams end, exchanges finish, connections
close, commands and starts are bounded.  It is checked for `placeholder_map`.

## 4. Theorems

All are proved for every value of the constants that meets the named assumptions.

**`PlaceholderMap_proofs`** (from `TextAssumption`, `CapAssumption`, `CandidateAssumption`,
`CollisionAssumption`, `IdentityAssumption`).  `TypeCorrect` first.  `TableConsistent` is not
inductive: that a chosen candidate is free has to follow from how candidates are searched, and
the last, unchecked one is only free because of `CollisionAssumption` (some window of a value's
digest is its own; otherwise the code itself would reuse a live alias).  `TableInv` joins the
types, the consistency of the maps, the fact that what is live was hashed from its value, and
what the automaton knows; from it follow `TableStaysConsistent`, `EvictionStaysFifo`,
`AutomatonStaysFresh` and, by a step-by-step mapping on `LivePairs`, `ImplementsTable`.
`WindowStaysWide` is inductive with the types alone: a width never shrinks, and whatever becomes
known is noted in the same step.
`AliasSetStaysExact` and `RepliesRestore` also need `SeparateIdentities`: the user's aliases are
not texts that the generator produces.  The code does not enforce that; see section 5.

**`Exchange_proofs`** (from `ExchangeAssumption`, which says of the buffered bodies that the alias is
in them by itself or not at all, as the model restores one alias at most).  `LoggedOnce` speaks of
what is over, so it is not inductive.  `Accounted` says of each exchange, by its phase, what it
carries and what it has left: nothing before it is forwarded, then one record under way and none
left, then one left; and that the record of a chat request that went out raw has its warning from
the start.  Each action moves one exchange from a standing to another (`Moved`), so the proof is
one lemma per action and `OneAtATime` for the rest.  `Accounting`, `TypeCorrect`, `OneRecordEach`,
`RawCarriesWarning` (that a chat request never goes out raw without a warning in its record; no
run checks it) follow.

`RecordIsTrue` needs to know what a record under way has counted.  `Truthful` says it by the phase:
nothing before the response, then the size of what was delivered, with the count of the restorer and
what the collector has met equal to what is in the delivered text, where what is held back is the
start of an alias or nothing.  That the count of the originals may be taken before the tail is
delivered is `OriginalsBefore`: the tail has none.  `OriginalsAsAsked` also needs that no alias
comes together in the client's text.  A chunk delivers and holds back one of a few pieces (`Piece`,
`ChunkPiece`), and the text stays without a pair of start and end as long as its open end is what
is held back (`PairJoin`, `PieceSmooth`) and the value is in the table.  That it is there is `AllKept`: from the request until its response is through, the alias stays unless
the request is counted as `lost`, which `Issue` does in the step that pushes it out.

**`Detection_proofs`** (from `DetectionAssumption`).  `Frame`: what is kept precedes what is still
in the pool.  `KeptStaysDisjoint` and `RulesDropOnlyOutranked` follow from it round by round.
`IdentityYieldsToRank` is for all priorities, which the user types: hits of the identity do not overlap
each other, so what one of them yields to is a rule that was kept before it, and ranks at least as
high.  `TextIsCovered` is about the loop that replaces: what it has
copied covers the text up to the last span it took, character by character (`Covers`), and the
spans left are behind it, for they are disjoint and taken in order.

**`WsRelay_proofs`** (from the hypothesis `NoneIsNoRecord`: the value that stands for "no record" is
not one).  `RecordedOnce` counts records and is not inductive.  `IInv` says in which order they are:
before the end the log holds the records of turns 1 to `Closed`, in this order, where all turns
but the open one are closed; an open turn is the last that was asked for, which is why the next
request closes turn `asked` and nothing else; when the connection is over its own record follows.
Observing an event changes a record but not its turn (`SameTurn`), and finishing it completes the
sequence (`FinishCompletes`), whatever the texts, answers and usage are.
`TurnHasItsUsage` is `UsageOfItsTurn`.  Its hypotheses are `NoneIsNoUsage` and `AnswersReport`, which TLC
evaluates in `MCWsRelay`: the usage that is listed beside an answer is what its events report
(`Reported`, the merge of the pieces in their order), an answer reports something, and it does not
go on after a terminal event.  `UsageInv` says that answers come in the order of the turns and all
but the last turn of an orderly client are answered (`AnswersInOrder`); that while the last one is
being answered its record is open and has what the events so far report (`OpenRecordIsTrue`);
and that the records of answered turns, open or sent, have all of it (`RecordsTell`).  Without the
second of these, an event could be noted in no record: this is what happens to a client that does not wait.
`Reported` is a recursive function: that it obeys its equation is shown by a least counterexample
(`ReportedIs`).

`AnswerIsOfItsTurn` is `AnswerToItsTurn`, and adds two hypotheses: `NoneIsNoTail`, and `AnswersArrive`, which
TLC evaluates in `MCWsRelay` too: an event carries one text at most, or ends blocks; the last one ends
them all; the text listed beside an answer is the restoration of all that its events carry; and no
event carries the sensitive value itself.  Its first half is `AnswerArrives`, the text, which
needs no hypothesis about usage.  The module takes the theorems of `Restorers_proofs` over with
`P == INSTANCE`: the received text is what the events of the answer so far carry (`Got`), the
ended blocks are those they have ended (`Over1`), and each `ServerText` of an orderly client is one
`Receive` (`EventReceived`).  So while an answer arrives the one restorer of the connection satisfies
the invariant that it would have in a response of its own, `P!PlainInv`, and between answers it
holds nothing (`RestorerInTurn`), for the last event ends every block; the next turn starts as the
first one did.

The second half is about sums.  The record adds up the frames, each the texts of its carriers one
after the other, and the property adds up blocks, so `Total`, the sum over a finite set, is needed:
that `SumFunctionOnSet` has a value, and one only, is shown by induction over the subsets
(`TotalsExist`, `TotalsUnique`), and then that totals add up (`TotalPlus`) and that one element
makes the total when the others give nothing (`TotalOne`).  `SizeIs` is the size of frames block by
block.  The restorations are counted in another way still: the relay counts the aliases in the
tail and the text of each event (`PutBack`), and the property the originals that came to the client.
They agree because what is held back is one character, the beginning of the alias (`HeldShort`), so
all that is put back is in what is sent (`RestoredCount`, `OneCarried`), and the tails that are sent
when their block ends have nothing in them to put back (`NoneFrames`).  `SizeInv` says of the open
record, and of all that were sent, what they have measured (`OpenRecordSized`, `RecordsSized`).

**`Restorers_proofs`** (both restorers, from `AliasAssumption`, `StreamAssumption` and
`EventAssumption`).  The first half is about texts and tables and names no restorer.  A cut that no
alias lies across is invisible: `Restore` of both sides is `Restore` of the whole (`RestoreCut`), for
the leftmost-longest search finds the same aliases.  `Holdback` finds such a cut, whatever comes
after it (`HoldbackNoSpan`).  The second half is an invariant for each restorer that speaks of the
future: what was sent, with the restoration of what is held and of *any* text after it, is the
restoration of all that arrived with that text after it (`SameRest`), so the next chunk or event
is one of those texts.

For the byte stream, `StreamInv` also says where in the stream the carry is (`StreamBounds`) and that
what was sent is a partial restoration (`StreamKept`), which needs no hypothesis at all:
`StreamLosesNoByte` is for every table, also one that changes between any two chunks, and every chunk.
`StreamChunkingInvisible` and `StreamAliasesRestored` have the hypothesis `Exact` of the property: no chunk
ends inside a character, the stream is UTF-8, no alias ends in the beginning of another
(`NoOverlap`), and an alias that looks like a placeholder is one to its end (`WellShaped`).

For the events, `SseNoTailAfterEnd` assumes `EndsNamed`, that a terminator names the blocks its event
ends; texts, tables and the order of events are arbitrary.  `SseBlocksRestored` and `SseNothingLost` assume
`PlainEvents`: an event has one text or ends blocks, and its terminator is the beginning of the keys
of just those blocks.  The events of the run satisfy it, and section 5 has a case for each part
of it that is dropped.  Two hypotheses of the properties themselves, `NoneWithin` and `InertOriginals`,
are explained there as well.

**`Storage_proofs`**.  `SchemaIsReady` (assumes `DataDirAssumption`: the columns are distinct), by
two invariants.  `Progress` holds whatever happens: the columns that a process in `migrate` has added
are there, for none is ever dropped, and it reaches the last version only when all of them are.
`Undisturbed` holds while no migration was cut off or shared: one process at most is in an
unfinished migration, and the version and the columns in the database are exactly its progress, so
the next column is new (`ColumnIsNew`, which needs the columns to be distinct).  It also needs that a
migration follows the reading of the version (`Ordered`), a fact about the list of steps that a
process has left: the lemmas before it say that `Tail` and `\o` keep it.

`AuthorityIsOne` has two layers.  The first is about what a process relies on, which depends on the step
it is at: `Leads` and `Path` say which step may follow which in any list, `Here` is the next one.
`Signs` holds whatever happens: a proxy signs with the authority that its process has in memory.
`Matched` holds while the files were not disturbed.  While a process writes the two files, the key on
disk cannot be read, so no other process relies on them (`NothingRelies`); a key that can be read has
its certificate, or the application is about to remove it; at most one process is in the middle of
such steps (`Unsettled`); and `Agrees` says of the application when its authority in memory is the one
on disk.  The second layer, `TrustInv`, is about the agent: from the loading of the authority to the end of
the agent, pg has the authority of the files in memory and the agent trusts their certificate,
unless the application has changed them since (`renewed`), whichever process runs the proxy and
however often it was stopped or started in between.

`StorageRefinesLedger`: each step of the two programs is a step of the log on its own or leaves its
variables alone, with the identity as the mapping.  So what is proved of the log alone holds in
`Storage`: `StorageRowsWhole` and `StorageReportAgrees` follow from the two theorems that come next.

`LedgerRowsWhole` needs no assumption.  `RowsWhole` says of each row where it comes from; the
inductive invariant `LogInv` says it of the tables: they are `Whole(ids)`, the rows of the logs with
some set of ids, and those of a transaction are `Built(ids, id, todo)`: of `ids`, and of `id` in the
tables whose statements are done.  `InsertAdds` is the step of one statement, `DeleteLeaves` that of
a deletion with its cascade, and the rows of recorded logs do not change when others are recorded
(`WholeStays`).

`LedgerReportAgrees` (from `LogAssumption`: counts and costs are natural numbers, the outcomes and
`None` are three values) is about sums over different rows: over requests in the statistics, over
calls, and by model, API, tool and session in the report.  It follows from the shape of the tables
alone (`DbShape`, from `LogInv`).  The sum over a set is a recursive function; that there is such a
function, and one only, is proved by induction over the subsets of the set (`SumsExist`,
`SumsUnique`).  From `SumRemove` then follow the laws that the report relies on: sums add up
(`SumPlus`), the groups of a set add up to the whole (`SumFibers`), two sets with a bijection have one
sum (`SumImage`: rows and requests), two sums may change places (`SumsSwap`: tools of calls).
`RowSays` is what a row of the join has of its request and call, and `NewestFirstExists` that the
rows can be put in the order of the list, so the list is as long as their number, or 100.

**`Control_proofs`** (from `ControlAssumption`).  A task is the list of the steps that it has left, so
every invariant is about lists: `Steady` says which steps may follow which in any list that a
command can have, and that `Tail` and the steps that prepend others keep it.  `ShownAccepts` holds in
whatever way commands overlap.  Its invariant, `PortsInv`, says that a port with an accept loop has
one owner (the slot, a command that is about to publish its proxy, or one that has taken it out
of the slot and is about to shut it down) and that nobody but the owner ends the loop.  The other
three, `RedactorAsStored`, `ProxyAsStored` and `NoLoopLeft`, hold for commands one at a time, as the
properties say (`overlapped`).  `OneInv` says what a command under way leaves to be done: where the
redactor, the options of the proxy or its authority differ from what is stored, the step that
brings them together is still in its list, and what it has read is still what is stored.

**`Activation_proofs`** (from `ScenarioAssumption` and `NoneAssumption`), for any number of commands,
agents, events and scenarios.  The failures are all in: a dismissed prompt, a file or a database that
fails at any step, also while a failure is being undone, and a death at any moment.  What they can break
are the pairs of writes that the code does one after the other; `Half` says what a task in between leaves,
`parted` remembers it, and each theorem says that nothing else breaks its property.
`ProtectionIsReal` holds in whatever way commands on different agents and the self-check overlap: a row
and a file disagree only while the command that has rolled the file back is about to store the row
(`ShownInv`, with `Secure` for what the running command relies on).  Two commands on one agent
(`collided`) and edits do separate them.  The other four are about commands one at a time;
`Alone` is what that means for the tasks, and `Digest` sums up what a step may do to them, so that each
invariant is proved against a handful of shapes instead of thirty actions.
`BackupIsTheUsers` has `PacInv`: our PAC is in use only if the user's is in the backup or in the hands
of the command that runs.  `RollbackIsTheUsers` and `UserConfigSurvives` have `FilesInv`: of each agent, by
the step its command is at, the user's values are in the file, in the row or in the hands of
the command.  `PacIsInUse` has `UseInv`, which relates the rows, the PAC in use and the steps left; it
is for commands that do not fail at the PAC, as the code does not try again.

**Only model-checked.**  `OnlyUserTextRedacted` of `WsRelay`: it compares the walk over a body
with the user texts that are listed beside it; for arbitrary bodies the list would be an
assumption that says just what the property says.  `LostMarkIsNoticed` is liveness.  The findings are
violations, which only TLC shows, and so are the definitions named in section 5.

The theorems on texts and sums are by induction over data, for which the library's theorems with
an operator as a parameter cannot be used.  They take a set instead: the texts of which a claim
holds, or the subsets of a finite set, with the well-founded order on them.  No module that has a
theorem reaches a `RECURSIVE` operator; recursive functions are unfolded from their definition
by `CHOOSE`, after a proof that there is one.

## 5. Known limits of the code

Seen while modelling; most can be reproduced by giving a run the constants named, or by dropping
the hypothesis named from the property.

*Table and restoration*

- An identity alias that the generator also produces (`MCClashingIdentities`) makes
  `AliasSetExact` and `ReplyRestores` fail: `SeparateIdentities` is not checked on saving.
- A chunk that ends inside a character, aliases that overlap or begin one another: the exactness
  of restoration is stated with `~split`, `NoOverlap`, `WellShaped` and `InertOriginals`, and for events
  with `NoneWithin`.  `NoByteLost` needs none of them.
- A user's alias that starts like a placeholder and goes on with more (`WellShaped`): `holdback` lets
  the complete placeholder in it go, and a chunk that ends there makes the rest of it arrive
  alone, so the chunking shows.
- An alias that lies inside another one (`NoneWithin`): the event restorer replaces it before it
  asks for the holdback (the finding of `sse_longer_alias`).
- An original with characters of an alias (`InertOriginals`): the event restorer holds back
  restored text and restores it again, so the original may be taken for an alias, and even
  `NothingLost` of the events fails.
- An event with both the last text of a choice and its end (`MCWithLastDelta`), two carriers in
  one event (`MCTwoCarriers`: the template repeats the other carrier), and ten choices
  (`MCTenChoices` with `MCManyChoices`: the prefix `c1` flushes `c10`) break `BlocksRestored`.
- The table evicts the oldest alias, not the least recently used: one in use may go, and its
  response then reaches the client with the alias in it.  `RestoredAsAsked` shows that this is the only
  way (`lost`).
- A rule that the user gives a priority above 1000 wins over the identity, which `identity.rs:11` says is
  above all rules (`IdentityKept` with `MCAbove`).
- `RegexDetector` resolves overlaps by itself (`rule.rs:36`), so a rule hit that lost to another
  which the identity then removes (`identity.rs:152`) stays lost, and its text is not replaced.

*Exchanges and connections*

- When the upstream breaks off, a held tail is dropped although it is counted; a client that leaves
  early gets a record without usage; an exchange whose body cannot be read leaves none.
- An exchange reports an error when an event has an `error` member, even `null`.
- One WebSocket restorer serves all turns.  Its count of restorations is cumulative, so the record
  of a later turn has those of the earlier ones (`AnswerToItsTurn` compares it for the first
  turn), and the count of a text that is not JSON is overwritten by the next event.  The tail of a
  turn that was not finished appears in the next one; late events of an answer that was given
  up are noted in the record of the turn that is open.  Hence `orderly`: the property is stated for
  clients that wait.
- A refused or failed upgrade leaves a record without an error.
- The output of the local shell and a document are texts of the user, and go out as they are
  (`request.rs:89`; `AllUserTextRedacted` of `WsRelay`, whose bodies have both).

*Control and activation*

- A death between changing a configuration file and storing its row makes the next `enable` record our
  values as the user's, although `agents.rs:117` calls what is kept the original value before we
  overwrote it (`RollbackIsOriginal` with `MCDying`).
- When the prompt is dismissed and undoing the file fails too, the row is off and our values stay in
  the file (`activation.rs:128`, `130` ignore the failure); a failing access to the database between
  two steps leaves them apart as a death does (`parted`).
- A switch from mode A to mode B that is given up at the prompt stores mode A again without writing its
  file again: the agent is shown as protected and is not (`activation.rs:127`; `ShownIsApplied` with
  `MCSwitching`).  A mode switch that fails at the certificate leaves the agent off.
- Two commands on one agent that overlap leave our values in the file of an agent that is off
  (`RolledBack` with `MCColliding`): `Protection.tsx:38` has one busy slot for both agents, and the
  commands take no lock; `Protection.tsx:21` promises an exact rollback.  Turning one agent off takes the PAC from the other, which has just been
  turned on (`activation.rs:171`; `PacStays` with `MCColliding`).
- An edit that keeps our mark is never noticed, although the comment at `activation.rs:228` says that a
  change by the user is (`EditIsNoticed` with `MCEditing`).  A mark that is lost while our values stay
  makes the self-check drop the values to roll back to.  The self-check may undo an activation that a
  command has made since it looked: the agent is then shown as off, with our values in its file.
- The notice at `activation.rs:61` tells the user that WebSocket traffic is passed through; `ws.rs:65`
  to `112` redacts it.
- Overlapping commands of `Control` may leave rules of another moment in force, settings not
  pushed, or, with a change of port between two starts, an accept loop nobody can stop.  Its
  properties on stored state are therefore stated for commands one at a time (`overlapped`);
  `ShownIsListening` is not.
- An import that meets an invalid rule returns before the rules are loaded: those it has already
  stored are in force only after the next change.

*Data directory and store*

- The statements of a migration and its version are not one transaction, and version 3 is not
  repeatable: after a crash between its columns, or with two processes that migrate at once, the
  store never opens again (`cut`).  `SchemaReady` excludes these cases and shows that there are no
  others; no line of the repository promises more, so there is no run for them.
- `from_pem` does not compare certificate and key.  A key that is left without its certificate (a
  crash or a failing removal between the two removals of `regenerate`), and another cut or failure
  before both files are replaced, leaves a new certificate beside an old key, which every later start
  loads (`disturbed`).  Two processes that create the authority at once may each leave one file.
- A regeneration that cannot write its files leaves the application with the old authority in
  memory and other files on disk.  `read_live` does not compare `ca_fingerprint`, and a new authority
  restarts the proxy under a running agent, which then no longer trusts it (`HandedIsTrusted` of
  `Storage`; `Certificate.tsx:65` says that handing the certificate to the process is enough).
- `pg` waits 150 ms at its end for its writer thread: what is still queued is lost.
- Costs: cached tokens are taken off the input only for the provider `openai`
  (`pricing.rs:92`), so for ChatGPT's own Codex backend they are charged twice.

## 6. Abstractions

Texts in the tables are model values; characters appear only in `AliasText` and its users, with
placeholders shortened to four characters.  In `Exchange` a value is the name of its alias, which
is spelled in two units; in `WsRelay` a text is a sequence of words, one of them sensitive, whose
alias is two words.  JSON values have their strings only: no empty objects, no `null`.  In `Control`,
a port is every setting that needs a restart and an option every one that is pushed (which is which is
read off `save_settings` and `push_config`: a field that both forgot would not be seen); rules,
identity and style are one value; `save_settings` reads and writes in one step, as both happen
between two awaits.  In `Activation` the managed keys of a file are one value with a mark;
`Untrusted` is a choice, and so
is whether a step fails.  Listing the services and the prompt that changes them are two steps; the
services are one.  In `DataDir` an authority is a number, and a process answers for its
proxy.  In `Ledger` a log is the fields that lists, statistics and reports read; prices and costs are whole
numbers of a small unit, an error is one condition (the code spells it in `lib.rs:479`, `590` and
`report.rs:480`) and the sums of the report share one operator where the code adds in five places, so the rounding of floating-point sums is not seen; a statement is
executed at once, and a transaction waits for no lock but for its beginning (what fails in
between, a busy database included, is `InsertFails`).

Left out of the report: the heat map and the hours of the day (local time), shares and rates
that are quotients of two of its sums, the cut after ten models; and of the list, the search by
a piece of text.  Its reads are one step, although another process may write between two of
them.  Left out of `WsRelay`: the sizes of the connection as a whole, and the events of the
Responses API that repeat a whole text instead of a delta.

## 7. Not modelled

- The framing of an event stream (`find_event_boundary`, fields of an event) and JSON escaping in
  the arguments of tool calls: `SseRestorer` starts from whole events and plain texts.
- TLS, HTTP, compression, connection handling beyond the accept loop; the cache of leaf
  certificates: libraries and I/O.
- Regular expressions, the search of the identity, formats of fake values: `Detection` takes any
  hits, `PlaceholderMap` any candidates.
- Classification, the text of the PAC file, paths, keychain and shell commands, environment
  variables: tables, text and calls of the system.
- Personas and price lists as stored; tray, windows, the wrappers of commands, the user interface:
  they format what the other parts return or pass it on.

## 8. Plan

1. *Done*: the table and its abstraction; text and event restoration; activation; exchanges;
   detection; control with imports; request bodies, events and usage; WebSocket connections; the
   data directory, the log and its reports, and both programs over them.
2. Next in the models: framing under `SseRestorer`; the search of `IdentityDetector`, whose
   leftmost-longest match may hide a shorter one that the case check would accept; reads of the
   report that interleave with a writer.
3. *Done* in the proofs: every safety property of the runs but the one named in section 4.  Next: what
   framing adds to the restorers, when it is modelled.
