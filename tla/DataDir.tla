------------------------------ MODULE DataDir ------------------------------
(***************************************************************************)
(* The data directory that the application and the pg launcher share: the  *)
(* database and its schema versions (crates/store/src/schema.rs and        *)
(* Store::open), the two files of the certificate authority                *)
(* (crates/proxy-core/src/ca.rs), and the runtime file that tells pg where *)
(* a proxy runs (crates/platform-macos/src/runtime.rs,                     *)
(* crates/pg-cli/src/main.rs).  No lock is held over the directory, and a  *)
(* process may die between any two steps.                                  *)
(*                                                                         *)
(* Authorities are numbered; a file holds the number of the one it was     *)
(* written for, and an authority in memory the numbers of its two files,   *)
(* which nothing compares.                                                 *)
(***************************************************************************)
EXTENDS Naturals, Sequences, FiniteSets, Functions

CONSTANTS
    Columns,   \* the columns that schema version 3 adds, in order: a sequence
    Budgets,   \* bounds: [starts, crashes, failures, regenerations, records]: a set of them
    Partial,   \* a file that was not written to its end
    None

Processes == {"app", "pg"}
Latest == 3

ASSUME DataDirAssumption ==
    /\ Columns \in Seq(STRING) /\ Columns # <<>>
    /\ \A i, j \in DOMAIN Columns : Columns[i] = Columns[j] => i = j
    /\ None \notin Nat /\ Partial \notin Nat /\ None # Partial
    /\ None \notin [cert : Nat \cup {None, Partial}, key : Nat \cup {None, Partial}]

VARIABLES
    schema,     \* the version of the database and the columns that version 3 added
    files,      \* the certificate and the key on disk
    made,       \* how many authorities were generated
    runtime,    \* the runtime file: who wrote it, and whether that process is alive
    proc,       \* per process: its steps left, and what it has in memory
    child,      \* the agent that pg started: the certificate it read, and whose proxy it uses
    budget,     \* what is left of the bounds
    cut,        \* a migration was cut off, or another process migrated at the same time
    disturbed,  \* two processes loaded, made or removed the authority at once, the application
                \* could not write it, or the key was left without its certificate
    renewed     \* the application has changed the authority that pg had loaded

dirVars == <<schema, files, made, runtime, proc, child, budget, cut, disturbed, renewed>>

Off == [todo |-> <<>>, up |-> FALSE, version |-> None, column |-> 0, gen |-> 0, ca |-> None,
        proxy |-> None, reuse |-> FALSE, served |-> FALSE]

DirInit ==
    /\ \E v \in {0, 2, Latest} :
        schema = [version |-> v, columns |-> IF v = Latest THEN Range(Columns) ELSE {}]
    /\ files \in {[cert |-> None, key |-> None], [cert |-> 0, key |-> 0]}
    /\ made = 0
    /\ runtime = None
    /\ proc = [p \in Processes |-> Off]
    /\ child = None
    /\ budget \in Budgets
    /\ cut = FALSE /\ disturbed = FALSE /\ renewed = FALSE
-----------------------------------------------------------------------------
\* AppState::init opens the store first, open_env of pg loads the authority first.
Opening(p) ==
    IF p = "app" THEN <<"read version", "migrate", "load">>
    ELSE <<"load", "read version", "migrate", "launch">>

Busy(p) == proc[p].todo # <<>>
At(p, step) == Busy(p) /\ Head(proc[p].todo) = step
Running(p) == proc[p].up /\ ~Busy(p)

\* The process goes on with the steps given instead of its first one.
Goes(p, e, steps) == proc' = [proc EXCEPT ![p] = [e EXCEPT !.todo = steps \o Tail(@)]]
Then(p, e) == Goes(p, e, <<>>)

Spend(what) == budget[what] > 0 /\ budget' = [budget EXCEPT ![what] = @ - 1]

\* A process that loads, makes or removes the authority, at each access to its files.
Works(p) == \E step \in {"load", "write cert", "write key", "remove cert", "remove key"} : At(p, step)
Disturbs(p) == disturbed' = (disturbed \/ \E q \in Processes \ {p} : Works(q))
Renews(p) == renewed' = (renewed \/ (p = "app" /\ proc["pg"].ca # None /\ files' # files))

StartProcess(p) ==
    /\ ~proc[p].up
    /\ Spend("starts")
    /\ proc' = [proc EXCEPT ![p] = [Off EXCEPT !.up = TRUE, !.todo = Opening(p)]]
    /\ renewed' = (renewed /\ p = "app")
    /\ UNCHANGED <<schema, files, made, runtime, child, cut, disturbed>>
-----------------------------------------------------------------------------
\* Migration.  Versions 1 and 2 create tables that may exist; version 3 adds columns, each
\* in a transaction of its own, and fails if one is there.

ReadVersion(p) ==
    /\ At(p, "read version")
    /\ Then(p, [proc[p] EXCEPT !.version = schema.version, !.column = 0])
    /\ cut' = (cut \/ (schema.version < Latest /\ \E q \in Processes \ {p} : At(q, "migrate")))
    /\ UNCHANGED <<schema, files, made, runtime, child, budget, disturbed, renewed>>

Altering(p) == At(p, "migrate") /\ proc[p].version = Latest - 1 /\ proc[p].column < Len(Columns)
Adds(p) == Columns[proc[p].column + 1]

AddColumn(p) ==
    /\ Altering(p)
    /\ Adds(p) \notin schema.columns
    /\ schema' = [schema EXCEPT !.columns = @ \cup {Adds(p)}]
    /\ proc' = [proc EXCEPT ![p].column = @ + 1]
    /\ UNCHANGED <<files, made, runtime, child, budget, cut, disturbed, renewed>>

\* Mutant: the versions are numbered from zero.
SetVersionBefore(p) ==
    /\ At(p, "migrate") /\ proc[p].version < Latest /\ ~Altering(p)
    /\ schema' = [schema EXCEPT !.version = proc[p].version]
    /\ proc' = [proc EXCEPT ![p].version = @ + 1]
    /\ UNCHANGED <<files, made, runtime, child, budget, cut, disturbed, renewed>>

\* The statements of the next version are done.
SetVersion(p) ==
    /\ At(p, "migrate") /\ proc[p].version < Latest /\ ~Altering(p)
    /\ schema' = [schema EXCEPT !.version = proc[p].version + 1]
    /\ proc' = [proc EXCEPT ![p].version = @ + 1]
    /\ UNCHANGED <<files, made, runtime, child, budget, cut, disturbed, renewed>>

Opened(p) ==
    /\ At(p, "migrate") /\ proc[p].version = Latest
    /\ Then(p, proc[p])
    /\ UNCHANGED <<schema, files, made, runtime, child, budget, cut, disturbed, renewed>>

\* What a statement that fails, or a crash, leaves of version 3: some of the columns, and not
\* the version.
CutsOff(p) == At(p, "migrate") /\ proc[p].column > 0 /\ proc[p].version < Latest

\* A column exists, or another statement fails: migrate fails, and the process ends with it.
MigrationFails(p) == Altering(p) /\ Adds(p) \in schema.columns
FailToOpen(p) ==
    /\ \/ MigrationFails(p) /\ UNCHANGED <<budget, cut>>
       \/ /\ At(p, "read version") \/ At(p, "migrate")
          /\ Spend("failures")
          /\ cut' = (cut \/ CutsOff(p))
    /\ proc' = [proc EXCEPT ![p] = Off]
    /\ UNCHANGED <<schema, files, made, runtime, child, disturbed, renewed>>
-----------------------------------------------------------------------------
\* The authority.

Readable(file) == file \notin {None, Partial}
Loadable == Readable(files.cert) /\ Readable(files.key)

\* from_pem parses both files.
Load(p) ==
    /\ At(p, "load") /\ Loadable
    /\ Then(p, [proc[p] EXCEPT !.ca = files])
    /\ Disturbs(p)
    /\ UNCHANGED <<schema, files, made, runtime, child, budget, cut, renewed>>

Generate(p) ==
    /\ At(p, "load") /\ ~Loadable
    /\ made' = made + 1
    /\ Goes(p, [proc[p] EXCEPT !.gen = made + 1], <<"write cert", "write key">>)
    /\ Disturbs(p)
    /\ UNCHANGED <<schema, files, runtime, child, budget, cut, renewed>>

WriteCert(p) ==
    /\ At(p, "write cert")
    /\ files' = [files EXCEPT !.cert = proc[p].gen]
    /\ Then(p, proc[p])
    /\ Disturbs(p) /\ Renews(p)
    /\ UNCHANGED <<schema, made, runtime, child, budget, cut>>

WriteKey(p) ==
    /\ At(p, "write key")
    /\ files' = [files EXCEPT !.key = proc[p].gen]
    /\ Then(p, [proc[p] EXCEPT !.ca = [cert |-> proc[p].gen, key |-> proc[p].gen]])
    /\ Disturbs(p) /\ Renews(p)
    /\ UNCHANGED <<schema, made, runtime, child, budget, cut>>

\* A file may be left as it was or half written.
LeftOf(p, step, file) == IF At(p, step) THEN {file, Partial} ELSE {file}
Leaves(p) ==
    \E c \in LeftOf(p, "write cert", files.cert), k \in LeftOf(p, "write key", files.key) :
        files' = [cert |-> c, key |-> k]

\* A file cannot be written: a process that starts ends; the application that makes a new
\* authority goes on with the old one in memory, without a proxy.
WriteFails(p) ==
    /\ At(p, "write cert") \/ At(p, "write key")
    /\ Spend("failures")
    /\ Leaves(p)
    /\ proc' = [proc EXCEPT ![p] = IF @.ca = None THEN Off ELSE [@ EXCEPT !.todo = <<>>]]
    /\ disturbed' = (disturbed \/ proc[p].ca # None) /\ Renews(p)
    /\ UNCHANGED <<schema, made, runtime, child, cut>>

\* Mutant: regenerate leaves the old key where it is.
RegenerateOverKey ==
    /\ Running("app")
    /\ Spend("regenerations")
    /\ proc' = [proc EXCEPT !["app"].proxy = None,
            !["app"].todo = IF proc["app"].proxy = None THEN <<"remove cert", "load">>
                            ELSE <<"remove cert", "load", "start proxy">>]
    /\ runtime' = None
    /\ UNCHANGED <<schema, files, made, child, cut, disturbed, renewed>>

\* regenerate_ca stops the proxy, and starts it again with the new authority.
Regenerate ==
    /\ Running("app")
    /\ Spend("regenerations")
    /\ proc' = [proc EXCEPT !["app"].proxy = None,
            !["app"].todo = IF proc["app"].proxy = None
                            THEN <<"remove cert", "remove key", "load">>
                            ELSE <<"remove cert", "remove key", "load", "start proxy">>]
    /\ runtime' = None
    /\ UNCHANGED <<schema, files, made, child, cut, disturbed, renewed>>

\* A removal that fails is ignored.
RemoveCert ==
    /\ At("app", "remove cert")
    /\ \/ files' = [files EXCEPT !.cert = None] /\ UNCHANGED budget
       \/ files' = files /\ Spend("failures")
    /\ Then("app", proc["app"])
    /\ Disturbs("app") /\ Renews("app")
    /\ UNCHANGED <<schema, made, runtime, child, cut>>

RemoveKey ==
    /\ At("app", "remove key")
    /\ files' = [files EXCEPT !.key = None] /\ UNCHANGED budget
    /\ Then("app", proc["app"])
    /\ Disturbs("app") /\ Renews("app")
    /\ UNCHANGED <<schema, made, runtime, child, cut>>

\* The key is on disk and its certificate is not.
KeyAlone == files.cert = None /\ files.key # None

KeyStays ==
    /\ At("app", "remove key")
    /\ Spend("failures")
    /\ Then("app", proc["app"])
    /\ disturbed' = (disturbed \/ KeyAlone \/ Works("pg"))
    /\ UNCHANGED <<schema, files, made, runtime, child, cut, renewed>>
-----------------------------------------------------------------------------
\* Proxies, the runtime file and the agent that pg starts.

WriteRuntime(p) == runtime' = [owner |-> p, alive |-> TRUE]

\* start_proxy of the application: on the user's request, or after Regenerate.
StartProxy ==
    /\ proc["app"].up /\ proc["app"].proxy = None
    /\ ~Busy("app") \/ At("app", "start proxy")
    /\ proc' = [proc EXCEPT !["app"] = [@ EXCEPT !.proxy = proc["app"].ca, !.todo = <<>>,
                                                !.served = TRUE]]
    /\ WriteRuntime("app")
    /\ UNCHANGED <<schema, files, made, child, budget, cut, disturbed, renewed>>

\* stop_proxy removes the runtime file, whoever wrote it.
StopProxy ==
    /\ Running("app") /\ proc["app"].proxy # None
    /\ proc' = [proc EXCEPT !["app"].proxy = None]
    /\ runtime' = None
    /\ UNCHANGED <<schema, files, made, child, budget, cut, disturbed, renewed>>

\* pg serve.
Serve ==
    /\ At("pg", "launch")
    /\ Then("pg", [proc["pg"] EXCEPT !.proxy = proc["pg"].ca, !.served = TRUE])
    /\ WriteRuntime("pg")
    /\ UNCHANGED <<schema, files, made, child, budget, cut, disturbed, renewed>>

\* read_live: the process that wrote the file is alive and its address accepts connections.
Live == runtime # None /\ runtime.alive /\ proc[runtime.owner].proxy # None

\* launch: the proxy that runs is used, or else one is started in this process.
Launch ==
    /\ At("pg", "launch")
    /\ Goes("pg", [proc["pg"] EXCEPT !.reuse = Live, !.served = ~Live,
                                     !.proxy = IF Live THEN None ELSE proc["pg"].ca], <<"spawn">>)
    /\ UNCHANGED <<schema, files, made, runtime, child, budget, cut, disturbed, renewed>>

\* The agent reads the certificate from the path it is given, and is told where the proxy
\* listens: whatever authority that proxy will have.
Spawn ==
    /\ At("pg", "spawn")
    /\ child' = [trusts |-> files.cert, via |-> IF proc["pg"].reuse THEN "app" ELSE "pg"]
    /\ Then("pg", proc["pg"])
    /\ UNCHANGED <<schema, files, made, runtime, budget, cut, disturbed, renewed>>
-----------------------------------------------------------------------------
\* The end of a process, also of pg when it finds no agent to start or has nothing else to
\* do (pg status); the agent ends with pg.
Ends(p) ==
    /\ proc' = [proc EXCEPT ![p] = Off]
    /\ child' = IF p = "pg" THEN None ELSE child
Forgotten(p) == IF runtime # None /\ runtime.owner = p THEN [runtime EXCEPT !.alive = FALSE] ELSE runtime

\* pg serve removes the runtime file when it is interrupted, pg with an agent never wrote it;
\* the application removes it when its user quits from the tray, and leaves it otherwise.
Quit(p) ==
    /\ Running(p) \/ At(p, "launch") \/ At(p, "spawn")
    /\ Ends(p)
    /\ \/ runtime' = IF p = "pg" /\ Running(p) /\ proc[p].proxy # None /\ child = None
                     THEN None ELSE Forgotten(p)
       \/ p = "app" /\ runtime' = None
    /\ UNCHANGED <<schema, files, made, budget, cut, disturbed, renewed>>

\* After a crash between the two removals the key is there without its certificate, and another
\* one before it is replaced leaves it beside a new certificate.
Crash(p) ==
    /\ proc[p].up
    /\ Spend("crashes")
    /\ Leaves(p)
    /\ Ends(p)
    /\ runtime' = Forgotten(p)
    /\ cut' = (cut \/ CutsOff(p))
    /\ disturbed' = (disturbed \/ (At(p, "remove key") /\ KeyAlone)) /\ Renews(p)
    /\ UNCHANGED <<schema, made>>
-----------------------------------------------------------------------------
\* The store opens with every column in place, and it opens after every upgrade, every failing
\* statement and every crash, except one in the middle of version 3 (schema.rs: the version is
\* written after the statements, which are not repeatable) or two processes that migrate at the
\* same time.
SchemaReady ==
    \A p \in Processes :
        /\ MigrationFails(p) => cut
        /\ proc[p].up /\ proc[p].version = Latest =>
              schema.columns = Range(Columns) /\ (cut \/ schema.version = Latest)

\* The agent that pg starts trusts the proxy it is pointed at, when one runs there.
AgentTrusts ==
    child # None /\ proc[child.via].proxy # None => child.trusts = proc[child.via].proxy.cert

\* A proxy signs with the key of the certificate its clients are given, whatever start or
\* regeneration a crash has cut off and whatever removal fails, as long as two processes do not
\* load, make or remove the authority at the same time, the application can write it, and the
\* key is not left without its certificate.  The agent that pg starts then trusts the proxy it
\* is pointed at, pg's own or the application's, which may have been stopped, or ended and
\* started again, since: until the application changes the authority that pg has loaded.
AuthorityMatches ==
    ~disturbed =>
        /\ \A p \in Processes : proc[p].ca # None => proc[p].ca.cert = proc[p].ca.key
        /\ Running("app") => proc["app"].ca = files
        /\ ~renewed => AgentTrusts

\* The page on certificates (Certificate.tsx): in mode C the certificate is handed to the process
\* of the tool, which works without its being installed.  No two processes access it at once.
HandedIsTrusted == ~disturbed => AgentTrusts
=============================================================================
