------------------------------ MODULE Control ------------------------------
(***************************************************************************)
(* The commands of the application that change what the proxy runs with    *)
(* (src-tauri/src/state.rs, commands.rs, and spawn of                      *)
(* crates/proxy-core/src/server.rs): start, stop, restart, new settings,   *)
(* new rules and a new certificate authority.                              *)
(*                                                                         *)
(* A command is a list of steps; between two of them other commands may    *)
(* take steps of theirs, for no lock is held over a whole command.  The    *)
(* rules stand for everything configure_redactor reads: rules, identity    *)
(* and style.                                                              *)
(***************************************************************************)
EXTENDS Naturals, Sequences, FiniteSets

CONSTANTS
    Ports,                     \* the settings that need a restart: port, upstream proxy
    Options,                   \* those pushed to a running proxy: hosts, bodies, restoration
    RuleSets,                  \* rules, identity and style
    Tasks,                     \* the commands that may run at a time
    MaxCommands,               \* bound: commands in a behaviour
    None

ASSUME ControlAssumption ==
    /\ MaxCommands \in Nat
    /\ None \notin Ports \cup Options \cup RuleSets \cup Nat
    /\ None \notin [port : Ports, options : Options, ca : Nat]

VARIABLES
    db,          \* the stored settings and rules
    redactor,    \* the rules that its map and its detector work with
    slot,        \* AppState::proxy: the port, options and authority of the running proxy
    listening,   \* the ports with an accept loop
    ca,          \* authorities by generation: the last made, those on disk and in AppState
    task,        \* the steps each command has left, and its local variables
    commands,    \* how many commands were given
    overlapped,  \* whether two ever ran at a time
    unloaded     \* an import has stored rules and failed, and none were loaded since

vars == <<db, redactor, slot, listening, ca, task, commands, overlapped, unloaded>>

Settings == [port : Ports, options : Options, rules : RuleSets]
Idle == [todo |-> <<>>, cfg |-> None, rules |-> None, old |-> None, taken |-> None, ca |-> 0]

Init ==
    /\ db \in Settings
    /\ redactor = [map |-> db.rules, detector |-> db.rules]
    /\ slot = None
    /\ listening = {}
    /\ ca = [made |-> 0, disk |-> 0, memory |-> 0]
    /\ task = [t \in Tasks |-> Idle]
    /\ commands = 0
    /\ overlapped = FALSE
    /\ unloaded = FALSE
-----------------------------------------------------------------------------
Stop == <<"take", "shutdown">>
Reload == <<"read rules", "set map", "set detector">>

\* Mutant: the redactor is configured once the port is bound.
StartBindingFirst == <<"check", "read settings", "bind", "publish">> \o Reload

Start == <<"check", "read settings">> \o Reload \o <<"bind", "publish">>

Busy(t) == task[t].todo # <<>>
Begin(t, steps, old) ==
    /\ ~Busy(t) /\ commands < MaxCommands
    /\ task' = [task EXCEPT ![t] = [Idle EXCEPT !.todo = steps, !.old = old]]
    /\ commands' = commands + 1
    /\ overlapped' = (overlapped \/ \E u \in Tasks : Busy(u))
    /\ UNCHANGED unloaded

\* proxy_start, proxy_stop and proxy_restart; the tray does the same.
ProxyCommand(t) ==
    /\ \E steps \in {Start, Stop, Stop \o Start} : Begin(t, steps, None)
    /\ UNCHANGED <<db, redactor, slot, listening, ca>>

\* save_settings; the settings stored before decide what has to follow.
SaveSettings(t, s) ==
    /\ Begin(t, <<"follow up">>, db)
    /\ db' = s
    /\ UNCHANGED <<redactor, slot, listening, ca>>

\* set_rule_enabled, upsert_rule, delete_rule, upsert_persona, delete_persona,
\* set_persona_options.
ChangeRules(t, rules) ==
    /\ Begin(t, Reload, None)
    /\ db' = [db EXCEPT !.rules = rules]
    /\ UNCHANGED <<redactor, slot, listening, ca>>

\* import_rules: a file of two rules, stored one after the other.
ImportRules(t) ==
    /\ Begin(t, <<"upsert", "upsert">> \o Reload, None)
    /\ UNCHANGED <<db, redactor, slot, listening, ca>>

RegenerateCa(t) ==
    /\ Begin(t, Stop \o <<"regenerate", "replace">> \o (IF slot # None THEN Start ELSE <<>>), None)
    /\ UNCHANGED <<db, redactor, slot, listening, ca>>
-----------------------------------------------------------------------------
At(t, step) == Busy(t) /\ Head(task[t].todo) = step
\* The command goes on after n steps, with its variables changed.
After(t, n, e) == task' = [task EXCEPT ![t] = [e EXCEPT !.todo = SubSeq(@, n + 1, Len(@))]]
Done(t) == After(t, 1, task[t])
Return(t) == task' = [task EXCEPT ![t] = Idle]
Same == UNCHANGED <<commands, overlapped, unloaded>>

\* Mutant: a change of the port is pushed to the running proxy.
FollowUpPushing(t) ==
    LET e == task[t] IN
    /\ At(t, "follow up")
    /\ After(t, 1, [e EXCEPT !.todo = @ \o <<"read settings", "push">>
                        \o IF e.old.rules # db.rules THEN Reload ELSE <<>>])
    /\ Same /\ UNCHANGED <<db, redactor, slot, listening, ca>>

FollowUp(t) ==
    LET e == task[t]
        restart == e.old.port # db.port /\ slot # None IN
    /\ At(t, "follow up")
    /\ After(t, 1, [e EXCEPT !.todo = @
            \o (IF restart THEN Stop \o Start ELSE <<"read settings", "push">>)
            \o (IF e.old.rules # db.rules THEN Reload ELSE <<>>)])
    /\ Same /\ UNCHANGED <<db, redactor, slot, listening, ca>>

\* start_proxy of a running proxy does nothing.
Check(t) ==
    /\ At(t, "check")
    /\ After(t, IF slot # None THEN Len(Start) ELSE 1, task[t])
    /\ Same /\ UNCHANGED <<db, redactor, slot, listening, ca>>

ReadSettings(t) ==
    /\ At(t, "read settings")
    /\ After(t, 1, [task[t] EXCEPT !.cfg = db])
    /\ Same /\ UNCHANGED <<db, redactor, slot, listening, ca>>

Upsert(t, rules) ==
    /\ At(t, "upsert")
    /\ db' = [db EXCEPT !.rules = rules]
    /\ Done(t)
    /\ Same /\ UNCHANGED <<redactor, slot, listening, ca>>

\* A rule is invalid: the command ends, and those before it are stored but not loaded.
UpsertFails(t) ==
    /\ At(t, "upsert")
    /\ Return(t)
    /\ unloaded' = (unloaded \/ Len(task[t].todo) = Len(Reload) + 1)
    /\ UNCHANGED <<commands, overlapped, db, redactor, slot, listening, ca>>

\* configure_redactor reads the store; configure sets the identity and the style of the
\* map under its lock, then replaces the detector under another.
ReadRules(t) ==
    /\ At(t, "read rules")
    /\ After(t, 1, [task[t] EXCEPT !.rules = db.rules])
    /\ unloaded' = FALSE
    /\ UNCHANGED <<commands, overlapped, db, redactor, slot, listening, ca>>

SetMap(t) ==
    /\ At(t, "set map")
    /\ redactor' = [redactor EXCEPT !.map = task[t].rules]
    /\ Done(t)
    /\ Same /\ UNCHANGED <<db, slot, listening, ca>>

SetDetector(t) ==
    /\ At(t, "set detector")
    /\ redactor' = [redactor EXCEPT !.detector = task[t].rules]
    /\ Done(t)
    /\ Same /\ UNCHANGED <<db, slot, listening, ca>>

\* proxy_core::start takes the authority of the moment and binds the port.
Bind(t) ==
    LET e == task[t] IN
    /\ At(t, "bind")
    /\ e.cfg.port \notin listening
    /\ listening' = listening \cup {e.cfg.port}
    /\ After(t, 1, [e EXCEPT !.ca = ca.memory])
    /\ Same /\ UNCHANGED <<db, redactor, slot, ca>>

\* The port is taken, by this program or another: the command ends with an error.
BindFails(t) ==
    /\ At(t, "bind")
    /\ Return(t)
    /\ Same /\ UNCHANGED <<db, redactor, slot, listening, ca>>

\* A handle that was in the slot is dropped; its accept loop goes on.
Publish(t) ==
    LET e == task[t] IN
    /\ At(t, "publish")
    /\ slot' = [port |-> e.cfg.port, options |-> e.cfg.options, ca |-> e.ca]
    /\ Done(t)
    /\ Same /\ UNCHANGED <<db, redactor, listening, ca>>

\* push_config: the options of the running proxy, without a restart.
Push(t) ==
    /\ At(t, "push")
    /\ slot' = IF slot = None THEN None ELSE [slot EXCEPT !.options = task[t].cfg.options]
    /\ Done(t)
    /\ Same /\ UNCHANGED <<db, redactor, listening, ca>>

\* Mutant: the proxy stays in its slot until it has stopped.
TakeNothing(t) ==
    /\ At(t, "take")
    /\ After(t, IF slot = None THEN 2 ELSE 1, [task[t] EXCEPT !.taken = slot])
    /\ Same /\ UNCHANGED <<db, redactor, slot, listening, ca>>

Take(t) ==
    /\ At(t, "take")
    /\ slot' = None
    /\ After(t, IF slot = None THEN 2 ELSE 1, [task[t] EXCEPT !.taken = slot])
    /\ Same /\ UNCHANGED <<db, redactor, listening, ca>>

\* Mutant: the handle is dropped without shutdown.
ShutdownNothing(t) ==
    /\ At(t, "shutdown")
    /\ Done(t)
    /\ Same /\ UNCHANGED <<db, redactor, slot, listening, ca>>

\* shutdown and wait: the accept loop ends and its port is free.
Shutdown(t) ==
    /\ At(t, "shutdown")
    /\ listening' = listening \ {task[t].taken.port}
    /\ Done(t)
    /\ Same /\ UNCHANGED <<db, redactor, slot, ca>>

Regenerate(t) ==
    /\ At(t, "regenerate")
    /\ ca' = [ca EXCEPT !.made = @ + 1, !.disk = ca.made + 1]
    /\ After(t, 1, [task[t] EXCEPT !.ca = ca.made + 1])
    /\ Same /\ UNCHANGED <<db, redactor, slot, listening>>

\* The old files are gone and the new ones incomplete, which load_or_create would replace;
\* the proxy is not started again, and AppState keeps the old authority.
RegenerateFails(t) ==
    /\ At(t, "regenerate")
    /\ ca' = [ca EXCEPT !.disk = None]
    /\ Return(t)
    /\ Same /\ UNCHANGED <<db, redactor, slot, listening>>

ReplaceCa(t) ==
    /\ At(t, "replace")
    /\ ca' = [ca EXCEPT !.memory = task[t].ca]
    /\ Done(t)
    /\ Same /\ UNCHANGED <<db, redactor, slot, listening>>

Next ==
    \E t \in Tasks :
        \/ ProxyCommand(t) \/ RegenerateCa(t) \/ ImportRules(t)
        \/ \E s \in Settings : SaveSettings(t, s)
        \/ \E rules \in RuleSets : ChangeRules(t, rules)
        \/ \E rules \in RuleSets : Upsert(t, rules)
        \/ UpsertFails(t)
        \/ FollowUp(t) \/ Check(t) \/ ReadSettings(t)
        \/ ReadRules(t) \/ SetMap(t) \/ SetDetector(t)
        \/ Bind(t) \/ BindFails(t) \/ Publish(t) \/ Push(t)
        \/ Take(t) \/ Shutdown(t)
        \/ Regenerate(t) \/ RegenerateFails(t) \/ ReplaceCa(t)

Spec == Init /\ [][Next]_vars
-----------------------------------------------------------------------------
\* No command is running and none ever ran beside another.
Settled == ~overlapped /\ \A t \in Tasks : ~Busy(t)

\* The comment of start_proxy: the redactor is consistent with the store; whatever command
\* came last, and even if it failed, the map and the detector work with the stored rules.  Only
\* an import that fails after its first rule (import_rules) leaves them behind the store, until
\* rules are loaded again.
RulesApplied ==
    Settled /\ ~unloaded => redactor.map = db.rules /\ redactor.detector = db.rules

\* A running proxy has the stored port and options, and signs with the authority that the
\* user is shown, which is the one on disk unless a new one could not be written.
RunningAsStored ==
    Settled /\ slot # None =>
        /\ slot.port = db.port /\ slot.options = db.options
        /\ slot.ca = ca.memory /\ ca.disk \in {None, ca.memory}

\* A stopped or replaced proxy leaves no accept loop behind, which would go on serving with
\* settings that nobody can change.
NoOrphan ==
    Settled => listening = IF slot = None THEN {} ELSE {slot.port}

\* What is shown as running does accept connections, even while commands overlap.
ShownIsListening == slot # None => slot.port \in listening
=============================================================================
