----------------------------- MODULE Activation -----------------------------
(***************************************************************************)
(* Turning the protection of an agent on and off                           *)
(* (src-tauri/src/activation.rs, with the configuration files of           *)
(* crates/platform-macos/src/agents.rs and the system PAC of network.rs).  *)
(*                                                                         *)
(* enable, disable and the PAC buttons are asynchronous commands that take *)
(* no lock: each runs as a task whose steps are the accesses to the        *)
(* database, to a configuration file or to the system settings.  The page  *)
(* has one busy slot for both agents, which the command started last       *)
(* takes and the one that ends first clears, so several commands can run,  *)
(* on one agent too.                                                       *)
(***************************************************************************)
EXTENDS Integers

CONSTANTS
    Agents,       \* Claude, Codex
    Commands,     \* the commands on agents that may be under way at once
    Modes,        \* the protection modes the user may pick
    Scenarios,    \* what may happen: bounds on the events of each kind, whether a command
                  \* may start while another one runs, and whether the self-check runs
    None

\* Commands on an agent and presses of the PAC buttons; changes of the system settings
\* (the administrator prompt is dismissed), of a configuration file and accesses to the
\* database that fail; edits of a configuration file by the user, removals of our mark alone,
\* and deaths of the application.
Events == {"command", "button", "prompt", "file", "database", "edit", "unmark", "crash"}

ASSUME ScenarioAssumption ==
    /\ Agents \subseteq {"Claude", "Codex"}
    /\ Modes \subseteq {"Config", "SystemProxy", "Launcher"}
    /\ \A s \in Scenarios : /\ s.bound \in [Events -> Nat]
                            /\ {s.overlap, s.selfCheck} \subseteq BOOLEAN
    /\ Commands \cap {"pac", "reconcile"} = {}

\* None is none of the values that a row, a file or a task may hold.
ASSUME NoneAssumption ==
    None \notin {"Claude", "Codex", "Config", "SystemProxy", "Launcher", "user", "edited", "ours"}

\* The managed keys of a configuration file, or a PAC URL: the user's, those the user wrote
\* over ours, or ours.
User == {"user", "edited"}
Ours == "ours"

\* AgentActivation: rollback is the value of the managed keys before we wrote them.
Off(mode) == [enabled |-> FALSE, mode |-> mode, rollback |-> None]

\* The commands on agents, the PAC buttons and the self-check are tasks: the step, the agent
\* and the mode to enable, and what the task has read: the activation at the start (before)
\* and now, the values to roll back to and the backup of the PAC.
Tasks == Commands \cup {"pac", "reconcile"}
Idle == [at |-> "idle", agent |-> None, mode |-> None, before |-> None, now |-> None,
         applied |-> FALSE, rollback |-> None, saved |-> None]

VARIABLES
    activation,  \* the activation_state rows of the agents (durable)
    backup,      \* the row system_pac: the PAC to restore, or None (durable)
    config,      \* the configuration file of each agent (durable)
    pac,         \* the PAC URL of the system (durable)
    task,        \* the running commands
    collided,    \* history: two commands on one agent have been under way at once
    parted,      \* history: what a failure or a death between two writes has left (Half)
    scenario,    \* which of the scenarios this is
    used         \* how many events of each kind there have been

vars == <<activation, backup, config, pac, task, collided, parted, scenario, used>>

Init ==
    /\ activation = [a \in Agents |-> Off(None)]
    /\ backup = None
    /\ config = [a \in Agents |-> [value |-> "user", marked |-> FALSE]]
    /\ pac = "user"
    /\ task = [t \in Tasks |-> Idle]
    /\ collided = FALSE
    /\ parted = {}
    /\ scenario \in Scenarios
    /\ used = [e \in Events |-> 0]

Quiet == \A t \in Tasks : task[t].at = "idle"
At(t, step) == task[t].at = step
Go(t, step) == task' = [task EXCEPT ![t].at = step]
End(t) == task' = [task EXCEPT ![t] = Idle]

\* claude_enable / claude_disable or codex_enable / codex_disable are called in this mode:
\* Claude does not read the system proxy, so its settings are written in mode B as well.
WritesConfig(a, mode) == mode = "Config" \/ (mode = "SystemProxy" /\ a = "Claude")

\* pac_hosts is not None.
PacNeeded == \E a \in Agents : activation[a].enabled /\ activation[a].mode = "SystemProxy"

\* Writes that belong together, with the task t between them: our values are in a file and no
\* row records the user's (unrecorded), the system uses our PAC and the user's is not saved
\* (unsaved), or an agent is shown as protected whose file has been rolled back (unapplied).
Parts == {"unrecorded", "unsaved", "unapplied"}
Half(t) ==
    LET a == task[t].agent IN
    {why \in Parts :
        \/ /\ why = "unrecorded"
           /\ \/ At(t, "store") /\ WritesConfig(a, task[t].mode)
              \/ At(t, "undo_config") /\ a = "Claude"
        \/ why = "unsaved" /\ At(t, "save") /\ backup = None
        \/ why = "unapplied" /\ At(t, "off") /\ WritesConfig(a, task[t].now.mode)}
-----------------------------------------------------------------------------
Use(event) ==
    used[event] < scenario.bound[event] /\ used' = [used EXCEPT ![event] = @ + 1]

MayStart == scenario.overlap \/ Quiet

\* agent_enable and agent_disable run at once, whatever else is under way.
Begin(t, a, mode, step) ==
    /\ At(t, "idle") /\ MayStart /\ Use("command")
    /\ task' = [task EXCEPT ![t] = [Idle EXCEPT
            !.at = step, !.agent = a, !.mode = mode,
            !.before = IF mode = None THEN None ELSE activation[a]]]
    /\ collided' = (collided \/ \E s \in Commands : ~At(s, "idle") /\ task[s].agent = a)
    /\ UNCHANGED <<scenario, parted, activation, backup, config, pac>>

\* Mutant: an agent that is enabled is not disabled first.
EnableDirectly(t, a, mode) == Begin(t, a, mode, "write")

\* enable reads the current activation and disables an enabled agent first.
Enable(t, a, mode) == Begin(t, a, mode, IF activation[a].enabled THEN "current" ELSE "write")

Disable(t, a) == Begin(t, a, None, "current")

PacReapply ==
    /\ At("pac", "idle") /\ MayStart /\ Use("button")
    /\ Go("pac", "apply")
    /\ UNCHANGED <<scenario, collided, parted, activation, backup, config, pac>>

PacRestore ==
    /\ At("pac", "idle") /\ MayStart /\ Use("button")
    /\ Go("pac", "restore")
    /\ UNCHANGED <<scenario, collided, parted, activation, backup, config, pac>>
-----------------------------------------------------------------------------
\* disable.  When it is over, a mode switch goes on with the new mode.
AfterDisable(t) == IF task[t].mode = None THEN End(t) ELSE Go(t, "write")

ReadCurrent(t) ==
    LET a == task[t].agent IN
    /\ At(t, "current")
    /\ IF activation[a].enabled
       THEN task' = [task EXCEPT ![t].at = "rollback", ![t].now = activation[a]]
       ELSE AfterDisable(t)
    /\ UNCHANGED <<scenario, collided, parted, activation, backup, config, pac, used>>

\* Mutant: mode B is forgotten.
RollBackModeA(t) ==
    LET a == task[t].agent
        now == task[t].now IN
    /\ At(t, "rollback")
    /\ config' = IF now.mode = "Config"
                 THEN [config EXCEPT ![a] = [value |-> now.rollback, marked |-> FALSE]]
                 ELSE config
    /\ Go(t, "off")
    /\ UNCHANGED <<scenario, collided, parted, activation, backup, pac, used>>

\* The user's values are put back whatever the file holds by now.
RollBackConfig(t) ==
    LET a == task[t].agent
        now == task[t].now IN
    /\ At(t, "rollback")
    /\ config' = IF WritesConfig(a, now.mode) /\ now.rollback # None
                 THEN [config EXCEPT ![a] = [value |-> now.rollback, marked |-> FALSE]]
                 ELSE config
    /\ Go(t, "off")
    /\ UNCHANGED <<scenario, collided, parted, activation, backup, pac, used>>

\* Mutant: the row is not written.
StoreNothing(t) ==
    /\ At(t, "off")
    /\ IF task[t].now.mode = "SystemProxy" THEN Go(t, "others") ELSE AfterDisable(t)
    /\ UNCHANGED <<scenario, collided, parted, activation, backup, config, pac, used>>

StoreOff(t) ==
    LET now == task[t].now IN
    /\ At(t, "off")
    /\ activation' = [activation EXCEPT ![task[t].agent] = Off(now.mode)]
    /\ IF now.mode = "SystemProxy" THEN Go(t, "others") ELSE AfterDisable(t)
    /\ UNCHANGED <<scenario, collided, parted, backup, config, pac, used>>

\* Mutant: the PAC is restored although another agent needs it.
RestoreAlways(t) ==
    /\ At(t, "others")
    /\ Go(t, "restore")
    /\ UNCHANGED <<scenario, collided, parted, activation, backup, config, pac, used>>

CheckOthers(t) ==
    /\ At(t, "others")
    /\ Go(t, IF PacNeeded THEN "apply" ELSE "restore")
    /\ UNCHANGED <<scenario, collided, parted, activation, backup, config, pac, used>>
-----------------------------------------------------------------------------
\* enable, once the agent is off.  In mode B it gives up when the CA is not trusted.
Untrusted(t) ==
    /\ At(t, "write") /\ task[t].mode = "SystemProxy"
    /\ End(t)
    /\ UNCHANGED <<scenario, collided, parted, activation, backup, config, pac, used>>

WriteConfig(t) ==
    LET a == task[t].agent IN
    /\ At(t, "write")
    /\ IF WritesConfig(a, task[t].mode)
       THEN /\ config' = [config EXCEPT ![a] = [value |-> Ours, marked |-> TRUE]]
            /\ task' = [task EXCEPT ![t].at = "store", ![t].rollback = config[a].value]
       ELSE /\ Go(t, "store")
            /\ UNCHANGED config
    /\ UNCHANGED <<scenario, collided, parted, activation, backup, pac, used>>

\* In mode B the activation is stored before the PAC is applied, and once more after.
StoreOn(t) ==
    /\ At(t, "store") \/ At(t, "finish")
    /\ activation' = [activation EXCEPT ![task[t].agent] =
            [enabled |-> TRUE, mode |-> task[t].mode, rollback |-> task[t].rollback]]
    /\ IF At(t, "store") /\ task[t].mode = "SystemProxy" THEN Go(t, "push") ELSE End(t)
    /\ UNCHANGED <<scenario, collided, parted, backup, config, pac, used>>

\* push_config, whose failure is not undone; what fails from here on is.
PushConfig(t) ==
    /\ At(t, "push")
    /\ task' = [task EXCEPT ![t].at = "apply", ![t].applied = TRUE]
    /\ UNCHANGED <<scenario, collided, parted, activation, backup, config, pac, used>>

\* The PAC could not be applied: the activation read at the start and Claude's settings are
\* put back, also when that activation has been disabled since.
UndoStore(t) ==
    LET a == task[t].agent
        before == task[t].before IN
    /\ At(t, "undo")
    /\ activation' = [activation EXCEPT ![a] = before]
    /\ parted' = parted \cup
          IF before.enabled /\ WritesConfig(a, before.mode) THEN {"unapplied"} ELSE {}
    /\ Go(t, "undo_config")
    /\ UNCHANGED <<scenario, collided, backup, config, pac, used>>

UndoConfig(t) ==
    LET a == task[t].agent IN
    /\ At(t, "undo_config")
    /\ config' = IF a = "Claude"
                 THEN [config EXCEPT ![a] = [value |-> task[t].rollback, marked |-> FALSE]]
                 ELSE config
    /\ End(t)
    /\ UNCHANGED <<scenario, collided, parted, activation, backup, pac, used>>
-----------------------------------------------------------------------------
\* apply_system_pac and restore_system_pac are called by enable (applied), by disable and
\* by the buttons.
AfterPac(t) ==
    IF task[t].applied THEN Go(t, "finish")
    ELSE IF task[t].agent # None THEN AfterDisable(t) ELSE End(t)

ReadBackup(t) ==
    /\ At(t, "apply") \/ At(t, "restore")
    /\ IF At(t, "restore") /\ backup = None THEN AfterPac(t)
       ELSE task' = [task EXCEPT ![t].at = IF At(t, "apply") THEN "snapshot" ELSE "reset",
                                 ![t].saved = backup]
    /\ UNCHANGED <<scenario, collided, parted, activation, backup, config, pac, used>>

\* Mutant: the present settings always become the backup.
SnapshotAnew(t) ==
    /\ At(t, "snapshot")
    /\ task' = [task EXCEPT ![t].at = "set", ![t].saved = pac]
    /\ UNCHANGED <<scenario, collided, parted, activation, backup, config, pac, used>>

\* The snapshot of the present settings is kept unless there was a backup.
Snapshot(t) ==
    /\ At(t, "snapshot")
    /\ task' = [task EXCEPT ![t].at = "set", ![t].saved = IF @ = None THEN pac ELSE @]
    /\ UNCHANGED <<scenario, collided, parted, activation, backup, config, pac, used>>

SetPac(t) ==
    /\ At(t, "set")
    /\ pac' = Ours
    /\ Go(t, "save")
    /\ UNCHANGED <<scenario, collided, parted, activation, backup, config, used>>

SaveBackup(t) ==
    /\ At(t, "save")
    /\ backup' = task[t].saved
    /\ AfterPac(t)
    /\ UNCHANGED <<scenario, collided, parted, activation, config, pac, used>>

ResetPac(t) ==
    /\ At(t, "reset")
    /\ pac' = task[t].saved
    /\ Go(t, "drop")
    /\ UNCHANGED <<scenario, collided, parted, activation, backup, config, used>>

DropBackup(t) ==
    /\ At(t, "drop")
    /\ backup' = None
    /\ AfterPac(t)
    /\ UNCHANGED <<scenario, collided, parted, activation, config, pac, used>>

\* What fails while the PAC is applied makes enable undo its work; other commands give up.
GiveUp(t) == IF task[t].applied THEN Go(t, "undo") ELSE End(t)

\* The user dismisses the administrator prompt, or the services cannot be listed.
PromptDismissed(t) ==
    /\ At(t, "snapshot") \/ At(t, "set") \/ At(t, "reset")
    /\ Use("prompt")
    /\ GiveUp(t)
    /\ UNCHANGED <<scenario, collided, parted, activation, backup, config, pac>>

\* A file that cannot be parsed or written ends the command, and the undoing as well.
FileFails(t) ==
    LET a == task[t].agent
        now == task[t].now IN
    /\ \/ At(t, "write") /\ WritesConfig(a, task[t].mode)
       \/ At(t, "rollback") /\ WritesConfig(a, now.mode) /\ now.rollback # None
       \/ At(t, "undo_config") /\ a = "Claude"
    /\ Use("file")
    /\ End(t)
    /\ parted' = parted \cup Half(t)
    /\ UNCHANGED <<scenario, collided, activation, backup, config, pac>>

\* A failing access to the database ends the command, except while the PAC is applied, and
\* while that is undone.
DatabaseFails(t) ==
    /\ task[t].at \in {"current", "off", "others", "store", "push", "finish", "undo",
                       "apply", "restore", "save", "drop", "mark"}
    /\ Use("database")
    /\ IF At(t, "undo") THEN Go(t, "undo_config")
       ELSE IF At(t, "finish") THEN End(t)
       ELSE GiveUp(t)
    /\ parted' = parted \cup Half(t) \cup
          IF At(t, "undo") /\ WritesConfig(task[t].agent, task[t].mode) THEN {"unapplied"} ELSE {}
    /\ UNCHANGED <<scenario, collided, activation, backup, config, pac>>
-----------------------------------------------------------------------------
\* reconcile, for one agent: an enabled agent in mode A whose file has lost the mark is
\* recorded as off.
Reconcile(a) ==
    /\ scenario.selfCheck
    /\ At("reconcile", "idle") /\ MayStart
    /\ activation[a].enabled /\ activation[a].mode = "Config"
    /\ task' = [task EXCEPT !["reconcile"] =
                    [Idle EXCEPT !.at = "detect", !.agent = a, !.now = activation[a]]]
    /\ UNCHANGED <<scenario, collided, parted, activation, backup, config, pac, used>>

\* Mutant: the file is never looked at.
DetectNothing ==
    /\ At("reconcile", "detect")
    /\ End("reconcile")
    /\ UNCHANGED <<scenario, collided, parted, activation, backup, config, pac, used>>

Detect ==
    /\ At("reconcile", "detect")
    /\ IF config[task["reconcile"].agent].marked THEN End("reconcile")
                                                 ELSE Go("reconcile", "mark")
    /\ UNCHANGED <<scenario, collided, parted, activation, backup, config, pac, used>>

MarkOff ==
    LET a == task["reconcile"].agent IN
    /\ At("reconcile", "mark")
    /\ activation' = [activation EXCEPT ![a] = Off(task["reconcile"].now.mode)]
    /\ parted' = parted \cup IF config[a].value = Ours THEN {"unrecorded"} ELSE {}
    /\ End("reconcile")
    /\ UNCHANGED <<scenario, collided, backup, config, pac, used>>
-----------------------------------------------------------------------------
\* The user changes the managed keys in a configuration file.  The mark is a key or a comment
\* of its own: the edit may keep it, and may remove nothing else.
Edit(a) ==
    /\ Use("edit")
    /\ \E marked \in {config[a].marked, FALSE} :
          config' = [config EXCEPT ![a] = [value |-> "edited", marked |-> marked]]
    /\ UNCHANGED <<scenario, collided, parted, activation, backup, pac, task>>

Unmark(a) ==
    /\ config[a].marked
    /\ Use("unmark")
    /\ config' = [config EXCEPT ![a].marked = FALSE]
    /\ UNCHANGED <<scenario, collided, parted, activation, backup, pac, task>>

Crash ==
    /\ ~Quiet
    /\ Use("crash")
    /\ task' = [t \in Tasks |-> Idle]
    /\ parted' = parted \cup UNION {Half(t) : t \in Tasks}
    /\ UNCHANGED <<scenario, collided, activation, backup, config, pac>>

Command ==
    \/ \E t \in Commands, a \in Agents : Disable(t, a) \/ \E m \in Modes : Enable(t, a, m)
    \/ PacReapply
    \/ PacRestore

Step(t) ==
    \/ ReadCurrent(t) \/ RollBackConfig(t) \/ StoreOff(t) \/ CheckOthers(t)
    \/ Untrusted(t) \/ WriteConfig(t) \/ StoreOn(t) \/ PushConfig(t)
    \/ UndoStore(t) \/ UndoConfig(t)
    \/ ReadBackup(t) \/ Snapshot(t) \/ SetPac(t) \/ SaveBackup(t)
    \/ ResetPac(t) \/ DropBackup(t)
    \/ PromptDismissed(t) \/ FileFails(t) \/ DatabaseFails(t)

SelfCheck == (\E a \in Agents : Reconcile(a)) \/ Detect \/ MarkOff

Next ==
    \/ Command
    \/ \E t \in Tasks : Step(t)
    \/ SelfCheck
    \/ \E a \in Agents : Edit(a) \/ Unmark(a)
    \/ Crash

Spec == Init /\ [][Next]_vars

\* Commands run to their end, and the self-check is repeated every hour for every agent.
Fairness ==
    /\ \A t \in Tasks : WF_vars(Step(t))
    /\ \A a \in Agents : SF_vars(Reconcile(a))
    /\ WF_vars(Detect)
    /\ WF_vars(MarkOff)
FairSpec == Spec /\ Fairness
-----------------------------------------------------------------------------
\* What the comments promise, whatever happens.

\* ConfigRollback.previous is the original value, before we overwrote it.
RollbackIsOriginal == \A a \in Agents : activation[a].rollback # Ours

\* apply_system_pac: our own PAC is never recorded as the original value.
BackupIsOriginal == backup # Ours

\* Disabling rolls back exactly: an agent shown as off has the user's values in its file.
RolledBack ==
    Quiet => \A a \in Agents : ~activation[a].enabled => config[a].value \in User

\* An agent shown as protected through its file has our values in it.
Applied(a) ==
    activation[a].enabled /\ WritesConfig(a, activation[a].mode) =>
        config[a] = [value |-> Ours, marked |-> TRUE]
ShownIsApplied == Quiet => \A a \in Agents : Applied(a)

\* disable: the system PAC is restored when no agent uses mode B any more.  Commands on different
\* agents do not take it from the one that does.
PacStays == Quiet /\ ~collided /\ PacNeeded => pac = Ours

\* reconcile: an agent whose configuration the user has changed is marked as off.
EditIsNoticed ==
    \A a \in Agents :
        activation[a].enabled /\ activation[a].mode = "Config" /\ config[a].value = "edited"
            ~> ~activation[a].enabled \/ activation[a].mode # "Config" \/ config[a].value # "edited"
-----------------------------------------------------------------------------
\* What holds of the code, and while what.

Never(events) == \A e \in events : used[e] = 0
OneByOne == ~scenario.overlap

\* Commands one at a time: what is recorded for the rollback is the user's, through mode
\* switches, edits, lost marks, failures of any kind and deaths, unless one of them has come
\* between the two writes that belong together (parted).
RollbackKept == OneByOne /\ "unrecorded" \notin parted => RollbackIsOriginal

\* Commands one at a time: an agent that is shown as off has the user's values in its file, under
\* the same condition.
UserConfigKept == OneByOne /\ "unrecorded" \notin parted => RolledBack

\* Commands one at a time: the PAC recorded as the original one is not ours, with the buttons
\* too, unless a failure or a death has come between applying ours and saving it (parted).
BackupKept == OneByOne /\ "unsaved" \notin parted => BackupIsOriginal

\* Whatever overlaps, commands on different agents and the self-check do not separate what is
\* shown from the file; a failure or a death does so only between the rolling back of the file
\* and the storing of the row, or when an activation that is over is stored again (parted).
ProtectionKept ==
    ~collided /\ "unapplied" \notin parted /\ Never({"edit", "unmark"}) => ShownIsApplied

\* Commands one at a time: when none runs and none has failed, the system uses our PAC exactly
\* when an agent needs it, unless the user has pressed the PAC buttons.
PacFollowsUse ==
    OneByOne /\ Quiet /\ Never({"button", "prompt", "database", "crash"}) =>
        (pac = Ours <=> PacNeeded)

\* Once the mark is gone from its file, an agent does not stay shown as protected through it,
\* whatever else runs, fails or dies.
LostMarkIsNoticed ==
    \A a \in Agents :
        activation[a].enabled /\ activation[a].mode = "Config" /\ ~config[a].marked
            ~> ~activation[a].enabled \/ activation[a].mode # "Config" \/ config[a].marked
=============================================================================
