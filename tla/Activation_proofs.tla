-------------------------- MODULE Activation_proofs --------------------------
(***************************************************************************)
(* What holds of turning agents on and off for every choice of modes and   *)
(* every bound on commands, buttons, failures, edits and deaths.           *)
(***************************************************************************)
EXTENDS Activation, TLAPS

Value == User \cup {Ours}
Row == [enabled : BOOLEAN, mode : Modes \cup {None}, rollback : Value \cup {None}]

PacSteps == {"apply", "snapshot", "set", "save", "restore", "reset", "drop"}
AgentSteps == {"current", "rollback", "off", "others", "write", "store", "push", "finish",
               "undo", "undo_config"}
CheckSteps == {"detect", "mark"}
Steps == {"idle"} \cup PacSteps \cup AgentSteps \cup CheckSteps

Task == [at : Steps, agent : Agents \cup {None}, mode : Modes \cup {None},
         before : Row \cup {None}, now : Row \cup {None}, applied : BOOLEAN,
         rollback : Value \cup {None}, saved : Value \cup {None}]

StateOK ==
    /\ activation \in [Agents -> Row]
    /\ backup \in Value \cup {None}
    /\ config \in [Agents -> [value : Value, marked : BOOLEAN]]
    /\ pac \in Value
    /\ collided \in BOOLEAN
    /\ parted \subseteq Parts
    /\ scenario \in Scenarios
    /\ used \in [Events -> Nat]
TypeOK == StateOK /\ task \in [Tasks -> Task]

\* Which task runs which steps, for whom, and what it has read by then.
Holds(t) == t.at \in {"store", "push"} \/ t.applied
AgentTask(t) ==
    /\ t.at \notin CheckSteps
    /\ t.at # "idle" => t.agent \in Agents
    /\ t.at \in {"rollback", "off"} => t.now \in Row
    /\ t.at \in {"write", "store"} => t.mode # None
    /\ t.at = "push" => t.mode = "SystemProxy"
    /\ t.at \in {"finish", "undo", "undo_config"} => t.applied
    /\ t.applied => /\ t.mode = "SystemProxy"
                    /\ t.at \in {"apply", "snapshot", "set", "save", "finish", "undo", "undo_config"}
    /\ t.mode # None => t.before \in Row
    /\ Holds(t) /\ WritesConfig(t.agent, t.mode) => t.rollback # None
    /\ t.at = "reset" => t.saved # None
PacTask(t) ==
    /\ t.at \in {"idle"} \cup PacSteps
    /\ t.agent = None /\ t.mode = None /\ ~t.applied
    /\ t.at = "reset" => t.saved # None
CheckTask(t) ==
    /\ t.at \in {"idle"} \cup CheckSteps
    /\ ~t.applied
    /\ t.at # "idle" => t.agent \in Agents /\ t.now \in Row
TasksOK ==
    (\A t \in Commands : AgentTask(task[t])) /\ PacTask(task["pac"]) /\ CheckTask(task["reconcile"])

TypeInv == TypeOK /\ TasksOK
-----------------------------------------------------------------------------
\* Two commands are on one agent only when they have collided.
Apart ==
    ~collided => \A s, t \in Commands : s = t \/ At(s, "idle") \/ At(t, "idle")
                                           \/ task[s].agent # task[t].agent

\* An agent shown as protected through its file has our values in it, except between the two
\* steps of a disable; a command that is about to show it as such has written them, and one that
\* is about to put the file back does not leave it shown.
Marked == [value |-> Ours, marked |-> TRUE]
Clean == ~collided /\ "unapplied" \notin parted /\ Never({"edit", "unmark"})
Shown(a) ==
    activation[a].enabled /\ WritesConfig(a, activation[a].mode) =>
        config[a] = Marked \/ \E t \in Commands : At(t, "off") /\ task[t].agent = a
Secure(a, r, row, file) ==
    /\ Holds(r) /\ WritesConfig(a, r.mode) => file = Marked
    /\ r.at \in {"rollback", "off"} => r.now = row \/ ~row.enabled
    /\ r.at = "undo_config" /\ a = "Claude" => ~(row.enabled /\ WritesConfig(a, row.mode))
Written(t) ==
    LET a == task[t].agent IN ~At(t, "idle") => Secure(a, task[t], activation[a], config[a])
ShownInv == Clean => (\A a \in Agents : Shown(a)) /\ (\A t \in Commands : Written(t))
-----------------------------------------------------------------------------
Alone == OneByOne => \A s, t \in Tasks : s = t \/ At(s, "idle") \/ At(t, "idle")

Saved == OneByOne /\ "unsaved" \notin parted

\* The backup of the PAC is taken before our PAC is in use and dropped after it.
Original ==
    /\ backup # Ours
    /\ pac = Ours => backup # None \/ \E t \in Tasks : task[t].at = "save"
    /\ \A t \in Tasks :
          /\ task[t].at \in {"snapshot", "reset"} => task[t].saved = backup
          /\ task[t].at \in {"set", "save"} => task[t].saved \in User
          /\ task[t].at = "drop" => pac # Ours
PacInv == Saved => Original

\* What a row records can be put back, and is the user's.
Restorable(a, row) ==
    /\ row.rollback # Ours
    /\ row.enabled /\ WritesConfig(a, row.mode) => row.rollback # None

\* The values that the user loses by our writing them are held by the row of the agent, or by
\* a command as long as it has not stored them or may have to put them back.
Stable(a, row, file) == (row.enabled /\ WritesConfig(a, row.mode)) \/ file.value \in User
HeldBack(a, file, t) ==
    IF WritesConfig(a, t.mode) THEN t.rollback \in User
    ELSE file.value \in User /\ t.rollback = None

Kept(a, row, file, t) ==
    /\ Restorable(a, row)
    /\ t.mode # None => Restorable(a, t.before)
    /\ t.at \notin {"store", "undo_config"} => Stable(a, row, file)
    /\ IF Holds(t) THEN HeldBack(a, file, t) ELSE t.rollback = None
    /\ t.at = "rollback" => t.now = row
    /\ t.at \notin {"idle", "current", "rollback"} /\ ~Holds(t) => file.value \in User

Works(t, a) == task[t].at # "idle" /\ task[t].agent = a
Files(a) ==
    /\ (\A t \in Commands : ~Works(t, a)) => Kept(a, activation[a], config[a], Idle)
    /\ \A t \in Commands : Works(t, a) => Kept(a, activation[a], config[a], task[t])
Recorded == OneByOne /\ "unrecorded" \notin parted
FilesInv == Recorded => \A a \in Agents : Files(a)

\* PacFollowsUse between the steps of a command: needed says whether an agent needs our PAC,
\* ours whether the system uses it, and row is the activation of the agent of t.
Smooth == OneByOne /\ Never({"button", "prompt", "database", "crash"})
Settled == pac = Ours <=> PacNeeded
Undecided == PacSteps \cup {"others", "push", "finish"}
Using(row, t, needed, ours) ==
    /\ t.at \notin {"undo", "undo_config"}
    /\ t.at = "push" \/ t.applied => row.enabled /\ row.mode = "SystemProxy"
    /\ t.at \notin {"current", "rollback", "off", "push"} /\ ~t.applied => ~row.enabled
    /\ t.at \in {"rollback", "off"} => t.now = row /\ row.enabled
    /\ t.at \in {"push", "apply", "snapshot", "set", "save", "finish"} => needed
    /\ t.at \in {"restore", "reset", "drop"} => ~needed
    /\ t.at \in {"others", "save", "finish"} => ours
    /\ t.at = "drop" => ~ours
Checked ==
    LET check == task["reconcile"] IN
    check.at \in CheckSteps => activation[check.agent].mode = "Config"

UseInv ==
    Smooth => /\ "unsaved" \notin parted
              /\ At("pac", "idle")
              /\ (\A t \in Commands : task[t].at \notin Undecided) => Settled
              /\ \A t \in Commands :
                    ~At(t, "idle") => Using(activation[task[t].agent], task[t], PacNeeded, pac = Ours)
              /\ Checked
-----------------------------------------------------------------------------
\* A step changes one task, that of t, which becomes r.
Becomes(t, r) ==
    /\ task'[t] = r
    /\ \A s \in Tasks \ {t} : task'[s] = task[s]
    /\ task' \in [Tasks -> Task]

\* A running task goes to a step with what it has read; agent, mode and before stay.
Turned(t, step, now, applied, rollback, saved) ==
    [at |-> step, agent |-> task[t].agent, mode |-> task[t].mode, before |-> task[t].before,
     now |-> now, applied |-> applied, rollback |-> rollback, saved |-> saved]
To(t, step) ==
    Turned(t, step, task[t].now, task[t].applied, task[t].rollback, task[t].saved)

LEMMA Changes ==
    ASSUME TypeOK, NEW t \in Tasks, NEW r \in Task, task' = [task EXCEPT ![t] = r]
    PROVE  Becomes(t, r)
  BY DEF TypeOK, Becomes

LEMMA IdleTask == Idle \in Task
  BY DEF Idle, Task, Steps

LEMMA Ending == ASSUME TypeOK, NEW t \in Tasks, End(t) PROVE Becomes(t, Idle)
  BY Changes, IdleTask DEF End

LEMMA Turning ==
    ASSUME TypeOK, NEW t \in Tasks, NEW step \in Steps, NEW now \in Row \cup {None},
           NEW applied \in BOOLEAN, NEW rollback \in Value \cup {None},
           NEW saved \in Value \cup {None}
    PROVE  /\ Turned(t, step, now, applied, rollback, saved) \in Task
           /\ task[t] = To(t, task[t].at)
  BY DEF TypeOK, Task, Turned, To

LEMMA Going ==
    ASSUME TypeOK, NEW t \in Tasks, NEW step \in Steps, Go(t, step)
    PROVE  Becomes(t, To(t, step))
<1>1. task[t] \in Task
  BY DEF TypeOK
<1>2. [task[t] EXCEPT !.at = step] = To(t, step)
  BY <1>1 DEF Task, To, Turned
<1>3. To(t, step) \in Task
  BY <1>1 DEF Task, To, Turned
<1> QED
  BY <1>2, <1>3, Changes DEF Go

\* Which tasks run the steps of a command on an agent, and the PAC steps.
LEMMA OnAgent ==
    ASSUME TypeInv, NEW t \in Tasks, task[t].at \in AgentSteps
    PROVE  t \in Commands /\ task[t].agent \in Agents
<1>1. task[t].at # "idle" /\ task[t].at \notin PacSteps /\ task[t].at \notin CheckSteps
  BY DEF AgentSteps, PacSteps, CheckSteps
<1>2. t \in Commands
  BY <1>1 DEF TypeInv, TasksOK, PacTask, CheckTask, Tasks
<1> QED
  BY <1>1, <1>2 DEF TypeInv, TasksOK, AgentTask

LEMMA OnPac ==
    ASSUME TypeInv, NEW t \in Tasks, task[t].at \in PacSteps
    PROVE  \/ t \in Commands /\ task[t].agent \in Agents
           \/ t = "pac" /\ t \notin Commands /\ task[t].agent = None /\ ~task[t].applied
<1>1. task[t].at # "idle" /\ task[t].at \notin CheckSteps
  BY DEF PacSteps, CheckSteps
<1>2. t # "reconcile"
  BY <1>1 DEF TypeInv, TasksOK, CheckTask
<1>3. "pac" \notin Commands
  BY ScenarioAssumption
<1> QED
  BY <1>1, <1>2, <1>3 DEF TypeInv, TasksOK, PacTask, AgentTask, Tasks

LEMMA NoneIsNone == None \notin Agents /\ None \notin Modes /\ None \notin Value
  BY ScenarioAssumption, NoneAssumption DEF Value, User, Ours

\* The task of a step keeps its obligations, and the others theirs.
LEMMA TypeStep ==
    ASSUME TypeInv, NEW t \in Tasks, NEW r, Becomes(t, r),
           t \in Commands => AgentTask(r),
           t = "pac" => PacTask(r),
           t = "reconcile" => CheckTask(r), StateOK'
    PROVE  TypeInv'
<1>1. "pac" \in Tasks /\ "reconcile" \in Tasks
  BY DEF Tasks
<1>2. ASSUME NEW a \in Commands PROVE AgentTask(task'[a])
  BY <1>2 DEF TypeInv, TasksOK, Becomes, Tasks
<1>3. PacTask(task'["pac"]) /\ CheckTask(task'["reconcile"])
  BY <1>1 DEF TypeInv, TasksOK, Becomes
<1>4. TypeOK'
  BY DEF TypeInv, TypeOK, Becomes
<1>5. TasksOK'
  BY <1>2, <1>3 DEF TasksOK
<1> QED
  BY <1>4, <1>5 DEF TypeInv
-----------------------------------------------------------------------------
LEMMA Used ==
    ASSUME StateOK, NEW event \in Events, Use(event)
    PROVE  used' \in [Events -> Nat] /\ used' = [used EXCEPT ![event] = used[event] + 1]
  BY DEF StateOK, Use

LEMMA NotUsed ==
    ASSUME TypeInv, NEW events \in SUBSET Events, NEW event \in events, Use(event)
    PROVE  ~Never(events)'
<1>1. used \in [Events -> Nat] /\ StateOK /\ event \in Events
  BY DEF TypeInv, TypeOK, StateOK
<1>2. used'[event] = used[event] + 1
  BY <1>1, Used
<1> QED
  BY <1>1, <1>2 DEF Never

LEMMA HalfParts ==
    ASSUME NEW t
    PROVE  /\ Half(t) \subseteq Parts
           /\ "unsaved" \in Half(t) => task[t].at = "save"
  BY DEF Half, At

\* What each step does to its task, and that the types hold after it.
LEMMA TaskIs ==
    ASSUME TypeInv, NEW t \in Tasks
    PROVE  /\ task[t] \in Task
           /\ t \in Commands => AgentTask(task[t]) /\ t # "pac" /\ t # "reconcile"
           /\ t = "pac" => PacTask(task[t])
           /\ t = "reconcile" => CheckTask(task[t])
  BY ScenarioAssumption DEF TypeInv, TypeOK, TasksOK

\* The records that the steps build.
LEMMA AtField ==
    ASSUME NEW r \in Task, NEW step
    PROVE  [r EXCEPT !.at = step] =
                [at |-> step, agent |-> r.agent, mode |-> r.mode, before |-> r.before,
                 now |-> r.now, applied |-> r.applied, rollback |-> r.rollback, saved |-> r.saved]
  BY DEF Task

LEMMA NowField ==
    ASSUME TypeOK, NEW t \in Tasks, NEW step, NEW v
    PROVE  [task[t] EXCEPT !.at = step, !.now = v] =
               Turned(t, step, v, task[t].applied, task[t].rollback, task[t].saved)
<1> DEFINE e == [task[t] EXCEPT !.at = step]
<1>1. e = To(t, step)
  BY AtField DEF TypeOK, To, Turned
<1>2. [task[t] EXCEPT !.at = step, !.now = v] = [e EXCEPT !.now = v]
  OBVIOUS
<1>3. [To(t, step) EXCEPT !.now = v] = Turned(t, step, v, task[t].applied, task[t].rollback, task[t].saved)
  BY DEF To, Turned
<1> HIDE DEF e
<1> QED
  BY <1>1, <1>2, <1>3

LEMMA AppliedField ==
    ASSUME TypeOK, NEW t \in Tasks, NEW step, NEW v
    PROVE  [task[t] EXCEPT !.at = step, !.applied = v] =
               Turned(t, step, task[t].now, v, task[t].rollback, task[t].saved)
<1> DEFINE e == [task[t] EXCEPT !.at = step]
<1>1. e = To(t, step)
  BY AtField DEF TypeOK, To, Turned
<1>2. [task[t] EXCEPT !.at = step, !.applied = v] = [e EXCEPT !.applied = v]
  OBVIOUS
<1>3. [To(t, step) EXCEPT !.applied = v] = Turned(t, step, task[t].now, v, task[t].rollback, task[t].saved)
  BY DEF To, Turned
<1> HIDE DEF e
<1> QED
  BY <1>1, <1>2, <1>3

LEMMA RollbackField ==
    ASSUME TypeOK, NEW t \in Tasks, NEW step, NEW v
    PROVE  [task[t] EXCEPT !.at = step, !.rollback = v] =
               Turned(t, step, task[t].now, task[t].applied, v, task[t].saved)
<1> DEFINE e == [task[t] EXCEPT !.at = step]
<1>1. e = To(t, step)
  BY AtField DEF TypeOK, To, Turned
<1>2. [task[t] EXCEPT !.at = step, !.rollback = v] = [e EXCEPT !.rollback = v]
  OBVIOUS
<1>3. [To(t, step) EXCEPT !.rollback = v] = Turned(t, step, task[t].now, task[t].applied, v, task[t].saved)
  BY DEF To, Turned
<1> HIDE DEF e
<1> QED
  BY <1>1, <1>2, <1>3

LEMMA SavedField ==
    ASSUME TypeOK, NEW t \in Tasks, NEW step, NEW v
    PROVE  [task[t] EXCEPT !.at = step, !.saved = v] =
               Turned(t, step, task[t].now, task[t].applied, task[t].rollback, v)
<1> DEFINE e == [task[t] EXCEPT !.at = step]
<1>1. e = To(t, step)
  BY AtField DEF TypeOK, To, Turned
<1>2. [task[t] EXCEPT !.at = step, !.saved = v] = [e EXCEPT !.saved = v]
  OBVIOUS
<1>3. [To(t, step) EXCEPT !.saved = v] = Turned(t, step, task[t].now, task[t].applied, task[t].rollback, v)
  BY DEF To, Turned
<1> HIDE DEF e
<1> QED
  BY <1>1, <1>2, <1>3

\* AfterDisable.
Continues(t) ==
    \/ task[t].mode = None /\ Becomes(t, Idle)
    \/ task[t].mode # None /\ Becomes(t, To(t, "write"))

LEMMA AfterDisabling ==
    ASSUME TypeInv, NEW t \in Commands, task[t].at \notin {"idle", "store", "push"},
           ~task[t].applied, AfterDisable(t), StateOK'
    PROVE  Continues(t) /\ TypeInv'
<1>1. t \in Tasks /\ TypeOK /\ "write" \in Steps
  BY DEF Tasks, TypeInv, Steps, AgentSteps
<1>2. Continues(t)
  BY <1>1, Ending, Going DEF AfterDisable, Continues
<1>3. AgentTask(Idle)
  BY <1>1 DEF AgentTask, Idle, Holds, CheckSteps
<1>4. AgentTask(task[t])
  BY <1>1, TaskIs
<1>5. AgentTask(To(t, "write")) \/ task[t].mode = None
  BY <1>4 DEF AgentTask, Holds, To, Turned, CheckSteps
<1>6. TypeInv'
  BY <1>1, <1>2, <1>3, <1>5, TypeStep, TaskIs DEF Continues
<1> QED
  BY <1>2, <1>6

\* A task of an agent goes on, goes to another step or is over.
LEMMA AgentTurns ==
    ASSUME TypeInv, NEW t \in Commands, NEW r \in Task, task' = [task EXCEPT ![t] = r],
           AgentTask(r), StateOK'
    PROVE  Becomes(t, r) /\ TypeInv'
<1>1. TypeOK /\ t \in Tasks
  BY DEF TypeInv, Tasks
<1>2. Becomes(t, r)
  BY <1>1, Changes
<1> QED
  BY <1>1, <1>2, TypeStep, TaskIs

LEMMA AgentGoes ==
    ASSUME TypeInv, NEW t \in Commands, NEW step \in Steps, Go(t, step), StateOK',
           AgentTask(To(t, step))
    PROVE  Becomes(t, To(t, step)) /\ TypeInv'
<1>1. TypeOK /\ t \in Tasks
  BY DEF TypeInv, Tasks
<1> QED
  BY <1>1, Going, TypeStep, TaskIs

LEMMA TaskEnds ==
    ASSUME TypeInv, NEW t \in Tasks, End(t), StateOK'
    PROVE  Becomes(t, Idle) /\ TypeInv'
<1>1. TypeOK /\ Becomes(t, Idle)
  BY Ending DEF TypeInv
<1>2. t \in Commands => AgentTask(Idle)
  BY DEF AgentTask, Holds, Idle, CheckSteps
<1>3. PacTask(Idle) /\ CheckTask(Idle)
  BY DEF PacTask, CheckTask, Idle
<1> QED
  BY <1>1, <1>2, <1>3, TypeStep

\* A PAC step of an agent or of a button is followed by another one, or was the last.
LEMMA PacTurns ==
    ASSUME TypeInv, NEW t \in Tasks, task[t].at \in PacSteps,
           NEW step \in PacSteps, NEW saved \in Value \cup {None},
           task[t].applied => step \in {"apply", "snapshot", "set", "save"},
           step = "reset" => saved # None, NEW r,
           r = Turned(t, step, task[t].now, task[t].applied, task[t].rollback, saved),
           task' = [task EXCEPT ![t] = r], StateOK'
    PROVE  Becomes(t, r) /\ TypeInv'
<1>1. TypeOK /\ task[t] \in Task
  BY TaskIs DEF TypeInv
<1>2. step \in Steps /\ step # "idle" /\ step \notin CheckSteps
      /\ step \notin {"rollback", "off", "write", "store", "push", "finish", "undo", "undo_config"}
  BY DEF Steps, PacSteps, CheckSteps
<1>3. r \in Task
  BY <1>1, <1>2, Turning, SMTT(60) DEF Task
<1>4. ASSUME t \in Commands PROVE AgentTask(r)
  <2>1. AgentTask(task[t]) /\ task[t].at # "idle"
    BY <1>4, TaskIs DEF PacSteps
  <2> QED
    BY <1>2, <1>4, <2>1 DEF AgentTask, Holds, Turned
<1>5. ASSUME t = "pac" PROVE PacTask(r)
  <2>1. PacTask(task[t])
    BY <1>5, TaskIs
  <2> QED
    BY <1>5, <2>1 DEF PacTask, Turned
<1>6. t # "reconcile"
  BY OnPac, ScenarioAssumption
<1>7. Becomes(t, r)
  BY <1>1, <1>3, Changes
<1> QED
  BY <1>4, <1>5, <1>6, <1>7, TypeStep

Finished(t) ==
    \/ task[t].applied /\ t \in Commands /\ Becomes(t, To(t, "finish"))
    \/ ~task[t].applied /\ Continues(t)

LEMMA AfterPacDone ==
    ASSUME TypeInv, NEW t \in Tasks, task[t].at \in PacSteps, AfterPac(t), StateOK'
    PROVE  Finished(t) /\ TypeInv'
<1>1. task[t].at # "idle" /\ "finish" \in Steps
  BY DEF PacSteps, Steps, AgentSteps
<1>2. CASE t \in Commands /\ task[t].agent \in Agents
  <2>1. task[t].agent # None /\ AgentTask(task[t]) /\ task[t].at \notin {"store", "push"}
    BY <1>2, TaskIs, NoneIsNone DEF PacSteps
  <2>2. CASE task[t].applied
    <3>1. Go(t, "finish")
      BY <2>2 DEF AfterPac
    <3>2. AgentTask(To(t, "finish"))
      BY <1>1, <2>1, <2>2 DEF AgentTask, Holds, To, Turned, CheckSteps
    <3> QED
      BY <1>1, <1>2, <2>2, <3>1, <3>2, AgentGoes DEF Finished
  <2>3. CASE ~task[t].applied
    <3>1. AfterDisable(t)
      BY <2>1, <2>3 DEF AfterPac
    <3> QED
      BY <1>1, <1>2, <2>1, <2>3, <3>1, AfterDisabling DEF Finished
  <2> QED
    BY <2>2, <2>3
<1>3. CASE t = "pac" /\ task[t].agent = None /\ ~task[t].applied
  <2>1. End(t) /\ task[t].mode = None
    BY <1>3, TaskIs DEF AfterPac, PacTask
  <2> QED
    BY <1>3, <2>1, TaskEnds DEF Finished, Continues
<1> QED
  BY <1>2, <1>3, OnPac

-----------------------------------------------------------------------------
\* The steps of disable.
LEMMA CurrentRead ==
    ASSUME TypeInv, NEW t \in Tasks, ReadCurrent(t)
    PROVE  /\ TypeInv' /\ t \in Commands /\ task[t].agent \in Agents
           /\ \/ /\ activation[task[t].agent].enabled
                 /\ Becomes(t, Turned(t, "rollback", activation[task[t].agent], task[t].applied,
                                      task[t].rollback, task[t].saved))
              \/ ~activation[task[t].agent].enabled /\ Continues(t)
<1> DEFINE a == task[t].agent
<1>1. t \in Commands /\ task[t].agent \in Agents /\ task[t] \in Task /\ AgentTask(task[t])
  BY OnAgent, TaskIs DEF ReadCurrent, At, AgentSteps
<1>2. ~task[t].applied /\ task[t].at = "current"
  BY <1>1 DEF AgentTask, ReadCurrent, At
<1>3. TypeOK /\ activation[a] \in Row
  BY <1>1 DEF TypeInv, TypeOK, StateOK
<1>4. StateOK'
  BY <1>3 DEF TypeOK, StateOK, ReadCurrent
<1> DEFINE r == Turned(t, "rollback", activation[a], task[t].applied, task[t].rollback, task[t].saved)
<1>5. CASE activation[a].enabled
  <2>1. task' = [task EXCEPT ![t] = r]
    <3>1. task' = [task EXCEPT ![t] = [task[t] EXCEPT !.at = "rollback", !.now = activation[a]]]
      BY <1>1, <1>5 DEF ReadCurrent
    <3>2. [task[t] EXCEPT !.at = "rollback", !.now = activation[a]] = r
      BY <1>3, NowField
    <3> HIDE DEF r
    <3> QED
      BY <3>1, <3>2
  <2>2. AgentTask(r)
    BY <1>1, <1>2, <1>3 DEF AgentTask, Holds, Turned, CheckSteps
  <2>3. /\ task[t].applied \in BOOLEAN /\ task[t].rollback \in Value \cup {None}
        /\ task[t].saved \in Value \cup {None} /\ "rollback" \in Steps
    BY <1>1 DEF Task, Steps, AgentSteps
  <2>4. r \in Task
    BY <1>3, <2>3, Turning
  <2>5. Becomes(t, r) /\ TypeInv'
    <3> HIDE DEF r
    <3> QED
      BY <1>1, <1>3, <1>4, <2>1, <2>2, <2>3, <2>4, AgentTurns
  <2> QED
    BY <1>1, <1>5, <2>5
<1>6. CASE ~activation[a].enabled
  BY <1>1, <1>2, <1>4, <1>6, AfterDisabling DEF ReadCurrent
<1> QED
  BY <1>5, <1>6

LEMMA ConfigRolledBack ==
    ASSUME TypeInv, NEW t \in Tasks, RollBackConfig(t)
    PROVE  TypeInv' /\ t \in Commands /\ task[t].agent \in Agents /\ Becomes(t, To(t, "off"))
<1>1. t \in Commands /\ task[t].agent \in Agents /\ task[t] \in Task /\ AgentTask(task[t])
  BY OnAgent, TaskIs DEF RollBackConfig, At, AgentSteps
<1>2. task[t].now \in Row /\ ~task[t].applied
  BY <1>1 DEF AgentTask, RollBackConfig, At
<1>3. StateOK'
  <2>1. task[t].now.rollback \in Value \cup {None}
    BY <1>2 DEF Row
  <2>2. config \in [Agents -> [value : Value, marked : BOOLEAN]]
    BY DEF TypeInv, TypeOK, StateOK
  <2>3. \A v \in Value : [value |-> v, marked |-> FALSE] \in [value : Value, marked : BOOLEAN]
    OBVIOUS
  <2>4. config' \in [Agents -> [value : Value, marked : BOOLEAN]]
    BY <1>1, <2>1, <2>2, <2>3 DEF RollBackConfig
  <2> QED
    BY <2>4 DEF TypeInv, TypeOK, StateOK, RollBackConfig
<1>4. AgentTask(To(t, "off")) /\ "off" \in Steps
  BY <1>1, <1>2 DEF AgentTask, Holds, To, Turned, CheckSteps, Steps, AgentSteps, RollBackConfig, At
<1> QED
  BY <1>1, <1>3, <1>4, AgentGoes DEF RollBackConfig

LEMMA OffStored ==
    ASSUME TypeInv, NEW t \in Tasks, StoreOff(t)
    PROVE  /\ TypeInv' /\ t \in Commands /\ task[t].agent \in Agents
           /\ activation' = [activation EXCEPT ![task[t].agent] = Off(task[t].now.mode)]
           /\ \/ task[t].now.mode = "SystemProxy" /\ Becomes(t, To(t, "others"))
              \/ task[t].now.mode # "SystemProxy" /\ Continues(t)
<1>1. t \in Commands /\ task[t].agent \in Agents /\ task[t] \in Task /\ AgentTask(task[t])
  BY OnAgent, TaskIs DEF StoreOff, At, AgentSteps
<1>2. task[t].now \in Row /\ ~task[t].applied /\ task[t].at = "off"
  BY <1>1 DEF AgentTask, StoreOff, At
<1>3. Off(task[t].now.mode) \in Row
  BY <1>2 DEF Off, Row
<1>4. StateOK'
  BY <1>1, <1>3 DEF TypeInv, TypeOK, StateOK, StoreOff
<1>5. AgentTask(To(t, "others")) /\ "others" \in Steps
  BY <1>1, <1>2 DEF AgentTask, Holds, To, Turned, CheckSteps, Steps, AgentSteps
<1>6. activation' = [activation EXCEPT ![task[t].agent] = Off(task[t].now.mode)]
  BY <1>1 DEF StoreOff
<1>7. CASE task[t].now.mode = "SystemProxy"
  BY <1>1, <1>4, <1>5, <1>6, <1>7, AgentGoes DEF StoreOff
<1>8. CASE task[t].now.mode # "SystemProxy"
  BY <1>1, <1>2, <1>4, <1>6, <1>8, AfterDisabling DEF StoreOff
<1> QED
  BY <1>7, <1>8

LEMMA OthersChecked ==
    ASSUME TypeInv, NEW t \in Tasks, CheckOthers(t)
    PROVE  /\ TypeInv' /\ t \in Commands /\ task[t].agent \in Agents /\ ~task[t].applied
           /\ \/ PacNeeded /\ Becomes(t, To(t, "apply"))
              \/ ~PacNeeded /\ Becomes(t, To(t, "restore"))
<1>1. t \in Commands /\ task[t].agent \in Agents /\ task[t] \in Task /\ AgentTask(task[t])
  BY OnAgent, TaskIs DEF CheckOthers, At, AgentSteps
<1>2. ~task[t].applied /\ task[t].at = "others"
  BY <1>1 DEF AgentTask, CheckOthers, At
<1>3. StateOK'
  BY DEF TypeInv, TypeOK, StateOK, CheckOthers
<1>4. ASSUME NEW step \in {"apply", "restore"} PROVE AgentTask(To(t, step)) /\ step \in Steps
  BY <1>1, <1>2 DEF AgentTask, Holds, To, Turned, CheckSteps, Steps, PacSteps
<1>5. CASE PacNeeded
  BY <1>1, <1>2, <1>3, <1>4, <1>5, AgentGoes DEF CheckOthers
<1>6. CASE ~PacNeeded
  BY <1>1, <1>2, <1>3, <1>4, <1>6, AgentGoes DEF CheckOthers
<1> QED
  BY <1>5, <1>6
-----------------------------------------------------------------------------
\* The steps of enable.
LEMMA GivesUp ==
    ASSUME TypeInv, NEW t \in Tasks, Untrusted(t)
    PROVE  /\ TypeInv' /\ t \in Commands /\ task[t].agent \in Agents /\ task[t].at = "write"
           /\ Becomes(t, Idle)
<1>1. t \in Commands /\ task[t].agent \in Agents /\ task[t].at = "write"
  BY OnAgent DEF Untrusted, At, AgentSteps
<1>2. StateOK'
  BY DEF TypeInv, TypeOK, StateOK, Untrusted
<1> QED
  BY <1>1, <1>2, TaskEnds DEF Untrusted

LEMMA ConfigWritten ==
    ASSUME TypeInv, NEW t \in Tasks, WriteConfig(t)
    PROVE  /\ TypeInv' /\ t \in Commands /\ task[t].agent \in Agents /\ ~task[t].applied
           /\ \/ /\ WritesConfig(task[t].agent, task[t].mode)
                 /\ config' = [config EXCEPT ![task[t].agent] = [value |-> Ours, marked |-> TRUE]]
                 /\ Becomes(t, Turned(t, "store", task[t].now, task[t].applied, config[task[t].agent].value,
                                      task[t].saved))
              \/ /\ ~WritesConfig(task[t].agent, task[t].mode)
                 /\ config' = config
                 /\ Becomes(t, To(t, "store"))
<1> DEFINE a == task[t].agent
<1>1. t \in Commands /\ task[t].agent \in Agents /\ task[t] \in Task /\ AgentTask(task[t])
  BY OnAgent, TaskIs DEF WriteConfig, At, AgentSteps
<1>2. ~task[t].applied /\ task[t].at = "write" /\ TypeOK
  BY <1>1 DEF AgentTask, WriteConfig, At, TypeInv
<1>3. StateOK'
  <2>1. config \in [Agents -> [value : Value, marked : BOOLEAN]]
    BY DEF TypeInv, TypeOK, StateOK
  <2>2. [value |-> Ours, marked |-> TRUE] \in [value : Value, marked : BOOLEAN]
    BY DEF Value
  <2>3. config' \in [Agents -> [value : Value, marked : BOOLEAN]]
    BY <1>1, <2>1, <2>2 DEF WriteConfig
  <2> QED
    BY <2>3 DEF TypeInv, TypeOK, StateOK, WriteConfig
<1>4. "store" \in Steps
  BY DEF Steps, AgentSteps
<1> DEFINE r == Turned(t, "store", task[t].now, task[t].applied, config[a].value, task[t].saved)
<1>5. CASE WritesConfig(a, task[t].mode)
  <2>1. task' = [task EXCEPT ![t] = r]
    <3>1. task' = [task EXCEPT ![t] = [task[t] EXCEPT !.at = "store", !.rollback = config[a].value]]
      BY <1>1, <1>5 DEF WriteConfig
    <3>2. [task[t] EXCEPT !.at = "store", !.rollback = config[a].value] = r
      BY <1>2, RollbackField
    <3> HIDE DEF r
    <3> QED
      BY <3>1, <3>2
  <2>0. config[a].value \in Value
    BY <1>1 DEF TypeInv, TypeOK, StateOK
  <2>2. AgentTask(r)
    <3>1. config[a].value # None
      BY <2>0, NoneAssumption DEF Value, User, Ours
    <3> QED
      BY <1>1, <1>2, <3>1 DEF AgentTask, Holds, Turned, CheckSteps
  <2>3. /\ task[t].applied \in BOOLEAN /\ config[a].value \in Value \cup {None}
        /\ task[t].saved \in Value \cup {None} /\ task[t].now \in Row \cup {None}
    BY <1>1 DEF Task, TypeInv, TypeOK, StateOK
  <2>4. r \in Task
    BY <1>2, <1>4, <2>3, Turning
  <2>5. Becomes(t, r) /\ TypeInv'
    <3> HIDE DEF r
    <3> QED
      BY <1>1, <1>3, <1>4, <2>1, <2>2, <2>3, <2>4, AgentTurns
  <2>6. config' = [config EXCEPT ![a] = [value |-> Ours, marked |-> TRUE]]
    BY <1>1, <1>5 DEF WriteConfig
  <2> QED
    BY <1>1, <1>2, <1>5, <2>5, <2>6
<1>6. CASE ~WritesConfig(a, task[t].mode)
  <2>1. AgentTask(To(t, "store"))
    BY <1>1, <1>2, <1>6 DEF AgentTask, Holds, To, Turned, CheckSteps
  <2> QED
    BY <1>1, <1>2, <1>3, <1>4, <1>6, <2>1, AgentGoes DEF WriteConfig
<1> QED
  BY <1>5, <1>6

On(t) == [enabled |-> TRUE, mode |-> task[t].mode, rollback |-> task[t].rollback]

LEMMA OnStored ==
    ASSUME TypeInv, NEW t \in Tasks, StoreOn(t)
    PROVE  /\ TypeInv' /\ t \in Commands /\ task[t].agent \in Agents
           /\ activation' = [activation EXCEPT ![task[t].agent] = On(t)]
           /\ \/ /\ task[t].at = "store" /\ task[t].mode = "SystemProxy"
                 /\ Becomes(t, To(t, "push"))
              \/ task[t].at = "store" /\ task[t].mode # "SystemProxy" /\ Becomes(t, Idle)
              \/ task[t].at = "finish" /\ Becomes(t, Idle)
<1>1. t \in Commands /\ task[t].agent \in Agents /\ task[t] \in Task /\ AgentTask(task[t])
  BY OnAgent, TaskIs DEF StoreOn, At, AgentSteps
<1>2. activation' = [activation EXCEPT ![task[t].agent] = On(t)]
  BY DEF StoreOn, On
<1>3. StateOK'
  <2>1. On(t) \in Row
    BY <1>1 DEF On, Row, Task
  <2> QED
    BY <1>1, <1>2, <2>1 DEF TypeInv, TypeOK, StateOK, StoreOn
<1>4. CASE At(t, "store") /\ task[t].mode = "SystemProxy"
  <2>1. AgentTask(To(t, "push")) /\ "push" \in Steps
    BY <1>1, <1>4 DEF AgentTask, Holds, To, Turned, CheckSteps, At, Steps, AgentSteps
  <2> QED
    BY <1>1, <1>2, <1>3, <1>4, <2>1, AgentGoes DEF At, StoreOn
<1>5. CASE ~(At(t, "store") /\ task[t].mode = "SystemProxy")
  <2>1. End(t) /\ (task[t].at = "store" \/ task[t].at = "finish")
    BY <1>5 DEF StoreOn, At
  <2> QED
    BY <1>1, <1>2, <1>3, <1>5, <2>1, TaskEnds DEF At
<1> QED
  BY <1>4, <1>5

LEMMA Pushed ==
    ASSUME TypeInv, NEW t \in Tasks, PushConfig(t)
    PROVE  /\ TypeInv' /\ t \in Commands /\ task[t].agent \in Agents
           /\ Becomes(t, Turned(t, "apply", task[t].now, TRUE, task[t].rollback, task[t].saved))
<1>1. t \in Commands /\ task[t].agent \in Agents /\ task[t] \in Task /\ AgentTask(task[t])
      /\ task[t].at = "push" /\ TypeOK
  BY OnAgent, TaskIs DEF PushConfig, At, AgentSteps, TypeInv
<1>2. StateOK'
  BY DEF TypeInv, TypeOK, StateOK, PushConfig
<1> DEFINE r == Turned(t, "apply", task[t].now, TRUE, task[t].rollback, task[t].saved)
<1>3. task' = [task EXCEPT ![t] = r]
  <2>1. task' = [task EXCEPT ![t] = [task[t] EXCEPT !.at = "apply", !.applied = TRUE]]
    BY DEF PushConfig
  <2>2. [task[t] EXCEPT !.at = "apply", !.applied = TRUE] = r
    BY <1>1, AppliedField
  <2> HIDE DEF r
  <2> QED
    BY <2>1, <2>2
<1>4. AgentTask(r)
  BY <1>1 DEF AgentTask, Holds, Turned, CheckSteps
<1>5. /\ task[t].rollback \in Value \cup {None} /\ "apply" \in Steps
      /\ task[t].saved \in Value \cup {None} /\ task[t].now \in Row \cup {None}
  BY <1>1 DEF Task, Steps, PacSteps
<1>6. r \in Task
  BY <1>1, <1>5, Turning
<1> HIDE DEF r
<1>7. Becomes(t, r) /\ TypeInv'
  BY <1>1, <1>2, <1>3, <1>4, <1>6, AgentTurns
<1> QED
  BY <1>1, <1>7 DEF r

LEMMA StoreUndone ==
    ASSUME TypeInv, NEW t \in Tasks, UndoStore(t)
    PROVE  /\ TypeInv' /\ t \in Commands /\ task[t].agent \in Agents /\ task[t].applied
           /\ activation' = [activation EXCEPT ![task[t].agent] = task[t].before]
           /\ Becomes(t, To(t, "undo_config"))
<1>1. t \in Commands /\ task[t].agent \in Agents /\ task[t] \in Task /\ AgentTask(task[t])
  BY OnAgent, TaskIs DEF UndoStore, At, AgentSteps
<1>2. task[t].at = "undo" /\ task[t].applied
  BY <1>1 DEF AgentTask, UndoStore, At
<1>3. task[t].mode = "SystemProxy"
  BY <1>1, <1>2 DEF AgentTask
<1>4. task[t].before \in Row
  BY <1>1, <1>3, NoneAssumption DEF AgentTask
<1>5. activation' = [activation EXCEPT ![task[t].agent] = task[t].before]
  BY <1>1 DEF UndoStore
<1>6. StateOK'
  BY <1>1, <1>4, <1>5 DEF TypeInv, TypeOK, StateOK, UndoStore, Parts
<1>7. AgentTask(To(t, "undo_config")) /\ "undo_config" \in Steps
  BY <1>1, <1>2 DEF AgentTask, Holds, To, Turned, CheckSteps, Steps, AgentSteps
<1> QED
  BY <1>1, <1>2, <1>5, <1>6, <1>7, AgentGoes DEF UndoStore

LEMMA ConfigUndone ==
    ASSUME TypeInv, NEW t \in Tasks, UndoConfig(t)
    PROVE  /\ TypeInv' /\ t \in Commands /\ task[t].agent \in Agents /\ task[t].applied
           /\ Becomes(t, Idle)
<1>1. t \in Commands /\ task[t].agent \in Agents /\ task[t] \in Task /\ AgentTask(task[t])
  BY OnAgent, TaskIs DEF UndoConfig, At, AgentSteps
<1>2. task[t].applied /\ task[t].rollback \in Value \cup {None}
  BY <1>1 DEF AgentTask, UndoConfig, At, Task
<1>3. StateOK'
  <2>0. task[t].agent = "Claude" => task[t].rollback \in Value
    BY <1>1, <1>2 DEF AgentTask, Holds, WritesConfig
  <2>1. config \in [Agents -> [value : Value, marked : BOOLEAN]]
    BY DEF TypeInv, TypeOK, StateOK
  <2>2. \A v \in Value : [value |-> v, marked |-> FALSE] \in [value : Value, marked : BOOLEAN]
    OBVIOUS
  <2>3. config' \in [Agents -> [value : Value, marked : BOOLEAN]]
    BY <1>1, <2>0, <2>1, <2>2 DEF UndoConfig
  <2> QED
    BY <2>3 DEF TypeInv, TypeOK, StateOK, UndoConfig
<1> QED
  BY <1>1, <1>2, <1>3, TaskEnds DEF UndoConfig
-----------------------------------------------------------------------------
\* The steps of apply_system_pac and restore_system_pac.
LEMMA BackupRead ==
    ASSUME TypeInv, NEW t \in Tasks, ReadBackup(t)
    PROVE  /\ TypeInv' /\ task[t].at \in {"apply", "restore"}
           /\ \/ task[t].at = "restore" /\ backup = None /\ Finished(t)
              \/ /\ task[t].at = "apply"
                 /\ Becomes(t, Turned(t, "snapshot", task[t].now, task[t].applied,
                                      task[t].rollback, backup))
              \/ /\ task[t].at = "restore" /\ backup # None
                 /\ Becomes(t, Turned(t, "reset", task[t].now, task[t].applied,
                                      task[t].rollback, backup))
<1>1. task[t].at \in PacSteps /\ task[t].at \in {"apply", "restore"}
  BY DEF ReadBackup, At, PacSteps
<1>2. StateOK' /\ backup \in Value \cup {None}
  BY DEF TypeInv, TypeOK, StateOK, ReadBackup
<1>5. TypeOK
  BY DEF TypeInv
<1>3. CASE At(t, "restore") /\ backup = None
  BY <1>1, <1>2, <1>3, AfterPacDone DEF ReadBackup, At
<1>4. CASE ~(At(t, "restore") /\ backup = None)
  <2>1. CASE task[t].at = "apply"
    <3> DEFINE r == Turned(t, "snapshot", task[t].now, task[t].applied, task[t].rollback, backup)
    <3>1. task' = [task EXCEPT ![t] = r]
      <4>1. task' = [task EXCEPT ![t] = [task[t] EXCEPT !.at = "snapshot", !.saved = backup]]
        BY <1>4, <2>1 DEF ReadBackup, At
      <4>2. [task[t] EXCEPT !.at = "snapshot", !.saved = backup] = r
        BY <1>5, SavedField
      <4> HIDE DEF r
      <4> QED
        BY <4>1, <4>2
    <3>2. Becomes(t, r) /\ TypeInv'
      BY <1>1, <1>2, <3>1, PacTurns DEF PacSteps
    <3> QED
      BY <1>1, <2>1, <3>2
  <2>2. CASE task[t].at = "restore"
    <3> DEFINE r == Turned(t, "reset", task[t].now, task[t].applied, task[t].rollback, backup)
    <3>1. task' = [task EXCEPT ![t] = r]
      <4>1. task' = [task EXCEPT ![t] = [task[t] EXCEPT !.at = "reset", !.saved = backup]]
        BY <1>4, <2>2 DEF ReadBackup, At
      <4>2. [task[t] EXCEPT !.at = "reset", !.saved = backup] = r
        BY <1>5, SavedField
      <4> HIDE DEF r
      <4> QED
        BY <4>1, <4>2
    <3>2. ~task[t].applied
      BY <2>2, OnPac, TaskIs DEF AgentTask, PacSteps
    <3>3. Becomes(t, r) /\ TypeInv'
      BY <1>1, <1>2, <1>4, <2>2, <3>1, <3>2, PacTurns DEF PacSteps, At
    <3> QED
      BY <1>1, <1>4, <2>2, <3>3 DEF At
  <2> QED
    BY <1>1, <2>1, <2>2
<1> QED
  BY <1>3, <1>4

LEMMA SnapshotTaken ==
    ASSUME TypeInv, NEW t \in Tasks, Snapshot(t)
    PROVE  /\ TypeInv'
           /\ Becomes(t, Turned(t, "set", task[t].now, task[t].applied, task[t].rollback,
                                IF task[t].saved = None THEN pac ELSE task[t].saved))
<1> DEFINE v == IF task[t].saved = None THEN pac ELSE task[t].saved
           r == Turned(t, "set", task[t].now, task[t].applied, task[t].rollback, v)
<1>1. task[t].at \in PacSteps /\ task[t] \in Task /\ TypeOK
  BY TaskIs DEF Snapshot, At, PacSteps, TypeInv
<1>2. StateOK' /\ pac \in Value
  BY DEF TypeInv, TypeOK, StateOK, Snapshot
<1>3. v \in Value \cup {None}
  BY <1>1, <1>2 DEF Task
<1>4. task' = [task EXCEPT ![t] = r]
  <2>1. task' = [task EXCEPT ![t] = [task[t] EXCEPT !.at = "set", !.saved = v]]
    BY DEF Snapshot
  <2> HIDE DEF v
  <2>2. [task[t] EXCEPT !.at = "set", !.saved = v] = r
    BY <1>1, SavedField
  <2> HIDE DEF r
  <2> QED
    BY <2>1, <2>2
<1>5. Becomes(t, r) /\ TypeInv'
  <2> HIDE DEF v
  <2> QED
    BY <1>1, <1>2, <1>3, <1>4, PacTurns DEF PacSteps
<1> QED
  BY <1>5

LEMMA PacSet ==
    ASSUME TypeInv, NEW t \in Tasks, SetPac(t)
    PROVE  TypeInv' /\ Becomes(t, To(t, "save"))
<1>1. task[t].at \in PacSteps /\ task[t] \in Task /\ TypeOK
  BY TaskIs DEF SetPac, At, PacSteps, TypeInv
<1>2. StateOK'
  BY DEF TypeInv, TypeOK, StateOK, SetPac, Value
<1>3. task' = [task EXCEPT ![t] = To(t, "save")]
  <2>1. [task[t] EXCEPT !.at = "save"] = To(t, "save")
    BY <1>1, AtField DEF To, Turned
  <2> QED
    BY <2>1 DEF SetPac, Go
<1>4. task[t].saved \in Value \cup {None}
  BY <1>1 DEF Task
<1> QED
  BY <1>1, <1>2, <1>3, <1>4, PacTurns DEF To, PacSteps

LEMMA BackupStored ==
    ASSUME TypeInv, NEW t \in Tasks, SaveBackup(t) \/ DropBackup(t)
    PROVE  TypeInv' /\ Finished(t)
<1>1. task[t].at \in PacSteps /\ task[t] \in Task
  BY TaskIs DEF SaveBackup, DropBackup, At, PacSteps
<1>2. StateOK'
  BY <1>1 DEF TypeInv, TypeOK, StateOK, SaveBackup, DropBackup, Task
<1> QED
  BY <1>1, <1>2, AfterPacDone DEF SaveBackup, DropBackup

LEMMA PacReset ==
    ASSUME TypeInv, NEW t \in Tasks, ResetPac(t)
    PROVE  TypeInv' /\ Becomes(t, To(t, "drop"))
<1>1. task[t].at \in PacSteps /\ task[t] \in Task /\ TypeOK
  BY TaskIs DEF ResetPac, At, PacSteps, TypeInv
<1>2. StateOK' /\ ~task[t].applied
  <2>0. task[t].saved # None
    BY <1>1, OnPac, TaskIs DEF ResetPac, At, AgentTask, PacTask
  <2>1. StateOK'
    BY <1>1, <2>0 DEF TypeInv, TypeOK, StateOK, ResetPac, Task
  <2>2. ~task[t].applied
    BY <1>1, OnPac, TaskIs DEF ResetPac, At, AgentTask
  <2> QED
    BY <2>1, <2>2
<1>3. task' = [task EXCEPT ![t] = To(t, "drop")]
  <2>1. [task[t] EXCEPT !.at = "drop"] = To(t, "drop")
    BY <1>1, AtField DEF To, Turned
  <2> QED
    BY <2>1 DEF ResetPac, Go
<1>4. task[t].saved \in Value \cup {None}
  BY <1>1 DEF Task
<1> QED
  BY <1>1, <1>2, <1>3, <1>4, PacTurns DEF To, PacSteps

\* A step that fails makes enable undo its work, and ends any other command.
GivenUp(t) ==
    \/ t \in Commands /\ task[t].agent \in Agents /\ task[t].applied /\ Becomes(t, To(t, "undo"))
    \/ ~task[t].applied /\ Becomes(t, Idle)

LEMMA GivingUp ==
    ASSUME TypeInv, NEW t \in Tasks, task[t].at # "idle", GiveUp(t), StateOK'
    PROVE  TypeInv' /\ GivenUp(t)
<1>1. CASE task[t].applied
  <2>1. t \in Commands /\ AgentTask(task[t]) /\ task[t].agent \in Agents
    BY <1>1, TaskIs DEF Tasks, PacTask, CheckTask, AgentTask
  <2>2. "undo" \in Steps /\ AgentTask(To(t, "undo"))
    BY <1>1, <2>1 DEF AgentTask, Holds, To, Turned, CheckSteps, Steps, AgentSteps
  <2> QED
    BY <1>1, <2>1, <2>2, AgentGoes DEF GiveUp, GivenUp
<1>2. CASE ~task[t].applied
  BY <1>2, TaskEnds DEF GiveUp, GivenUp
<1> QED
  BY <1>1, <1>2

LEMMA PromptGone ==
    ASSUME TypeInv, NEW t \in Tasks, PromptDismissed(t)
    PROVE  TypeInv' /\ GivenUp(t) /\ task[t].at \in PacSteps
<1>1. task[t].at \in PacSteps /\ task[t].at # "idle"
  BY DEF PromptDismissed, At, PacSteps
<1>2. StateOK'
  BY Used DEF TypeInv, TypeOK, StateOK, PromptDismissed, Events
<1> QED
  BY <1>1, <1>2, GivingUp DEF PromptDismissed

LEMMA FileFailed ==
    ASSUME TypeInv, NEW t \in Tasks, FileFails(t)
    PROVE  /\ TypeInv' /\ t \in Commands /\ task[t].agent \in Agents
           /\ task[t].at \in {"write", "rollback", "undo_config"} /\ Becomes(t, Idle)
<1>1. task[t].at \in {"write", "rollback", "undo_config"}
  BY DEF FileFails, At
<1>2. t \in Commands /\ task[t].agent \in Agents
  BY <1>1, OnAgent DEF AgentSteps
<1>3. StateOK'
  BY Used, HalfParts DEF TypeInv, TypeOK, StateOK, FileFails, Events
<1> QED
  BY <1>1, <1>2, <1>3, TaskEnds DEF FileFails

LEMMA DatabaseFailed ==
    ASSUME TypeInv, NEW t \in Tasks, DatabaseFails(t)
    PROVE  /\ TypeInv' /\ task[t].at # "idle"
           /\ \/ task[t].at = "undo" /\ Becomes(t, To(t, "undo_config"))
              \/ task[t].at = "finish" /\ Becomes(t, Idle)
              \/ task[t].at \notin {"undo", "finish"} /\ GivenUp(t)
<1>1. task[t].at # "idle" /\ "database" \in Events
  BY DEF DatabaseFails, Events
<1>2. StateOK'
  <2>1. parted' \subseteq Parts
    BY HalfParts DEF DatabaseFails, TypeInv, TypeOK, StateOK, Parts
  <2> QED
    BY <2>1, Used DEF TypeInv, TypeOK, StateOK, DatabaseFails, Events
<1>4. CASE At(t, "undo")
  <2>1. t \in Commands /\ AgentTask(task[t]) /\ task[t].applied
    BY <1>4, OnAgent, TaskIs DEF At, AgentSteps, AgentTask
  <2>2. "undo_config" \in Steps /\ AgentTask(To(t, "undo_config"))
    BY <1>4, <2>1 DEF AgentTask, Holds, To, Turned, CheckSteps, Steps, AgentSteps, At
  <2> QED
    BY <1>1, <1>2, <1>4, <2>1, <2>2, AgentGoes DEF DatabaseFails, At
<1>5. CASE ~At(t, "undo") /\ At(t, "finish")
  BY <1>1, <1>2, <1>5, TaskEnds DEF DatabaseFails, At
<1>6. CASE ~At(t, "undo") /\ ~At(t, "finish")
  BY <1>1, <1>2, <1>6, GivingUp DEF DatabaseFails, At
<1> QED
  BY <1>4, <1>5, <1>6
-----------------------------------------------------------------------------
\* The commands begin, where none runs in the slot; with nothing else under way unless commands
\* may overlap.
Free(t) == task[t].at = "idle" /\ (OneByOne => \A s \in Tasks : task[s].at = "idle")

LEMMA StartsFree ==
    ASSUME TypeInv, NEW t \in Tasks, At(t, "idle"), MayStart
    PROVE  Free(t)
  BY DEF MayStart, Free, Quiet, At, OneByOne

Start(a, step, mode, before, applied) ==
    [at |-> step, agent |-> a, mode |-> mode, before |-> before, now |-> None,
     applied |-> applied, rollback |-> None, saved |-> None]
Begun(a, step, mode, before) == Start(a, step, mode, before, Idle.applied)

LEMMA StartAt ==
    ASSUME NEW a, NEW step, NEW mode, NEW before, NEW applied, NEW v
    PROVE  [Start(a, step, mode, before, applied) EXCEPT !.at = v] = Start(a, v, mode, before, applied)
  BY DEF Start

LEMMA StartAgent ==
    ASSUME NEW a, NEW step, NEW mode, NEW before, NEW applied, NEW v
    PROVE  [Start(a, step, mode, before, applied) EXCEPT !.agent = v] = Start(v, step, mode, before, applied)
  BY DEF Start

LEMMA StartMode ==
    ASSUME NEW a, NEW step, NEW mode, NEW before, NEW applied, NEW v
    PROVE  [Start(a, step, mode, before, applied) EXCEPT !.mode = v] = Start(a, step, v, before, applied)
  BY DEF Start

LEMMA StartBefore ==
    ASSUME NEW a, NEW step, NEW mode, NEW before, NEW applied, NEW v
    PROVE  [Start(a, step, mode, before, applied) EXCEPT !.before = v] = Start(a, step, mode, v, applied)
  BY DEF Start

Fresh(r) == r = Start(None, "idle", None, None, r.applied)

LEMMA BeginFields ==
    ASSUME NEW r, Fresh(r),
           NEW a, NEW step, NEW mode, NEW before
    PROVE  [r EXCEPT !.at = step, !.agent = a, !.mode = mode, !.before = before] =
               Start(a, step, mode, before, r.applied)
<1> DEFINE c == [r EXCEPT !.at = step]
           e == [c EXCEPT !.agent = a]
           f == [e EXCEPT !.mode = mode]
<1>1. c = Start(None, step, None, None, r.applied)
  BY StartAt DEF Fresh
<1>2. e = Start(a, step, None, None, r.applied)
  <2> HIDE DEF c
  <2> QED
    BY <1>1, StartAgent
<1>3. f = Start(a, step, mode, None, r.applied)
  <2> HIDE DEF e
  <2> QED
    BY <1>2, StartMode
<1>4. [f EXCEPT !.before = before] = Start(a, step, mode, before, r.applied)
  <2> HIDE DEF f
  <2> QED
    BY <1>3, StartBefore
<1>5. [r EXCEPT !.at = step, !.agent = a, !.mode = mode, !.before = before] =
          [f EXCEPT !.before = before]
  OBVIOUS
<1> HIDE DEF f
<1> QED
  BY <1>4, <1>5

LEMMA IdleStart == Fresh(Idle)
  BY DEF Idle, Start, Fresh

Read(a, mode) == IF mode = None THEN None ELSE activation[a]
Unshared(t, a) == ~collided' => \A s \in Commands : task[s].at = "idle" \/ task[s].agent # a

LEMMA Begins ==
    ASSUME TypeInv, NEW t \in Commands, NEW a \in Agents, NEW mode \in Modes \cup {None},
           NEW step \in {"current", "write"}, step = "write" => mode # None,
           Begin(t, a, mode, step)
    PROVE  /\ TypeInv' /\ Free(t) /\ Becomes(t, Begun(a, step, mode, Read(a, mode)))
           /\ Unshared(t, a)
<1> DEFINE r == Begun(a, step, mode, Read(a, mode))
<1>1. t \in Tasks /\ "command" \in Events /\ activation[a] \in Row
  BY DEF TypeInv, TypeOK, StateOK, Tasks, Events
<1>2. StateOK'
  BY <1>1, Used DEF TypeInv, TypeOK, StateOK, Begin
<1>3. task' = [task EXCEPT ![t] = r]
  <2>1. task' = [task EXCEPT ![t] = [Idle EXCEPT !.at = step, !.agent = a, !.mode = mode,
                                                 !.before = Read(a, mode)]]
    BY DEF Begin, Read
  <2>2. [Idle EXCEPT !.at = step, !.agent = a, !.mode = mode, !.before = Read(a, mode)] = r
    BY BeginFields, IdleStart DEF Begun
  <2> HIDE DEF r
  <2> QED
    BY <2>1, <2>2
<1>4. Read(a, mode) \in Row \cup {None} /\ (mode # None => Read(a, mode) \in Row)
  BY <1>1 DEF Read
<1>5. r \in Task
  BY <1>4 DEF Begun, Start, Idle, Task, Steps, AgentSteps
<1>6. AgentTask(r)
  BY <1>4 DEF Begun, Start, Idle, AgentTask, Holds, CheckSteps
<1> HIDE DEF r
<1>7. TypeInv' /\ Becomes(t, r)
  BY <1>2, <1>3, <1>5, <1>6, AgentTurns
<1>8. Free(t)
  BY <1>1, StartsFree DEF Begin
<1>9. Unshared(t, a)
  BY DEF Begin, Unshared, At
<1> QED
  BY <1>7, <1>8, <1>9 DEF r

LEMMA Disabling ==
    ASSUME TypeInv, NEW t \in Commands, NEW a \in Agents, Disable(t, a)
    PROVE  /\ TypeInv' /\ Free(t) /\ Becomes(t, Begun(a, "current", None, None))
           /\ Unshared(t, a)
<1>1. Begin(t, a, None, "current") /\ Read(a, None) = None
  BY DEF Disable, Read
<1>2. Becomes(t, Begun(a, "current", None, Read(a, None))) /\ TypeInv' /\ Free(t) /\ Unshared(t, a)
  BY <1>1, Begins
<1> QED
  BY <1>1, <1>2

LEMMA Enabling ==
    ASSUME TypeInv, NEW t \in Commands, NEW a \in Agents, NEW m \in Modes, Enable(t, a, m)
    PROVE  /\ TypeInv' /\ Free(t) /\ m # None /\ Unshared(t, a)
           /\ Becomes(t, Begun(a, IF activation[a].enabled THEN "current" ELSE "write", m,
                               activation[a]))
<1> DEFINE step == IF activation[a].enabled THEN "current" ELSE "write"
<1>1. m # None /\ step \in {"current", "write"}
  BY NoneIsNone
<1>2. Begin(t, a, m, step) /\ Read(a, m) = activation[a]
  BY <1>1 DEF Enable, Read
<1> HIDE DEF step
<1>3. Becomes(t, Begun(a, step, m, Read(a, m))) /\ TypeInv' /\ Free(t) /\ Unshared(t, a)
  BY <1>1, <1>2, Begins
<1> QED
  BY <1>1, <1>2, <1>3 DEF step

LEMMA ButtonPressed ==
    ASSUME TypeInv, PacReapply \/ PacRestore
    PROVE  /\ TypeInv' /\ Free("pac")
           /\ \E step \in {"apply", "restore"} : Becomes("pac", To("pac", step))
<1>1. "pac" \in Tasks /\ StateOK' /\ TypeOK /\ "pac" \notin Commands
  BY ScenarioAssumption DEF TypeInv, TypeOK, StateOK, PacReapply, PacRestore, Use, Tasks
<1>2. PICK step \in {"apply", "restore"} : Go("pac", step)
  BY DEF PacReapply, PacRestore
<1>3. step \in Steps /\ PacTask(task["pac"])
  BY <1>1, TaskIs DEF Steps, PacSteps
<1>4. Becomes("pac", To("pac", step))
  BY <1>1, <1>2, <1>3, Going
<1>5. PacTask(To("pac", step))
  BY <1>3 DEF PacTask, To, Turned, PacSteps
<1>6. TypeInv'
  BY <1>1, <1>4, <1>5, TypeStep
<1>7. Free("pac")
  BY <1>1, StartsFree DEF PacReapply, PacRestore
<1> QED
  BY <1>4, <1>6, <1>7
-----------------------------------------------------------------------------
\* The self-check, the user and the death of the application.
LEMMA Reconciles ==
    ASSUME TypeInv, NEW a \in Agents, Reconcile(a)
    PROVE  /\ TypeInv' /\ Free("reconcile") /\ "reconcile" \in Tasks
           /\ \E r \in Task : /\ Becomes("reconcile", r)
                              /\ r.at = "detect" /\ r.agent = a /\ r.now = activation[a]
                              /\ ~r.applied
<1>1. "reconcile" \in Tasks /\ "reconcile" \notin Commands /\ TypeOK /\ activation[a] \in Row
  BY ScenarioAssumption DEF Tasks, TypeInv, TypeOK, StateOK
<1>2. StateOK'
  BY DEF TypeInv, TypeOK, StateOK, Reconcile
<1> DEFINE r == [Idle EXCEPT !.at = "detect", !.agent = a, !.now = activation[a]]
<1>3. r \in Task /\ r.at = "detect" /\ r.agent = a /\ r.now = activation[a] /\ ~r.applied
  <2> DEFINE c == [Idle EXCEPT !.at = "detect"]
             e == [c EXCEPT !.agent = a]
  <2>0. ~Idle.applied
    BY DEF Idle
  <2>1. c \in Task /\ c.at = "detect" /\ ~c.applied
    BY <2>0, IdleTask DEF Task, Steps, CheckSteps
  <2>2. e \in Task /\ e.at = "detect" /\ e.agent = a /\ ~e.applied
    <3> HIDE DEF c
    <3> QED
      BY <2>1 DEF Task
  <2>3. r = [e EXCEPT !.now = activation[a]]
    OBVIOUS
  <2> HIDE DEF e
  <2>4. [e EXCEPT !.now = activation[a]] \in Task
    BY <1>1, <2>2 DEF Task
  <2>5. /\ [e EXCEPT !.now = activation[a]].at = "detect"
        /\ [e EXCEPT !.now = activation[a]].agent = a
        /\ [e EXCEPT !.now = activation[a]].now = activation[a]
        /\ ~[e EXCEPT !.now = activation[a]].applied
    BY <1>1, <2>2 DEF Task
  <2> QED
    BY <2>3, <2>4, <2>5
<1>4. task' = [task EXCEPT !["reconcile"] = r]
  BY DEF Reconcile
<1> HIDE DEF r
<1>5. Becomes("reconcile", r)
  BY <1>1, <1>3, <1>4, Changes
<1>6. CheckTask(r)
  BY <1>1, <1>3 DEF CheckTask, CheckSteps
<1>7. TypeInv'
  BY <1>1, <1>2, <1>5, <1>6, TypeStep
<1>8. Free("reconcile")
  BY <1>1, StartsFree DEF Reconcile
<1> QED
  BY <1>1, <1>3, <1>5, <1>7, <1>8

LEMMA Detects ==
    ASSUME TypeInv, Detect
    PROVE  /\ TypeInv' /\ "reconcile" \in Tasks
           /\ \/ Becomes("reconcile", Idle)
              \/ /\ ~config[task["reconcile"].agent].marked
                 /\ task["reconcile"].agent \in Agents
                 /\ Becomes("reconcile", To("reconcile", "mark"))
<1>1. /\ "reconcile" \in Tasks /\ "reconcile" \notin Commands /\ TypeOK /\ StateOK'
      /\ "mark" \in Steps
  BY ScenarioAssumption DEF Tasks, TypeInv, TypeOK, StateOK, Detect, Steps, CheckSteps
<1>2. CheckTask(task["reconcile"]) /\ task["reconcile"].at = "detect"
  BY <1>1, TaskIs DEF Detect, At
<1>3. CheckTask(To("reconcile", "mark"))
  BY <1>2 DEF CheckTask, To, Turned, CheckSteps
<1>4. CASE config[task["reconcile"].agent].marked
  BY <1>1, <1>4, TaskEnds DEF Detect
<1>5. CASE ~config[task["reconcile"].agent].marked
  <2>1. Becomes("reconcile", To("reconcile", "mark"))
    BY <1>1, <1>5, Going DEF Detect
  <2>2. TypeInv'
    BY <1>1, <1>3, <2>1, TypeStep
  <2> QED
    BY <1>1, <1>2, <1>5, <2>1, <2>2 DEF CheckTask
<1> QED
  BY <1>4, <1>5

LEMMA MarksOff ==
    ASSUME TypeInv, MarkOff
    PROVE  /\ TypeInv' /\ "reconcile" \in Tasks /\ task["reconcile"].agent \in Agents
           /\ Becomes("reconcile", Idle)
<1>1. "reconcile" \in Tasks
  BY DEF Tasks
<1>2. task["reconcile"].agent \in Agents /\ task["reconcile"].now \in Row
  BY <1>1, TaskIs DEF MarkOff, At, CheckTask
<1>3. Off(task["reconcile"].now.mode) \in Row
  BY <1>2 DEF Off, Row
<1>4. StateOK'
  BY <1>2, <1>3 DEF TypeInv, TypeOK, StateOK, MarkOff, Parts
<1> QED
  BY <1>1, <1>2, <1>4, TaskEnds DEF MarkOff

LEMMA Edits ==
    ASSUME TypeInv, NEW a \in Agents, Edit(a) \/ Unmark(a)
    PROVE  TypeInv'
<1>1. config \in [Agents -> [value : Value, marked : BOOLEAN]]
  BY DEF TypeInv, TypeOK, StateOK
<1>2. config' \in [Agents -> [value : Value, marked : BOOLEAN]]
  <2>1. CASE Edit(a)
    <3>1. PICK marked \in {config[a].marked, FALSE} :
              config' = [config EXCEPT ![a] = [value |-> "edited", marked |-> marked]]
      BY <2>1 DEF Edit
    <3>2. [value |-> "edited", marked |-> marked] \in [value : Value, marked : BOOLEAN]
      BY <1>1 DEF Value, User
    <3> QED
      BY <1>1, <3>1, <3>2
  <2>2. CASE Unmark(a)
    <3>1. config' = [config EXCEPT ![a] = [config[a] EXCEPT !.marked = FALSE]]
      BY <2>2 DEF Unmark
    <3>2. [config[a] EXCEPT !.marked = FALSE] \in [value : Value, marked : BOOLEAN]
      BY <1>1
    <3> QED
      BY <1>1, <3>1, <3>2
  <2> QED
    BY <2>1, <2>2
<1>3. StateOK'
  BY <1>2, Used DEF TypeInv, TypeOK, StateOK, Edit, Unmark, Events
<1>4. task' = task
  BY DEF Edit, Unmark
<1> QED
  BY <1>3, <1>4 DEF TypeInv, TypeOK, TasksOK

LEMMA Dies ==
    ASSUME TypeInv, Crash
    PROVE  TypeInv' /\ \A t \in Tasks : task'[t] = Idle
<1>1. StateOK'
  <2>1. parted' \subseteq Parts
    BY HalfParts DEF Crash, TypeInv, TypeOK, StateOK
  <2> QED
    BY <2>1, Used DEF TypeInv, TypeOK, StateOK, Crash, Events
<1>2. task' \in [Tasks -> Task] /\ \A t \in Tasks : task'[t] = Idle
  BY IdleTask DEF Crash
<1>3. TasksOK'
  <2>1. "pac" \in Tasks /\ "reconcile" \in Tasks /\ Commands \subseteq Tasks
    BY DEF Tasks
  <2>2. PacTask(Idle) /\ CheckTask(Idle) /\ AgentTask(Idle)
    BY DEF PacTask, CheckTask, AgentTask, Holds, Idle, CheckSteps
  <2> QED
    BY <1>2, <2>1, <2>2 DEF TasksOK
<1> QED
  BY <1>1, <1>2, <1>3 DEF TypeInv, TypeOK

LEMMA TypeStays == ASSUME TypeInv, UNCHANGED vars PROVE TypeInv'
  BY DEF vars, TypeInv, TypeOK, StateOK, TasksOK

LEMMA TypeInit == Init => TypeInv
<1> SUFFICES ASSUME Init PROVE TypeInv
  OBVIOUS
<1>1. StateOK
  BY DEF Init, StateOK, Off, Row, Value, User, Events
<1>2. task \in [Tasks -> Task] /\ \A t \in Tasks : task[t] = Idle
  BY IdleTask DEF Init
<1>3. "pac" \in Tasks /\ "reconcile" \in Tasks /\ Commands \subseteq Tasks
  BY DEF Tasks
<1>4. PacTask(Idle) /\ CheckTask(Idle) /\ AgentTask(Idle)
  BY DEF PacTask, CheckTask, AgentTask, Holds, Idle, CheckSteps
<1> QED
  BY <1>1, <1>2, <1>3, <1>4 DEF TypeInv, TypeOK, TasksOK
-----------------------------------------------------------------------------
\* Every step keeps the types, counts its event and changes one task, which was running and
\* stays on its agent, or is free to start.
Runs(t, r) == task[t].at # "idle" /\ (r.at = "idle" \/ r.agent = task[t].agent)
Starts(t, r) == Free(t) /\ (t \in Commands => Unshared(t, r.agent))
\* What has been parted stays so, and the PAC is parted from its backup by a failing access to
\* the database or a death only.
Parting ==
    /\ parted \subseteq parted'
    /\ "unsaved" \in parted' => "unsaved" \in parted \/ ~Never({"crash", "database"})'
Digest ==
    /\ TypeInv'
    /\ scenario' = scenario
    /\ collided => collided'
    /\ Parting
    /\ \A e \in Events : used'[e] >= used[e]
    /\ \/ task' = task
       \/ \A t \in Tasks : task'[t] = Idle
       \/ \E t \in Tasks, r \in Task : Becomes(t, r) /\ (Runs(t, r) \/ Starts(t, r))

LEMMA Counts ==
    ASSUME TypeInv, used' = used \/ \E event \in Events : Use(event)
    PROVE  \A e \in Events : used'[e] >= used[e]
<1>1. used \in [Events -> Nat] /\ StateOK
  BY DEF TypeInv, TypeOK, StateOK
<1>2. CASE used' = used
  BY <1>1, <1>2
<1>3. ASSUME NEW event \in Events, Use(event)
      PROVE  \A e \in Events : used'[e] >= used[e]
  <2>1. used' = [used EXCEPT ![event] = used[event] + 1]
    BY <1>1, <1>3, Used
  <2> QED
    BY <1>1, <2>1
<1> QED
  BY <1>2, <1>3

LEMMA DigestFrom ==
    ASSUME TypeInv, TypeInv', scenario' = scenario, collided => collided',
           Parting, NEW t \in Tasks, NEW r, Becomes(t, r),
           used' = used \/ (\E event \in Events : Use(event)), Runs(t, r) \/ Starts(t, r)
    PROVE  Digest
<1>1. r \in Task
  BY DEF Becomes
<1> QED
  BY <1>1, Counts DEF Digest

\* The records that a running task becomes.
LEMMA Running ==
    ASSUME NEW t \in Tasks, task[t].at # "idle"
    PROVE  /\ Runs(t, Idle)
           /\ \A step : Runs(t, To(t, step))
           /\ \A step, now, applied, rollback, saved :
                 Runs(t, Turned(t, step, now, applied, rollback, saved))
           /\ Continues(t) => \E r : Becomes(t, r) /\ Runs(t, r)
           /\ Finished(t) => \E r : Becomes(t, r) /\ Runs(t, r)
           /\ GivenUp(t) => \E r : Becomes(t, r) /\ Runs(t, r)
<1>1. Runs(t, Idle)
  BY DEF Runs, Idle
<1>2. \A step, now, applied, rollback, saved :
          Runs(t, Turned(t, step, now, applied, rollback, saved))
  BY DEF Runs, Turned
<1>3. \A step : Runs(t, To(t, step))
  BY <1>2 DEF To
<1>4. Continues(t) => \E r : Becomes(t, r) /\ Runs(t, r)
  BY <1>1, <1>3 DEF Continues
<1>5. Finished(t) => \E r : Becomes(t, r) /\ Runs(t, r)
  BY <1>3, <1>4 DEF Finished
<1>6. GivenUp(t) => \E r : Becomes(t, r) /\ Runs(t, r)
  BY <1>1, <1>3 DEF GivenUp
<1> QED
  BY <1>1, <1>2, <1>3, <1>4, <1>5, <1>6

LEMMA StepBecomes ==
    ASSUME TypeInv, NEW t \in Tasks, Step(t)
    PROVE  task[t].at # "idle" /\ TypeInv' /\ \E r : Becomes(t, r) /\ Runs(t, r)
<1>1. task[t].at # "idle"
  BY DEF Step, At, ReadCurrent, RollBackConfig, StoreOff, CheckOthers, Untrusted, WriteConfig,
         StoreOn, PushConfig, UndoStore, UndoConfig, ReadBackup, Snapshot, SetPac, SaveBackup,
         ResetPac, DropBackup, PromptDismissed, FileFails, DatabaseFails
<1>2. CASE ReadCurrent(t)
  BY <1>1, <1>2, CurrentRead, Running
<1>3. CASE RollBackConfig(t)
  BY <1>1, <1>3, ConfigRolledBack, Running
<1>4. CASE StoreOff(t)
  BY <1>1, <1>4, OffStored, Running
<1>5. CASE CheckOthers(t)
  BY <1>1, <1>5, OthersChecked, Running
<1>6. CASE Untrusted(t)
  BY <1>1, <1>6, GivesUp, Running
<1>7. CASE WriteConfig(t)
  BY <1>1, <1>7, ConfigWritten, Running
<1>8. CASE StoreOn(t)
  BY <1>1, <1>8, OnStored, Running
<1>9. CASE PushConfig(t)
  BY <1>1, <1>9, Pushed, Running
<1>10. CASE UndoStore(t)
  BY <1>1, <1>10, StoreUndone, Running
<1>11. CASE UndoConfig(t)
  BY <1>1, <1>11, ConfigUndone, Running
<1>12. CASE ReadBackup(t)
  BY <1>1, <1>12, BackupRead, Running
<1>13. CASE Snapshot(t)
  BY <1>1, <1>13, SnapshotTaken, Running
<1>14. CASE SetPac(t)
  BY <1>1, <1>14, PacSet, Running
<1>15. CASE SaveBackup(t) \/ DropBackup(t)
  BY <1>1, <1>15, BackupStored, Running
<1>16. CASE ResetPac(t)
  BY <1>1, <1>16, PacReset, Running
<1>17. CASE PromptDismissed(t)
  BY <1>1, <1>17, PromptGone, Running
<1>18. CASE FileFails(t)
  BY <1>1, <1>18, FileFailed, Running
<1>19. CASE DatabaseFails(t)
  BY <1>1, <1>19, DatabaseFailed, Running
<1> QED
  BY <1>1, <1>2, <1>3, <1>4, <1>5, <1>6, <1>7, <1>8, <1>9, <1>10, <1>11, <1>12, <1>13, <1>14,
     <1>15, <1>16, <1>17, <1>18, <1>19 DEF Step

LEMMA StepParts == ASSUME TypeInv, NEW t \in Tasks, Step(t) PROVE Parting
<1>1. CASE parted' = parted
  BY <1>1 DEF Parting
<1>2. CASE UndoStore(t)
  BY <1>2 DEF UndoStore, Parting
<1>3. CASE FileFails(t)
  <2>1. parted' = parted \cup Half(t) /\ task[t].at # "save"
    BY <1>3 DEF FileFails, At
  <2> QED
    BY <2>1, HalfParts DEF Parting
<1>4. CASE DatabaseFails(t)
  <2>1. {"crash", "database"} \in SUBSET Events /\ Use("database") /\ parted \subseteq parted'
    BY <1>4 DEF Events, DatabaseFails
  <2> QED
    BY <2>1, NotUsed DEF Parting
<1>5. CASE ~(UndoStore(t) \/ FileFails(t) \/ DatabaseFails(t))
  <2>1. parted' = parted
    BY <1>5 DEF Step, ReadCurrent, RollBackConfig, StoreOff, CheckOthers, Untrusted, WriteConfig,
         StoreOn, PushConfig, UndoConfig, ReadBackup, Snapshot, SetPac, SaveBackup, ResetPac,
         DropBackup, PromptDismissed
  <2> QED
    BY <1>1, <2>1
<1> QED
  BY <1>2, <1>3, <1>4, <1>5

LEMMA StepDigest == ASSUME TypeInv, NEW t \in Tasks, Step(t) PROVE Digest
<1>0. {"prompt", "file", "database"} \subseteq Events
  BY DEF Events
<1>1. scenario' = scenario /\ collided' = collided
  BY DEF Step, ReadCurrent, RollBackConfig, StoreOff, CheckOthers, Untrusted, WriteConfig,
         StoreOn, PushConfig, UndoStore, UndoConfig, ReadBackup, Snapshot, SetPac, SaveBackup,
         ResetPac, DropBackup, PromptDismissed, FileFails, DatabaseFails
<1>2. used' = used \/ (\E event \in Events : Use(event))
  BY <1>0
     DEF Step, ReadCurrent, RollBackConfig, StoreOff, CheckOthers, Untrusted, WriteConfig,
         StoreOn, PushConfig, UndoStore, UndoConfig, ReadBackup, Snapshot, SetPac, SaveBackup,
         ResetPac, DropBackup, PromptDismissed, FileFails, DatabaseFails
<1> QED
  BY <1>1, <1>2, StepBecomes, StepParts, DigestFrom

LEMMA NextDigest == ASSUME TypeInv, [Next]_vars PROVE Digest
<1>0. /\ {"command", "button", "edit", "unmark", "crash"} \subseteq Events
      /\ Commands \subseteq Tasks /\ "pac" \in Tasks /\ "reconcile" \in Tasks
      /\ "pac" \notin Commands /\ "reconcile" \notin Commands
      /\ parted' = parted => Parting
  BY ScenarioAssumption DEF Events, Tasks, Parting
<1>1. ASSUME NEW t \in Commands, NEW a \in Agents, Disable(t, a) PROVE Digest
  <2> DEFINE r == Begun(a, "current", None, None)
  <2>1. TypeInv' /\ Free(t) /\ Becomes(t, r) /\ Unshared(t, a) /\ r.agent = a
    BY <1>1, Disabling DEF Begun, Start
  <2>2. scenario' = scenario /\ (collided => collided') /\ Use("command") /\ parted' = parted
    BY <1>1 DEF Disable, Begin
  <2> HIDE DEF r
  <2>3. Starts(t, r)
    BY <2>1 DEF Starts
  <2> QED
    BY <1>0, <2>1, <2>2, <2>3, DigestFrom
<1>2. ASSUME NEW t \in Commands, NEW a \in Agents, NEW m \in Modes, Enable(t, a, m) PROVE Digest
  <2> DEFINE r == Begun(a, IF activation[a].enabled THEN "current" ELSE "write", m, activation[a])
  <2>1. TypeInv' /\ Free(t) /\ Becomes(t, r) /\ Unshared(t, a) /\ r.agent = a
    BY <1>2, Enabling DEF Begun, Start
  <2>2. scenario' = scenario /\ (collided => collided') /\ Use("command") /\ parted' = parted
    BY <1>2 DEF Enable, Begin
  <2> HIDE DEF r
  <2>3. Starts(t, r)
    BY <2>1 DEF Starts
  <2> QED
    BY <1>0, <2>1, <2>2, <2>3, DigestFrom
<1>3. ASSUME PacReapply \/ PacRestore PROVE Digest
  <2>1. PICK step : Becomes("pac", To("pac", step))
    BY <1>3, ButtonPressed
  <2>2. scenario' = scenario /\ collided' = collided /\ Use("button") /\ parted' = parted
    BY <1>3 DEF PacReapply, PacRestore
  <2>3. TypeInv' /\ Starts("pac", To("pac", step))
    BY <1>0, <1>3, ButtonPressed DEF Starts
  <2> QED
    BY <1>0, <2>1, <2>2, <2>3, DigestFrom
<1>4. ASSUME NEW t \in Tasks, Step(t) PROVE Digest
  BY <1>4, StepDigest
<1>5. ASSUME NEW a \in Agents, Reconcile(a) PROVE Digest
  <2>1. PICK r : Becomes("reconcile", r)
    BY <1>5, Reconciles
  <2>2. /\ scenario' = scenario /\ collided' = collided /\ used' = used
        /\ parted' = parted
    BY <1>5 DEF Reconcile
  <2>3. TypeInv' /\ Starts("reconcile", r)
    BY <1>0, <1>5, Reconciles DEF Starts
  <2> QED
    BY <1>0, <2>1, <2>2, <2>3, DigestFrom
<1>6. ASSUME Detect PROVE Digest
  <2>1. /\ task["reconcile"].at # "idle" /\ scenario' = scenario /\ collided' = collided
        /\ used' = used /\ parted' = parted
    BY <1>6 DEF Detect, At
  <2>2. TypeInv' /\ \E r : Becomes("reconcile", r) /\ Runs("reconcile", r)
    BY <1>0, <1>6, <2>1, Detects, Running
  <2> QED
    BY <1>0, <2>1, <2>2, DigestFrom
<1>7. ASSUME MarkOff PROVE Digest
  <2>1. /\ task["reconcile"].at # "idle" /\ scenario' = scenario /\ collided' = collided
        /\ used' = used
    BY <1>7 DEF MarkOff, At
  <2>2. TypeInv' /\ \E r : Becomes("reconcile", r) /\ Runs("reconcile", r)
    BY <1>0, <1>7, <2>1, MarksOff, Running
  <2>3. Parting
    BY <1>7 DEF MarkOff, Parting
  <2> QED
    BY <1>0, <2>1, <2>2, <2>3, DigestFrom
<1>8. ASSUME NEW a \in Agents, Edit(a) \/ Unmark(a) PROVE Digest
  BY <1>0, <1>8, Edits, Counts DEF Edit, Unmark, Digest
<1>9. ASSUME Crash PROVE Digest
  <2>1. {"crash", "database"} \in SUBSET Events /\ Use("crash") /\ parted \subseteq parted'
    BY <1>9 DEF Crash, Events
  <2>2. Parting
    BY <2>1, NotUsed DEF Parting
  <2> QED
    BY <1>0, <1>9, <2>2, Dies, Counts DEF Crash, Digest
<1>10. CASE UNCHANGED vars
  <2>1. TypeInv' /\ task' = task /\ scenario' = scenario /\ collided' = collided /\ Parting
    BY <1>0, <1>10, TypeStays DEF vars
  <2>2. \A e \in Events : used'[e] >= used[e]
    BY <1>10, Counts DEF vars
  <2> QED
    BY <2>1, <2>2 DEF Digest
<1> QED
  BY <1>1, <1>2, <1>3, <1>4, <1>5, <1>6, <1>7, <1>8, <1>9, <1>10 DEF Next, Command, SelfCheck

LEMMA AloneStays == ASSUME TypeInv, Alone, [Next]_vars PROVE Alone'
<1>1. Digest
  BY NextDigest
<1>2. SUFFICES ASSUME OneByOne, NEW s \in Tasks, NEW t \in Tasks, s # t
               PROVE  task'[s].at = "idle" \/ task'[t].at = "idle"
  BY <1>1 DEF Alone, At, OneByOne, Digest
<1>3. \A u, v \in Tasks : u = v \/ task[u].at = "idle" \/ task[v].at = "idle"
  BY <1>2 DEF Alone, At
<1>4. CASE \E u \in Tasks, r \in Task : Becomes(u, r) /\ (Runs(u, r) \/ Starts(u, r))
  BY <1>2, <1>3, <1>4 DEF Becomes, Free, Runs, Starts
<1>5. CASE \A u \in Tasks : task'[u] = Idle
  BY <1>5 DEF Idle
<1>6. CASE task' = task
  BY <1>3, <1>2, <1>6
<1> QED
  BY <1>1, <1>4, <1>5, <1>6 DEF Digest

LEMMA ApartStays == ASSUME TypeInv, Apart, [Next]_vars PROVE Apart'
<1>1. Digest
  BY NextDigest
<1>2. SUFFICES ASSUME ~collided', NEW s \in Commands, NEW t \in Commands, s # t
               PROVE  task'[s].at = "idle" \/ task'[t].at = "idle" \/ task'[s].agent # task'[t].agent
  BY DEF Apart, At
<1>3. /\ s \in Tasks /\ t \in Tasks
      /\ \A u, v \in Commands : \/ u = v \/ task[u].at = "idle" \/ task[v].at = "idle"
                                \/ task[u].agent # task[v].agent
  BY <1>1, <1>2 DEF Apart, At, Digest, Tasks
<1>4. ASSUME NEW u \in Tasks, NEW r \in Task, Becomes(u, r), Runs(u, r) \/ Starts(u, r)
      PROVE  task'[s].at = "idle" \/ task'[t].at = "idle" \/ task'[s].agent # task'[t].agent
  <2>1. task'[u] = r /\ \A v \in Tasks \ {u} : task'[v] = task[v]
    BY <1>4 DEF Becomes
  <2>2. CASE u # s /\ u # t
    BY <1>2, <1>3, <2>1, <2>2
  <2>3. CASE Runs(u, r) /\ (u = s \/ u = t)
    BY <1>2, <1>3, <2>1, <2>3 DEF Runs
  <2>4. CASE Starts(u, r) /\ (u = s \/ u = t)
    BY <1>2, <1>3, <2>1, <2>4 DEF Starts, Unshared
  <2> QED
    BY <1>4, <2>2, <2>3, <2>4
<1>5. CASE \A u \in Tasks : task'[u] = Idle
  BY <1>3, <1>5 DEF Idle
<1>6. CASE task' = task
  BY <1>2, <1>3, <1>6
<1> QED
  BY <1>1, <1>4, <1>5, <1>6 DEF Digest
-----------------------------------------------------------------------------
\* A step of a task changes the activation and the file of its agent only.
LEMMA Elsewhere ==
    ASSUME TypeInv, NEW t \in Tasks, Step(t), NEW a \in Agents, a # task[t].agent
    PROVE  activation'[a] = activation[a] /\ config'[a] = config[a]
<1>1. activation \in [Agents -> Row] /\ config \in [Agents -> [value : Value, marked : BOOLEAN]]
  BY DEF TypeInv, TypeOK, StateOK
<1>2. activation'[a] = activation[a]
  <2>1. CASE StoreOff(t)
    BY <1>1, <2>1, OffStored
  <2>2. CASE StoreOn(t)
    BY <1>1, <2>2, OnStored, ZenonT(60)
  <2>3. CASE UndoStore(t)
    BY <1>1, <2>3, StoreUndone
  <2>4. CASE ~(StoreOff(t) \/ StoreOn(t) \/ UndoStore(t))
    BY <2>4 DEF Step, ReadCurrent, RollBackConfig, CheckOthers, Untrusted, WriteConfig, PushConfig,
        UndoConfig, ReadBackup, Snapshot, SetPac, SaveBackup, ResetPac, DropBackup,
        PromptDismissed, FileFails, DatabaseFails
  <2> QED
    BY <2>1, <2>2, <2>3, <2>4
<1>3. config'[a] = config[a]
  <2>1. CASE RollBackConfig(t)
    BY <1>1, <2>1, ConfigRolledBack DEF RollBackConfig
  <2>2. CASE WriteConfig(t)
    BY <1>1, <2>2, ConfigWritten
  <2>3. CASE UndoConfig(t)
    BY <1>1, <2>3, ConfigUndone DEF UndoConfig
  <2>4. CASE ~(RollBackConfig(t) \/ WriteConfig(t) \/ UndoConfig(t))
    BY <2>4 DEF Step, ReadCurrent, StoreOff, CheckOthers, Untrusted, StoreOn, PushConfig,
        UndoStore, ReadBackup, Snapshot, SetPac, SaveBackup, ResetPac, DropBackup,
        PromptDismissed, FileFails, DatabaseFails
  <2> QED
    BY <2>1, <2>2, <2>3, <2>4
<1> QED
  BY <1>2, <1>3

\* Only commands on agents access the activation and the files.
LEMMA PacStepsApart ==
    ASSUME TypeInv, NEW t \in Tasks, Step(t), t \notin Commands
    PROVE  activation' = activation /\ config' = config
<1>1. task[t].at \notin AgentSteps
  BY OnAgent
<1> QED
  BY <1>1 DEF AgentSteps, At, Step, ReadCurrent, RollBackConfig, StoreOff, CheckOthers, Untrusted,
     WriteConfig, StoreOn, PushConfig, UndoStore, UndoConfig, ReadBackup, Snapshot, SetPac,
     SaveBackup, ResetPac, DropBackup, PromptDismissed, FileFails, DatabaseFails
-----------------------------------------------------------------------------
\* An event that has not happened after a step has not happened before, nor with it.
LEMMA NeverBefore ==
    ASSUME TypeInv, Digest, NEW events \in SUBSET Events, Never(events)'
    PROVE  Never(events)
<1>1. used \in [Events -> Nat] /\ used' \in [Events -> Nat]
  BY DEF Digest, TypeInv, TypeOK, StateOK
<1>2. \A e \in events : used'[e] >= used[e] /\ used'[e] = 0
  BY DEF Digest, Never
<1> QED
  BY <1>1, <1>2 DEF Never

LEMMA CleanBefore == ASSUME TypeInv, Digest, Clean' PROVE Clean
<1>1. {"edit", "unmark"} \in SUBSET Events
  BY DEF Events
<1> QED
  BY <1>1, NeverBefore DEF Clean, Digest, Parting

\* Shown(a) and Written(t) together, where t, whose record is r, is the command on a.
Shows(a, r, row, file) ==
    /\ row.enabled /\ WritesConfig(a, row.mode) => file = Marked \/ r.at = "off"
    /\ Secure(a, r, row, file)

\* A task that ends, or goes on with the activation and the file as they are.
Elsewise == {"store", "push", "rollback", "off", "undo_config"}
LEMMA ShowsOn ==
    ASSUME NEW t \in Tasks, NEW a, NEW row, NEW file,
           Shows(a, task[t], row, file), task[t].at # "off"
    PROVE  /\ Shows(a, Idle, row, file)
           /\ \A step \in Steps \ Elsewise : \A n, v, s :
                  Shows(a, Turned(t, step, n, task[t].applied, v, s), row, file)
<1>1. Shows(a, Idle, row, file)
  BY DEF Shows, Secure, Idle, Holds
<1>2. ASSUME NEW step \in Steps \ Elsewise, NEW n, NEW v, NEW s
      PROVE  Shows(a, Turned(t, step, n, task[t].applied, v, s), row, file)
  BY <1>2 DEF Shows, Secure, Turned, Holds, Elsewise
<1> QED
  BY <1>1, <1>2

LEMMA ShownStep ==
    ASSUME TypeInv, NEW t \in Commands, NEW a \in Agents, a = task[t].agent, Step(t), Clean',
           Shows(a, task[t], activation[a], config[a])
    PROVE  \E r : Becomes(t, r) /\ Runs(t, r) /\ Shows(a, r, activation'[a], config'[a])
<1>1. /\ t \in Tasks /\ AgentTask(task[t]) /\ task[t] \in Task
      /\ activation \in [Agents -> Row]
      /\ config \in [Agents -> [value : Value, marked : BOOLEAN]]
  BY TaskIs DEF Tasks, TypeInv, TypeOK, StateOK
<1>2. task[t].at # "idle"
  BY <1>1, StepBecomes
<1> DEFINE Goal == \E r : Becomes(t, r) /\ Runs(t, r) /\ Shows(a, r, activation'[a], config'[a])
           Same == activation' = activation /\ config' = config /\ task[t].at # "off"
           Plain == Steps \ Elsewise
<1> SUFFICES Goal
  OBVIOUS
<1>3. \A step, n, p, v, s : Runs(t, Turned(t, step, n, p, v, s))
  BY <1>1, <1>2, Running
<1>4. \A step : Runs(t, To(t, step))
  BY <1>1, <1>2, Running
<1>5. ASSUME Same, Becomes(t, Idle) PROVE Goal
  BY <1>1, <1>2, <1>5, ShowsOn, Running
<1>6. ASSUME Same, NEW step \in Plain, NEW n, NEW v, NEW s,
             Becomes(t, Turned(t, step, n, task[t].applied, v, s))
      PROVE  Goal
  BY <1>1, <1>3, <1>6, ShowsOn
<1>7. ASSUME Same, NEW step \in Plain, Becomes(t, To(t, step)) PROVE Goal
  BY <1>6, <1>7 DEF To
<1>8. ASSUME Same, Continues(t) PROVE Goal
  BY <1>5, <1>7, <1>8 DEF Continues, Steps, AgentSteps, Elsewise
<1>9. ASSUME Same, Finished(t) PROVE Goal
  BY <1>7, <1>8, <1>9 DEF Finished, Steps, AgentSteps, Elsewise
<1>10. CASE ReadCurrent(t)
  <2>1. Same /\ ~task[t].applied
    BY <1>1, <1>10 DEF ReadCurrent, At, AgentTask
  <2>2. Shows(a, Turned(t, "rollback", activation[a], task[t].applied, task[t].rollback, task[t].saved),
              activation'[a], config'[a])
    BY <2>1 DEF Shows, Secure, Turned, Holds
  <2>3. ASSUME Becomes(t, Turned(t, "rollback", activation[a], task[t].applied, task[t].rollback,
                                 task[t].saved))
        PROVE  Goal
    BY <1>3, <2>2, <2>3
  <2> HIDE DEF Goal, Same, Plain
  <2> QED
    BY <1>1, <1>8, <1>10, <2>1, <2>3, CurrentRead
<1>11. CASE RollBackConfig(t)
  <2>1. Becomes(t, To(t, "off")) /\ activation' = activation /\ task[t].at = "rollback"
    BY <1>1, <1>11, ConfigRolledBack DEF RollBackConfig, At
  <2>2. ~task[t].applied
    BY <1>1, <2>1 DEF AgentTask
  <2>3. Shows(a, To(t, "off"), activation'[a], config'[a])
    BY <2>1, <2>2 DEF Shows, Secure, To, Turned, Holds
  <2> QED
    BY <1>4, <2>1, <2>3
<1>12. CASE StoreOff(t)
  <2>1. /\ activation'[a] = Off(task[t].now.mode) /\ task[t].at = "off" /\ ~task[t].applied
        /\ Becomes(t, To(t, "others")) \/ Continues(t)
    BY <1>1, <1>12, OffStored DEF StoreOff, At, AgentTask
  <2>2. ~activation'[a].enabled
    BY <2>1 DEF Off
  <2>3. /\ Shows(a, To(t, "others"), activation'[a], config'[a])
        /\ Shows(a, To(t, "write"), activation'[a], config'[a])
        /\ Shows(a, Idle, activation'[a], config'[a])
    BY <2>1, <2>2 DEF Shows, Secure, To, Turned, Idle, Holds
  <2>4. Runs(t, Idle)
    BY <1>1, <1>2, Running
  <2> QED
    BY <1>4, <2>1, <2>3, <2>4 DEF Continues
<1>13. CASE CheckOthers(t)
  <2>1. Same /\ "apply" \in Plain /\ "restore" \in Plain
    BY <1>13 DEF CheckOthers, At, Steps, PacSteps, Elsewise
  <2> HIDE DEF Goal, Same, Plain
  <2> QED
    BY <1>1, <1>7, <1>13, <2>1, OthersChecked
<1>14. CASE Untrusted(t)
  BY <1>1, <1>5, <1>14, GivesUp DEF Untrusted
<1>15. CASE WriteConfig(t)
  <2>1. activation' = activation /\ task[t].at = "write" /\ ~task[t].applied
    BY <1>1, <1>15, ConfigWritten DEF WriteConfig, At
  <2>2. CASE WritesConfig(a, task[t].mode)
    <3>1. config'[a] = Marked
      BY <1>1, <1>15, <2>2, ConfigWritten DEF Marked
    <3>2. \A v : Shows(a, Turned(t, "store", task[t].now, task[t].applied, v, task[t].saved),
                       activation'[a], config'[a])
      BY <3>1 DEF Shows, Secure, Turned
    <3> QED
      BY <1>1, <1>3, <1>15, <2>2, <3>2, ConfigWritten
  <2>3. CASE ~WritesConfig(a, task[t].mode)
    <3>1. config' = config /\ Becomes(t, To(t, "store"))
      BY <1>1, <1>15, <2>3, ConfigWritten
    <3>2. Shows(a, To(t, "store"), activation'[a], config'[a])
      BY <1>1, <2>1, <2>3, <3>1 DEF Shows, Secure, To, Turned, Holds
    <3> QED
      BY <1>4, <3>1, <3>2
  <2> QED
    BY <2>2, <2>3
<1>16. CASE StoreOn(t)
  <2>1. activation'[a] = On(t) /\ config' = config
    BY <1>1, <1>16, OnStored, ZenonT(60) DEF StoreOn
  <2>2. WritesConfig(a, task[t].mode) => config[a] = Marked
    BY <1>1, <1>16 DEF StoreOn, At, Shows, Secure, Holds, AgentTask
  <2>3. /\ Shows(a, Idle, activation'[a], config'[a])
        /\ Shows(a, To(t, "push"), activation'[a], config'[a])
    BY <2>1, <2>2 DEF Shows, Secure, On, Idle, To, Turned, Holds
  <2>4. Runs(t, Idle)
    BY <1>1, <1>2, Running
  <2> QED
    BY <1>1, <1>4, <1>16, <2>3, <2>4, OnStored
<1>17. CASE PushConfig(t)
  <2>1. activation' = activation /\ config' = config /\ task[t].at = "push"
    BY <1>17 DEF PushConfig, At
  <2>2. Shows(a, Turned(t, "apply", task[t].now, TRUE, task[t].rollback, task[t].saved),
              activation'[a], config'[a])
    BY <1>1, <2>1 DEF Shows, Secure, Turned, Holds
  <2> QED
    BY <1>1, <1>3, <1>17, <2>2, Pushed
<1>18. CASE UndoStore(t)
  <2>1. /\ activation'[a] = task[t].before /\ config' = config /\ task[t].applied
        /\ Becomes(t, To(t, "undo_config"))
    BY <1>1, <1>18, StoreUndone DEF UndoStore
  <2>2. ~(activation'[a].enabled /\ WritesConfig(a, activation'[a].mode))
    BY <1>18, <2>1 DEF UndoStore, Clean
  <2>3. Shows(a, To(t, "undo_config"), activation'[a], config'[a])
    BY <2>1, <2>2 DEF Shows, Secure, To, Turned, Holds
  <2> QED
    BY <1>4, <2>1, <2>3
<1>23. CASE UndoConfig(t)
  <2>1. activation' = activation /\ task[t].at = "undo_config" /\ Becomes(t, Idle)
    BY <1>1, <1>23, ConfigUndone DEF UndoConfig, At
  <2>2. a # "Claude" => config' = config
    BY <1>23 DEF UndoConfig
  <2>3. Shows(a, Idle, activation'[a], config'[a])
    BY <2>1, <2>2 DEF Shows, Secure, Idle, Holds
  <2>4. Runs(t, Idle)
    BY <1>1, <1>2, Running
  <2> QED
    BY <2>1, <2>3, <2>4
<1>19. CASE ReadBackup(t) \/ Snapshot(t) \/ SetPac(t) \/ SaveBackup(t) \/ ResetPac(t) \/ DropBackup(t)
  <2>1. Same
    BY <1>19 DEF ReadBackup, Snapshot, SetPac, SaveBackup, ResetPac, DropBackup, At
  <2>2. {"snapshot", "set", "reset", "save", "drop", "finish"} \subseteq Plain
    BY DEF Steps, PacSteps, AgentSteps, Elsewise
  <2> HIDE DEF Goal, Same, Plain
  <2>3. Finished(t) => Goal
    BY <1>9, <2>1
  <2>4. CASE ReadBackup(t)
    BY <1>1, <1>6, <2>1, <2>2, <2>3, <2>4, BackupRead
  <2>5. CASE Snapshot(t)
    BY <1>1, <1>6, <2>1, <2>2, <2>5, SnapshotTaken
  <2>6. CASE SetPac(t)
    BY <1>1, <1>7, <2>1, <2>2, <2>6, PacSet
  <2>7. CASE SaveBackup(t) \/ DropBackup(t)
    BY <1>1, <2>3, <2>7, BackupStored
  <2>8. CASE ResetPac(t)
    BY <1>1, <1>7, <2>1, <2>2, <2>8, PacReset
  <2> QED
    BY <1>19, <2>4, <2>5, <2>6, <2>7, <2>8
<1>24. ASSUME Same, GivenUp(t) PROVE Goal
  <2>1. "undo" \in Plain
    BY DEF Steps, AgentSteps, Elsewise
  <2> HIDE DEF Goal, Same, Plain
  <2> QED
    BY <1>5, <1>7, <1>24, <2>1 DEF GivenUp
<1>20. CASE PromptDismissed(t)
  <2>1. Same /\ GivenUp(t)
    BY <1>1, <1>20, PromptGone DEF PromptDismissed, At
  <2> HIDE DEF Goal, Same
  <2> QED
    BY <1>24, <2>1
<1>25. CASE DatabaseFails(t)
  <2>1. activation' = activation /\ config' = config
    BY <1>25 DEF DatabaseFails
  <2>2. CASE task[t].at = "undo" /\ Becomes(t, To(t, "undo_config"))
    <3>1. task[t].mode = "SystemProxy" /\ task[t].applied
      BY <1>1, <2>2 DEF AgentTask
    <3>2. a # "Claude"
      BY <1>25, <2>2, <3>1 DEF DatabaseFails, Clean, WritesConfig, At
    <3>3. Shows(a, To(t, "undo_config"), activation'[a], config'[a])
      BY <2>1, <2>2, <3>1, <3>2 DEF Shows, Secure, To, Turned, Holds
    <3> QED
      BY <1>4, <2>2, <3>3
  <2>3. CASE task[t].at = "off" /\ GivenUp(t)
    <3>1. ~task[t].applied /\ Becomes(t, Idle)
      BY <1>1, <2>3 DEF AgentTask, GivenUp
    <3>2. "unapplied" \notin Half(t)
      BY <1>25 DEF DatabaseFails, Clean
    <3>3. ~WritesConfig(a, task[t].now.mode)
      BY <2>3, <3>2 DEF Half, At, Parts
    <3>4. Shows(a, Idle, activation'[a], config'[a])
      BY <2>1, <2>3, <3>3 DEF Shows, Secure, Idle, Holds
    <3>5. Runs(t, Idle)
      BY <1>1, <1>2, Running
    <3> QED
      BY <3>1, <3>4, <3>5
  <2>4. CASE task[t].at # "off" /\ (Becomes(t, Idle) \/ GivenUp(t))
    <3>1. Same
      BY <2>1, <2>4
    <3> HIDE DEF Goal, Same
    <3> QED
      BY <1>5, <1>24, <2>4, <3>1
  <2> HIDE DEF Goal, Same
  <2> QED
    BY <1>1, <1>25, <2>2, <2>3, <2>4, DatabaseFailed
<1>21. CASE FileFails(t)
  <2>1. Same /\ Becomes(t, Idle)
    BY <1>1, <1>21, FileFailed DEF FileFails
  <2> HIDE DEF Goal, Same
  <2> QED
    BY <1>5, <2>1
<1> QED
  BY <1>10, <1>11, <1>12, <1>13, <1>14, <1>15, <1>16, <1>17, <1>18, <1>19, <1>20, <1>21, <1>23,
     <1>25 DEF Step

LEMMA ShownStays == ASSUME TypeInv, Apart, ShownInv, [Next]_vars PROVE ShownInv'
<1>1. SUFFICES ASSUME Clean' PROVE (\A a \in Agents : Shown(a)') /\ (\A t \in Commands : Written(t)')
  BY DEF ShownInv
<1>2. /\ Digest /\ Clean /\ Commands \subseteq Tasks
      /\ \A a \in Agents : Shown(a)
      /\ \A t \in Commands : Written(t)
      /\ \A t \in Commands : AgentTask(task[t]) /\ AgentTask(task'[t])
      /\ \A s, t \in Commands : \/ s = t \/ task[s].at = "idle" \/ task[t].at = "idle"
                                \/ task[s].agent # task[t].agent
  BY <1>1, NextDigest, CleanBefore
     DEF ShownInv, Tasks, Apart, At, Clean, Digest, TypeInv, TasksOK
<1>3. /\ activation \in [Agents -> Row]
      /\ config \in [Agents -> [value : Value, marked : BOOLEAN]]
      /\ "pac" \notin Commands /\ "reconcile" \notin Commands
  BY ScenarioAssumption DEF TypeInv, TypeOK, StateOK
<1>4. \A t \in Commands : task'[t].at = "idle" => Written(t)'
  BY DEF Written, At
<1> DEFINE Goal == (\A a \in Agents : Shown(a)') /\ (\A t \in Commands : Written(t)')
\* The files stay as they are, an activation does or is turned off, and the commands stay where
\* they are, or begin.
<1>5. ASSUME config' = config,
             \A a \in Agents : activation'[a] = activation[a] \/ ~activation'[a].enabled,
             \A t \in Commands : \/ task'[t] = task[t]
                                 \/ /\ task[t].at = "idle" /\ ~Holds(task'[t])
                                    /\ task'[t].at \notin {"rollback", "off", "undo_config"}
      PROVE  Goal
  <2>1. ASSUME NEW a \in Agents PROVE Shown(a)'
    BY <1>2, <1>5, <2>1 DEF Shown, At
  <2>2. ASSUME NEW t \in Commands PROVE Written(t)'
    <3>1. CASE task'[t] = task[t] /\ task[t].at # "idle"
      <4>1. Written(t) /\ task[t].agent \in Agents
        BY <1>2, <3>1 DEF AgentTask
      <4>2. Secure(task[t].agent, task[t], activation[task[t].agent], config[task[t].agent])
        BY <3>1, <4>1 DEF Written, At
      <4>3. Secure(task[t].agent, task[t], activation'[task[t].agent], config'[task[t].agent])
        BY <1>5, <4>1, <4>2 DEF Secure
      <4> QED
        BY <3>1, <4>3 DEF Written, At
    <3>2. CASE ~Holds(task'[t]) /\ task'[t].at \notin {"rollback", "off", "undo_config"}
      BY <3>2 DEF Written, Secure
    <3> QED
      BY <1>4, <1>5, <3>1, <3>2
  <2> QED
    BY <2>1, <2>2
\* A command begins.
<1>6. ASSUME activation' = activation, config' = config, NEW t \in Commands, NEW a, NEW before,
             NEW step \in {"current", "write"}, NEW mode, task[t].at = "idle",
             Becomes(t, Begun(a, step, mode, before))
      PROVE  Goal
  <2>1. ~Holds(Begun(a, step, mode, before)) /\ Begun(a, step, mode, before).at = step
    BY DEF Holds, Begun, Start, Idle
  <2>2. \A s \in Commands : s # t => task'[s] = task[s]
    BY <1>2, <1>6 DEF Becomes
  <2>3. ~Holds(task'[t]) /\ task'[t].at \notin {"rollback", "off", "undo_config"}
    BY <1>6, <2>1 DEF Becomes
  <2> HIDE DEF Goal
  <2> QED
    BY <1>5, <1>6, <2>2, <2>3
<1>7. ASSUME NEW t \in Tasks, t \notin Commands, NEW r, Becomes(t, r), config' = config,
             \A a \in Agents : activation'[a] = activation[a] \/ ~activation'[a].enabled
      PROVE  Goal
  <2>1. \A s \in Commands : task'[s] = task[s]
    BY <1>2, <1>7 DEF Becomes
  <2> HIDE DEF Goal
  <2> QED
    BY <1>5, <1>7, <2>1
<1>8. ASSUME NEW t \in Commands, NEW a \in Agents, Disable(t, a) PROVE Goal
  <2>1. activation' = activation /\ config' = config /\ task[t].at = "idle"
        /\ Becomes(t, Begun(a, "current", None, None))
    BY <1>8, Disabling DEF Disable, Begin, At
  <2> HIDE DEF Goal
  <2> QED
    BY <1>6, <2>1
<1>9. ASSUME NEW t \in Commands, NEW a \in Agents, NEW m \in Modes, Enable(t, a, m) PROVE Goal
  <2>1. activation' = activation /\ config' = config /\ task[t].at = "idle"
    BY <1>9 DEF Enable, Begin, At
  <2>2. PICK step \in {"current", "write"} : Becomes(t, Begun(a, step, m, activation[a]))
    BY <1>9, Enabling
  <2> HIDE DEF Goal
  <2> QED
    BY <1>6, <2>1, <2>2
<1>10. ASSUME PacReapply \/ PacRestore PROVE Goal
  <2>1. PICK step : Becomes("pac", To("pac", step))
    BY <1>10, ButtonPressed
  <2>2. activation' = activation /\ config' = config /\ "pac" \in Tasks
    BY <1>10 DEF PacReapply, PacRestore, Tasks
  <2> HIDE DEF Goal
  <2> QED
    BY <1>3, <1>7, <2>1, <2>2
<1>11. ASSUME NEW t \in Tasks, Step(t) PROVE Goal
  <2>1. CASE t \notin Commands
    <3>1. activation' = activation /\ config' = config
      BY <1>11, <2>1, PacStepsApart
    <3>2. \E r : Becomes(t, r)
      BY <1>11, StepBecomes
    <3> HIDE DEF Goal
    <3> QED
      BY <1>7, <2>1, <3>1, <3>2
  <2>2. CASE t \in Commands
    <3>1. task[t].at # "idle" /\ task[t].agent \in Agents
      <4>1. task[t].at # "idle"
        BY <1>11, StepBecomes
      <4> QED
        BY <1>2, <2>2, <4>1 DEF AgentTask
    <3> DEFINE a == task[t].agent
    <3>2. Shows(a, task[t], activation[a], config[a])
      BY <1>2, <2>2, <3>1 DEF Shows, Shown, Written, At
    <3>3. PICK r : Becomes(t, r) /\ Runs(t, r) /\ Shows(a, r, activation'[a], config'[a])
      BY <1>1, <1>11, <2>2, <3>1, <3>2, ShownStep
    <3>4. task'[t] = r /\ \A s \in Commands \ {t} : task'[s] = task[s]
      BY <1>2, <2>2, <3>3 DEF Becomes
    <3>5. \A b \in Agents : b # a => activation'[b] = activation[b] /\ config'[b] = config[b]
      BY <1>11, Elsewhere
    <3>6. ASSUME NEW b \in Agents PROVE Shown(b)'
      <4>1. CASE b # a
        BY <1>2, <2>2, <3>4, <3>5, <4>1 DEF Shown, At
      <4>2. CASE b = a
        <5>1. r.at = "off" => r.agent = a
          BY <3>3 DEF Runs
        <5> QED
          BY <2>2, <3>3, <3>4, <4>2, <5>1 DEF Shows, Shown, At
      <4> QED
        BY <4>1, <4>2
    <3>7. ASSUME NEW s \in Commands PROVE Written(s)'
      <4>1. CASE s # t /\ task[s].at # "idle"
        <5>1. task[s].agent \in Agents /\ task[s].agent # a
          BY <1>2, <2>2, <3>1, <4>1 DEF AgentTask
        <5> QED
          BY <1>2, <3>4, <3>5, <4>1, <5>1 DEF Written, At
      <4>2. CASE s # t /\ task[s].at = "idle"
        BY <1>4, <3>4, <4>2
      <4>3. CASE s = t
        <5>1. r.at = "idle" \/ r.agent = a
          BY <3>3 DEF Runs
        <5> QED
          BY <1>4, <2>2, <3>3, <3>4, <4>3, <5>1 DEF Shows, Written, At
      <4> QED
        BY <4>1, <4>2, <4>3
    <3> QED
      BY <3>6, <3>7
  <2> QED
    BY <2>1, <2>2
<1>12. ASSUME NEW c \in Agents, Reconcile(c) PROVE Goal
  <2>1. PICK r : Becomes("reconcile", r)
    BY <1>12, Reconciles
  <2>2. activation' = activation /\ config' = config /\ "reconcile" \in Tasks
    BY <1>12 DEF Reconcile, Tasks
  <2> HIDE DEF Goal
  <2> QED
    BY <1>3, <1>7, <2>1, <2>2
<1>13. ASSUME Detect PROVE Goal
  <2>1. PICK r : Becomes("reconcile", r)
    BY <1>13, Detects
  <2>2. activation' = activation /\ config' = config /\ "reconcile" \in Tasks
    BY <1>13 DEF Detect, Tasks
  <2> HIDE DEF Goal
  <2> QED
    BY <1>3, <1>7, <2>1, <2>2
<1>14. ASSUME MarkOff PROVE Goal
  <2>1. Becomes("reconcile", Idle) /\ "reconcile" \in Tasks /\ config' = config
    BY <1>14, MarksOff DEF MarkOff
  <2>2. \A a \in Agents : activation'[a] = activation[a] \/ ~activation'[a].enabled
    BY <1>3, <1>14 DEF MarkOff, Off
  <2> HIDE DEF Goal
  <2> QED
    BY <1>3, <1>7, <2>1, <2>2
<1>15. ASSUME NEW c \in Agents, Edit(c) \/ Unmark(c) PROVE Goal
  <2>1. {"edit", "unmark"} \in SUBSET Events
    BY DEF Events
  <2> QED
    BY <1>1, <1>15, <2>1, NotUsed DEF Edit, Unmark, Clean
\* When the application dies, a command that has rolled back the file has left the agent shown.
<1>16. ASSUME Crash PROVE Goal
  <2>1. activation' = activation /\ config' = config /\ \A t \in Tasks : task'[t].at = "idle"
    BY <1>16 DEF Crash, Idle
  <2>2. \A t \in Commands : Written(t)'
    BY <1>2, <1>4, <2>1
  <2>3. ASSUME NEW a \in Agents, NEW t \in Commands, task[t].at = "off", task[t].agent = a,
               activation[a].enabled, WritesConfig(a, activation[a].mode)
        PROVE  FALSE
    <3>1. Written(t) /\ t \in Tasks
      BY <1>2
    <3>2. task[t].now = activation[a]
      BY <2>3, <3>1 DEF Written, Secure, At
    <3>3. "unapplied" \in Half(t)
      BY <2>3, <3>2 DEF Half, At, Parts
    <3>4. "unapplied" \in parted'
      BY <1>16, <3>1, <3>3 DEF Crash
    <3> QED
      BY <1>1, <3>4 DEF Clean
  <2>4. ASSUME NEW a \in Agents PROVE Shown(a)'
    BY <1>2, <2>1, <2>3, <2>4 DEF Shown, At
  <2> QED
    BY <2>2, <2>4
<1>17. ASSUME UNCHANGED vars PROVE Goal
  <2> HIDE DEF Goal
  <2> QED
    BY <1>5, <1>17 DEF vars
<1> HIDE DEF Goal
<1>18. Goal
  BY <1>8, <1>9, <1>10, <1>11, <1>12, <1>13, <1>14, <1>15, <1>16, <1>17 DEF Next, Command, SelfCheck
<1> QED
  BY <1>18 DEF Goal

\* Commands on different agents and the self-check may overlap in any way, prompts may be
\* dismissed, and files and the database may fail and the application die: as long as no two
\* commands are on one agent, the user changes no file, and neither a failure nor a death has
\* come between the rolling back of a file and the storing of the row, an agent shown as
\* protected through its file has our values in it when no command runs (enable, disable,
\* reconcile).
THEOREM ProtectionIsReal == Spec => []ProtectionKept
<1>1. Init => TypeInv /\ Apart /\ ShownInv
  <2> SUFFICES ASSUME Init PROVE Apart /\ ShownInv
    BY TypeInit
  <2>1. \A t \in Commands : task[t] = Idle
    BY DEF Init, Tasks
  <2>2. Idle.at = "idle" /\ ~Idle.applied
    BY DEF Idle
  <2>3. \A a \in Agents : ~activation[a].enabled
    BY DEF Init, Off
  <2> QED
    BY <2>1, <2>2, <2>3 DEF Apart, At, ShownInv, Shown, Written
<1>2. TypeInv /\ Apart /\ ShownInv /\ [Next]_vars => (TypeInv /\ Apart /\ ShownInv)'
  BY ApartStays, ShownStays, NextDigest DEF Digest
<1>3. TypeInv /\ ShownInv => ProtectionKept
  <2> SUFFICES ASSUME TypeInv, ShownInv, Clean, Quiet, NEW a \in Agents PROVE Applied(a)
    BY DEF ProtectionKept, ShownIsApplied, Clean
  <2>1. Shown(a) /\ \A t \in Commands : ~At(t, "off")
    BY DEF ShownInv, Quiet, At, Tasks
  <2> QED
    BY <2>1 DEF Shown, Applied, Marked
<1> QED
  BY <1>1, <1>2, <1>3, PTL DEF Spec
-----------------------------------------------------------------------------
LEMMA SavedBefore == ASSUME Digest, Saved' PROVE Saved
  BY DEF Saved, OneByOne, Digest, Parting

\* Commands one at a time: the others are idle while t runs.
LEMMA OthersIdle ==
    ASSUME Alone, OneByOne, NEW t \in Tasks, task[t].at # "idle", NEW s \in Tasks, s # t
    PROVE  task[s].at = "idle"
  BY DEF Alone, At

PacStep(t) ==
    ReadBackup(t) \/ Snapshot(t) \/ SetPac(t) \/ SaveBackup(t) \/ ResetPac(t) \/ DropBackup(t)
Between == {"snapshot", "set", "save", "reset", "drop"}
LeavesPac ==
    /\ pac' = pac /\ backup' = backup
    /\ \/ task' = task
       \/ \E t \in Tasks : \E r \in Task :
             /\ Becomes(t, r) /\ r.at \notin Between
             /\ task[t].at = "save" => backup # None \/ "unsaved" \in parted'

\* The PAC and its backup are accessed by the PAC steps only.
LEMMA OtherSteps ==
    ASSUME TypeInv, [Next]_vars, ~Crash, \A t \in Tasks : ~PacStep(t)
    PROVE  LeavesPac
<1>0. /\ Commands \subseteq Tasks /\ "pac" \in Tasks /\ "reconcile" \in Tasks
      /\ Idle.at \notin Between
      /\ \A t, step : To(t, step).at = step
  BY DEF Tasks, Idle, Between, To, Turned
<1>1. ASSUME pac' = pac, backup' = backup, NEW t \in Tasks, NEW r, Becomes(t, r),
             r.at \notin Between, task[t].at # "save"
      PROVE  LeavesPac
  BY <1>1 DEF LeavesPac, Becomes
<1>2. ASSUME pac' = pac, backup' = backup, NEW t \in Tasks, Continues(t), task[t].at # "save"
      PROVE  LeavesPac
  BY <1>0, <1>1, <1>2 DEF Continues, Between
<1>3. ASSUME NEW t \in Commands, NEW a \in Agents, Disable(t, a) PROVE LeavesPac
  <2>1. pac' = pac /\ backup' = backup /\ task[t].at # "save"
        /\ Becomes(t, Begun(a, "current", None, None))
    BY <1>3, Disabling DEF Disable, Begin, Free
  <2> QED
    BY <1>0, <1>1, <2>1 DEF Begun, Start, Between
<1>4. ASSUME NEW t \in Commands, NEW a \in Agents, NEW m \in Modes, Enable(t, a, m) PROVE LeavesPac
  <2>1. pac' = pac /\ backup' = backup /\ task[t].at # "save"
    BY <1>4, Enabling DEF Enable, Begin, Free
  <2>2. PICK step \in {"current", "write"} : Becomes(t, Begun(a, step, m, activation[a]))
    BY <1>4, Enabling
  <2> QED
    BY <1>0, <1>1, <2>1, <2>2 DEF Begun, Start, Between
<1>5. ASSUME PacReapply \/ PacRestore PROVE LeavesPac
  <2>1. pac' = pac /\ backup' = backup /\ task["pac"].at # "save"
    BY <1>5, ButtonPressed DEF PacReapply, PacRestore, Free
  <2>2. PICK step \in {"apply", "restore"} : Becomes("pac", To("pac", step))
    BY <1>5, ButtonPressed
  <2> QED
    BY <1>0, <1>1, <2>1, <2>2 DEF Between
<1>6. ASSUME NEW t \in Tasks, Step(t) PROVE LeavesPac
  <2>1. CASE ReadCurrent(t)
    <3>1. pac' = pac /\ backup' = backup /\ task[t].at # "save"
      BY <2>1 DEF ReadCurrent, At
    <3>2. \A n, p, v, s : Turned(t, "rollback", n, p, v, s).at \notin Between
      BY DEF Turned, Between
    <3> QED
      BY <1>1, <1>2, <2>1, <3>1, <3>2, CurrentRead
  <2>2. CASE RollBackConfig(t)
    BY <1>0, <1>1, <2>2, ConfigRolledBack DEF RollBackConfig, At, Between
  <2>3. CASE StoreOff(t)
    <3>1. pac' = pac /\ backup' = backup /\ task[t].at # "save"
      BY <2>3 DEF StoreOff, At
    <3> QED
      BY <1>0, <1>1, <1>2, <2>3, <3>1, OffStored DEF Between
  <2>4. CASE CheckOthers(t)
    <3>1. pac' = pac /\ backup' = backup /\ task[t].at # "save"
      BY <2>4 DEF CheckOthers, At
    <3> QED
      BY <1>0, <1>1, <2>4, <3>1, OthersChecked DEF Between
  <2>5. CASE Untrusted(t)
    BY <1>0, <1>1, <2>5, GivesUp DEF Untrusted
  <2>6. CASE WriteConfig(t)
    <3>1. pac' = pac /\ backup' = backup /\ task[t].at # "save"
      BY <2>6 DEF WriteConfig, At
    <3>2. \A n, p, v, s : Turned(t, "store", n, p, v, s).at \notin Between
      BY DEF Turned, Between
    <3> QED
      BY <1>0, <1>1, <2>6, <3>1, <3>2, ConfigWritten DEF Between
  <2>7. CASE StoreOn(t)
    <3>1. pac' = pac /\ backup' = backup /\ task[t].at # "save"
      BY <2>7 DEF StoreOn, At
    <3> QED
      BY <1>0, <1>1, <2>7, <3>1, OnStored DEF Between
  <2>8. CASE PushConfig(t)
    <3>1. pac' = pac /\ backup' = backup /\ task[t].at # "save"
      BY <2>8 DEF PushConfig, At
    <3>2. \A n, p, v, s : Turned(t, "apply", n, p, v, s).at \notin Between
      BY DEF Turned, Between
    <3> QED
      BY <1>1, <2>8, <3>1, <3>2, Pushed
  <2>9. CASE UndoStore(t)
    <3>1. pac' = pac /\ backup' = backup /\ task[t].at # "save"
      BY <2>9 DEF UndoStore, At
    <3>2. To(t, "undo_config").at \notin Between
      BY DEF To, Turned, Between
    <3> QED
      BY <1>1, <2>9, <3>1, <3>2, StoreUndone
  <2>10. CASE UndoConfig(t)
    BY <1>0, <1>1, <2>10, ConfigUndone DEF UndoConfig, At
  <2>11. CASE PromptDismissed(t)
    <3>1. pac' = pac /\ backup' = backup /\ task[t].at # "save"
      BY <2>11 DEF PromptDismissed, At
    <3> QED
      BY <1>0, <1>1, <2>11, <3>1, PromptGone DEF GivenUp, Between
  <2>12. CASE FileFails(t)
    BY <1>0, <1>1, <2>12, FileFailed DEF FileFails
  <2>13. CASE DatabaseFails(t)
    <3>1. pac' = pac /\ backup' = backup
      BY <2>13 DEF DatabaseFails
    <3>2. task[t].at = "save" => backup # None \/ "unsaved" \in parted'
      BY <2>13 DEF DatabaseFails, Half, At, Parts
    <3>3. PICK r \in Task : Becomes(t, r) /\ r.at \notin Between
      <4>1. \/ Becomes(t, Idle) \/ Becomes(t, To(t, "undo"))
            \/ Becomes(t, To(t, "undo_config"))
        BY <2>13, DatabaseFailed DEF GivenUp
      <4> QED
        BY <1>0, <4>1 DEF Becomes, Between
    <3> QED
      BY <3>1, <3>2, <3>3 DEF LeavesPac
  <2> QED
    BY <1>6, <2>1, <2>2, <2>3, <2>4, <2>5, <2>6, <2>7, <2>8, <2>9, <2>10, <2>11, <2>12,
       <2>13 DEF Step, PacStep
<1>7. ASSUME NEW a \in Agents, Reconcile(a) PROVE LeavesPac
  <2>1. PICK r \in Task : Becomes("reconcile", r) /\ r.at = "detect"
    BY <1>7, Reconciles
  <2>2. pac' = pac /\ backup' = backup /\ task["reconcile"].at # "save"
    BY <1>7, Reconciles DEF Reconcile, Free
  <2> QED
    BY <1>0, <1>1, <2>1, <2>2 DEF Between
<1>8. ASSUME Detect PROVE LeavesPac
  <2>1. pac' = pac /\ backup' = backup /\ task["reconcile"].at # "save"
    BY <1>8 DEF Detect, At
  <2> QED
    BY <1>0, <1>1, <1>8, <2>1, Detects DEF Between
<1>9. ASSUME MarkOff PROVE LeavesPac
  BY <1>0, <1>1, <1>9, MarksOff DEF MarkOff, At
<1>10. ASSUME NEW a \in Agents, Edit(a) \/ Unmark(a) PROVE LeavesPac
  BY <1>10 DEF Edit, Unmark, LeavesPac
<1>11. CASE UNCHANGED vars
  BY <1>11 DEF vars, LeavesPac
<1> QED
  BY <1>3, <1>4, <1>5, <1>6, <1>7, <1>8, <1>9, <1>10, <1>11 DEF Next, Command, SelfCheck

LEMMA PacInvStays == ASSUME TypeInv, Alone, PacInv, [Next]_vars PROVE PacInv'
<1>1. SUFFICES ASSUME Saved' PROVE Original'
  BY DEF PacInv
<1>2. Digest
  BY NextDigest
<1>3. Saved /\ OneByOne /\ Original /\ "unsaved" \notin parted'
  BY <1>1, <1>2, SavedBefore DEF PacInv, Saved
<1>4. backup \in Value \cup {None} /\ pac \in Value /\ \A t \in Tasks : task[t] \in Task
  BY DEF TypeInv, TypeOK, StateOK
<1>5. None # Ours /\ None \notin User /\ Ours \notin User /\ Value = User \cup {Ours}
  BY NoneAssumption DEF Ours, User, Value
<1>6. CASE LeavesPac
  <2>1. CASE task' = task
    BY <1>3, <1>6, <2>1 DEF Original, LeavesPac
  <2>2. ASSUME NEW t \in Tasks, NEW r, Becomes(t, r), r.at \notin Between,
               task[t].at = "save" => backup # None
        PROVE  Original'
    <3>1. \A s \in Tasks : task'[s] = task[s] \/ task'[s].at \notin Between
      BY <2>2 DEF Becomes
    <3>2. pac = Ours => backup # None \/ \E s \in Tasks : task'[s].at = "save"
      BY <1>3, <2>2 DEF Original, Becomes
    <3> QED
      BY <1>3, <1>6, <3>1, <3>2 DEF Original, LeavesPac, Between
  <2> QED
    BY <1>3, <1>6, <2>1, <2>2 DEF LeavesPac
\* A PAC step of t: the others are idle.
<1>7. ASSUME NEW t \in Tasks, NEW r, Becomes(t, r), task[t].at # "idle"
      PROVE  /\ \A s \in Tasks : s = t \/ (task'[s].at = "idle" /\ task[s].at = "idle")
             /\ task'[t] = r
  BY <1>3, <1>7, OthersIdle DEF Becomes
<1>8. ASSUME NEW t \in Tasks, NEW r, Becomes(t, r), task[t].at # "idle", r.at \notin Between,
             backup' # Ours, pac' = Ours => backup' # None
      PROVE  Original'
  BY <1>7, <1>8 DEF Original, Between
<1>9. ASSUME NEW t \in Tasks, Finished(t), task[t].at # "idle",
             backup' # Ours, pac' = Ours => backup' # None
      PROVE  Original'
  <2>1. Idle.at \notin Between /\ To(t, "write").at \notin Between /\ To(t, "finish").at \notin Between
    BY DEF Idle, To, Turned, Between
  <2> QED
    BY <1>8, <1>9, <2>1 DEF Finished, Continues
<1>10. ASSUME NEW t \in Tasks, PacStep(t) PROVE Original'
  <2>0. task[t].at # "idle"
    BY <1>10 DEF PacStep, ReadBackup, Snapshot, SetPac, SaveBackup, ResetPac, DropBackup, At
  <2>1. CASE ReadBackup(t)
    <3>1. pac' = pac /\ backup' = backup /\ task[t].at # "save"
      BY <2>1 DEF ReadBackup, At
    <3>2. pac = Ours => backup # None
      BY <1>3, <2>0, <3>1, OthersIdle DEF Original
    <3>3. CASE Finished(t)
      BY <1>3, <1>9, <2>0, <3>1, <3>2, <3>3 DEF Original
    <3>4. ASSUME NEW step \in {"snapshot", "reset"}, NEW n, NEW p, NEW v,
                 Becomes(t, Turned(t, step, n, p, v, backup))
          PROVE  Original'
      <4>1. task'[t].at = step /\ task'[t].saved = backup
        BY <3>4 DEF Becomes, Turned
      <4> QED
        BY <1>3, <1>7, <2>0, <3>1, <3>2, <3>4, <4>1 DEF Original
    <3> QED
      BY <2>1, <3>3, <3>4, BackupRead
  <2>2. CASE Snapshot(t)
    <3>1. backup' = backup /\ pac' = pac /\ task[t].at = "snapshot"
      BY <2>2 DEF Snapshot, At
    <3>2. task[t].saved = backup
      BY <1>3, <3>1 DEF Original
    <3>3. pac = Ours => backup # None
      BY <1>3, <2>0, <3>1, OthersIdle DEF Original
    <3> DEFINE kept == IF task[t].saved = None THEN pac ELSE task[t].saved
               r == Turned(t, "set", task[t].now, task[t].applied, task[t].rollback, kept)
    <3>4. Becomes(t, r) /\ r.at = "set" /\ r.saved = kept
      BY <2>2, SnapshotTaken DEF Turned
    <3>5. kept \in User
      BY <1>3, <1>4, <1>5, <3>2, <3>3 DEF Original
    <3>6. task'[t].at = "set" /\ task'[t].saved \in User
      BY <3>4, <3>5 DEF Becomes
    <3>7. \A s \in Tasks : s = t \/ task'[s].at = "idle"
      BY <1>7, <2>0, <3>4
    <3> QED
      BY <1>3, <3>1, <3>3, <3>6, <3>7 DEF Original
  <2>3. CASE SetPac(t)
    <3>1. backup' = backup /\ task[t].at = "set"
      BY <2>3 DEF SetPac, At
    <3>2. Becomes(t, To(t, "save"))
      BY <2>3, PacSet
    <3>3. task'[t].at = "save" /\ task'[t].saved = task[t].saved
      BY <3>2 DEF Becomes, To, Turned
    <3>4. \A s \in Tasks : s = t \/ task'[s].at = "idle"
      BY <1>7, <2>0, <3>2
    <3> QED
      BY <1>3, <3>1, <3>3, <3>4 DEF Original
  <2>4. CASE SaveBackup(t)
    <3>1. backup' = task[t].saved /\ task[t].at = "save"
      BY <2>4 DEF SaveBackup, At
    <3>2. backup' # Ours /\ backup' # None
      BY <1>3, <1>5, <3>1 DEF Original
    <3> QED
      BY <1>9, <2>0, <2>4, <3>2, BackupStored
  <2>5. CASE ResetPac(t)
    <3>1. pac' = backup /\ backup' = backup
      BY <1>3, <2>5 DEF ResetPac, At, Original
    <3>4. Becomes(t, To(t, "drop"))
      BY <2>5, PacReset
    <3>2. task'[t].at = "drop"
      BY <3>4 DEF Becomes, To, Turned
    <3>3. \A s \in Tasks : s = t \/ task'[s].at = "idle"
      BY <1>7, <2>0, <3>4
    <3> QED
      BY <1>3, <3>1, <3>2, <3>3 DEF Original
  <2>6. CASE DropBackup(t)
    <3>1. backup' = None /\ pac' = pac /\ pac # Ours
      BY <1>3, <2>6 DEF DropBackup, At, Original
    <3> QED
      BY <1>5, <1>9, <2>0, <2>6, <3>1, BackupStored
  <2> QED
    BY <1>10, <2>1, <2>2, <2>3, <2>4, <2>5, <2>6 DEF PacStep
\* When the application dies, a command that has not saved the backup leaves the PAC unsaved.
<1>11. CASE Crash
  <2>1. /\ pac' = pac /\ backup' = backup /\ \A t \in Tasks : task'[t].at = "idle"
        /\ \A t \in Tasks : Half(t) \subseteq parted'
    BY <1>11 DEF Crash, Idle
  <2>2. ASSUME pac = Ours, backup = None PROVE FALSE
    <3>1. PICK t \in Tasks : task[t].at = "save"
      BY <1>3, <2>2 DEF Original
    <3>2. "unsaved" \in Half(t)
      BY <2>2, <3>1 DEF Half, At, Parts
    <3> QED
      BY <1>3, <2>1, <3>2
  <2> QED
    BY <1>3, <2>1, <2>2 DEF Original
<1> QED
  BY <1>6, <1>10, <1>11, OtherSteps

\* Commands one at a time, the buttons included: the PAC kept as the original one is never our
\* own, unless a failure of the database or a death of the application has come between the
\* applying of our PAC and the saving of the backup (apply_system_pac, restore_system_pac).
THEOREM BackupIsTheUsers == Spec => []BackupKept
<1>1. Init => TypeInv /\ Alone /\ PacInv
  <2>1. ASSUME Init PROVE Alone /\ Original
    <3>1. \A t \in Tasks : task[t].at = "idle"
      BY <2>1 DEF Init, Idle
    <3>2. backup = None /\ pac = "user" /\ None # Ours /\ "user" # Ours
      BY <2>1, NoneAssumption DEF Init, Ours
    <3> QED
      BY <3>1, <3>2 DEF Alone, At, Original
  <2> QED
    BY <2>1, TypeInit DEF PacInv
<1>2. TypeInv /\ Alone /\ PacInv /\ [Next]_vars => (TypeInv /\ Alone /\ PacInv)'
  BY AloneStays, PacInvStays, NextDigest DEF Digest
<1>3. PacInv => BackupKept
  BY DEF PacInv, BackupKept, BackupIsOriginal, Saved, Original
<1> QED
  BY <1>1, <1>2, <1>3, PTL DEF Spec
-----------------------------------------------------------------------------
LEMMA RecordedBefore == ASSUME Digest, Recorded' PROVE Recorded
  BY DEF Recorded, OneByOne, Digest, Parting

LEMMA KeptEnded ==
    ASSUME NEW a, NEW row, NEW file, NEW r, r.at = "idle", Kept(a, row, file, r)
    PROVE  Kept(a, row, file, Idle)
<1>1. Restorable(a, row) /\ Stable(a, row, file)
  BY DEF Kept
<1> QED
  BY <1>1 DEF Kept, Holds, Idle

LEMMA KeptStep ==
    ASSUME TypeInv, NEW t \in Commands, NEW a \in Agents, a = task[t].agent, Step(t), Recorded',
           Kept(a, activation[a], config[a], task[t])
    PROVE  \E r : /\ Becomes(t, r) /\ Runs(t, r)
                  /\ Kept(a, activation'[a], config'[a], r)
<1>1. /\ t \in Tasks /\ task[t] \in Task /\ AgentTask(task[t])
      /\ activation[a] \in Row /\ config[a].value \in Value
  BY TaskIs DEF Tasks, TypeInv, TypeOK, StateOK
<1>2. /\ activation \in [Agents -> Row]
      /\ config \in [Agents -> [value : Value, marked : BOOLEAN]]
      /\ task[t].at # "idle" /\ "unrecorded" \notin parted'
  BY <1>1, StepBecomes DEF TypeInv, TypeOK, StateOK, Recorded
<1>3. None # Ours /\ None \notin User /\ Ours \notin User /\ Value = User \cup {Ours}
  BY NoneAssumption DEF Ours, User, Value
<1> DEFINE Keeps(r) == Kept(a, activation'[a], config'[a], r)
           Goal == \E r : Becomes(t, r) /\ Runs(t, r) /\ Keeps(r)
<1> SUFFICES Goal
  OBVIOUS
<1>41. \A step, n, p, v, s : Runs(t, Turned(t, step, n, p, v, s))
  BY <1>1, <1>2, Running
<1>42. \A step : Runs(t, To(t, step))
  BY <1>1, <1>2, Running
<1>43. Runs(t, Idle)
  BY <1>1, <1>2, Running
<1>44. \A step, n, p, v, s :
           LET r == Turned(t, step, n, p, v, s) IN Becomes(t, r) /\ Keeps(r) => Goal
  BY <1>41
<1>45. \A step : Becomes(t, To(t, step)) /\ Keeps(To(t, step)) => Goal
  BY <1>42
<1>46. Becomes(t, Idle) /\ Keeps(Idle) => Goal
  BY <1>43
<1> HIDE DEF Keeps, Goal
\* Row and file stay: the task ends, or goes on with what it holds.
<1>5. ASSUME activation' = activation, config' = config, task[t].at \notin {"store", "undo_config"}
      PROVE  Keeps(Idle)
  BY <1>5 DEF Keeps, Kept, Holds, Idle
<1>6. ASSUME activation' = activation, config' = config, NEW step, NEW s,
             step \notin {"idle", "current", "rollback", "store", "push"},
             task[t].at \notin {"idle", "current", "rollback", "store", "push", "undo_config"}
      PROVE  Keeps(Turned(t, step, task[t].now, task[t].applied, task[t].rollback, s))
  BY <1>6 DEF Keeps, Kept, Holds, HeldBack, Turned
<1>7. ASSUME config[a].value \in User, config' = config, Restorable(a, activation'[a]),
             ~Holds(task[t]), Continues(t)
      PROVE  Goal
  <2>1. Keeps(Idle)
    BY <1>7 DEF Keeps, Kept, Holds, Stable, Idle
  <2>2. task[t].mode # None => Keeps(To(t, "write"))
    BY <1>7 DEF Keeps, Kept, Holds, Stable, To, Turned
  <2> QED
    BY <1>45, <1>46, <1>7, <2>1, <2>2 DEF Continues
<1>8. CASE ReadCurrent(t)
  <2>1. /\ activation' = activation /\ config' = config /\ task[t].at = "current"
        /\ ~Holds(task[t])
    BY <1>1, <1>8 DEF ReadCurrent, At, AgentTask, Holds
  <2>2. Keeps(Turned(t, "rollback", activation[a], task[t].applied, task[t].rollback, task[t].saved))
    BY <2>1 DEF Keeps, Kept, Holds, Turned
  <2>3. ~activation[a].enabled => config[a].value \in User
    BY <2>1 DEF Kept, Stable
  <2>4. Restorable(a, activation[a])
    BY DEF Kept
  <2> QED
    BY <1>1, <1>7, <1>8, <1>44, <2>1, <2>2, <2>3, <2>4, CurrentRead
<1>9. CASE RollBackConfig(t)
  <2>1. /\ activation' = activation /\ task[t].at = "rollback"
        /\ ~Holds(task[t]) /\ Becomes(t, To(t, "off"))
    BY <1>1, <1>9, ConfigRolledBack DEF RollBackConfig, At, AgentTask, Holds
  <2>2. /\ task[t].now = activation[a] /\ Restorable(a, activation[a])
        /\ Stable(a, activation[a], config[a]) /\ activation[a].rollback \in Value \cup {None}
    BY <1>1, <2>1 DEF Kept, Row
  <2>3. config'[a].value \in User
    <3>1. CASE WritesConfig(a, activation[a].mode) /\ activation[a].rollback # None
      <4>1. config'[a] = [value |-> activation[a].rollback, marked |-> FALSE]
        BY <1>2, <1>9, <2>1, <2>2, <3>1 DEF RollBackConfig
      <4> QED
        BY <1>3, <2>2, <3>1, <4>1 DEF Restorable
    <3>2. CASE ~(WritesConfig(a, activation[a].mode) /\ activation[a].rollback # None)
      BY <1>9, <2>1, <2>2, <3>2 DEF RollBackConfig, Restorable, Stable
    <3> QED
      BY <3>1, <3>2
  <2>4. Keeps(To(t, "off"))
    BY <2>1, <2>3 DEF Keeps, Kept, Holds, Stable, To, Turned
  <2> QED
    BY <1>45, <2>1, <2>4
<1>10. CASE StoreOff(t)
  <2>1. /\ activation'[a] = Off(task[t].now.mode) /\ config' = config
        /\ task[t].at = "off" /\ ~Holds(task[t])
    BY <1>1, <1>2, <1>10, OffStored DEF StoreOff, At, AgentTask, Holds
  <2>2. config[a].value \in User /\ Restorable(a, activation'[a])
    BY <1>3, <2>1 DEF Kept, Off, Restorable
  <2>3. Keeps(To(t, "others"))
    BY <2>1, <2>2 DEF Keeps, Kept, Holds, Stable, To, Turned
  <2> QED
    BY <1>1, <1>45, <1>7, <1>10, <2>1, <2>2, <2>3, OffStored
<1>11. CASE CheckOthers(t)
  <2>1. activation' = activation /\ config' = config /\ task[t].at = "others"
    BY <1>11 DEF CheckOthers, At
  <2>2. Keeps(To(t, "apply")) /\ Keeps(To(t, "restore"))
    BY <1>6, <2>1 DEF To
  <2> QED
    BY <1>1, <1>45, <1>11, <2>2, OthersChecked
<1>12. CASE Untrusted(t)
  <2>1. activation' = activation /\ config' = config /\ task[t].at = "write" /\ Becomes(t, Idle)
    BY <1>1, <1>12, GivesUp DEF Untrusted, At
  <2> QED
    BY <1>46, <1>5, <2>1
<1>13. CASE WriteConfig(t)
  <2>1. activation' = activation /\ task[t].at = "write" /\ ~Holds(task[t])
    BY <1>1, <1>13 DEF WriteConfig, At, AgentTask, Holds
  <2>2. config[a].value \in User /\ task[t].rollback = None /\ task[t].mode # None
    BY <1>1, <2>1 DEF Kept, AgentTask
  <2>3. CASE WritesConfig(a, task[t].mode)
    <3>1. Becomes(t, Turned(t, "store", task[t].now, task[t].applied, config[a].value, task[t].saved))
      BY <1>1, <1>2, <1>13, <2>3, ConfigWritten
    <3>2. Keeps(Turned(t, "store", task[t].now, task[t].applied, config[a].value, task[t].saved))
      BY <2>1, <2>2, <2>3, <3>1 DEF Keeps, Kept, Holds, HeldBack, Turned
    <3> QED
      BY <1>44, <3>1, <3>2
  <2>4. CASE ~WritesConfig(a, task[t].mode)
    <3>1. config' = config /\ Becomes(t, To(t, "store"))
      BY <1>1, <1>13, <2>4, ConfigWritten
    <3>2. Keeps(To(t, "store"))
      BY <2>1, <2>2, <2>4, <3>1 DEF Keeps, Kept, Holds, HeldBack, To, Turned
    <3> QED
      BY <1>45, <3>1, <3>2
  <2> QED
    BY <2>3, <2>4
<1>14. CASE StoreOn(t)
  <2>5. Holds(task[t]) /\ task[t].mode # None
    BY <1>1, <1>14, NoneAssumption DEF StoreOn, At, Holds, AgentTask
  <2>6. activation'[a] = On(t) /\ config' = config
    BY <1>1, <1>2, <1>14, OnStored, ZenonT(60) DEF StoreOn
  <2>1. HeldBack(a, config[a], task[t])
    BY <2>5 DEF Kept
  <2>2. Restorable(a, On(t)) /\ Stable(a, On(t), config[a])
    BY <1>3, <2>1, <2>5 DEF On, Restorable, Stable, HeldBack
  <2>3. Keeps(Idle)
    BY <2>2, <2>6 DEF Keeps, Kept, Holds, Idle
  <2>4. Keeps(To(t, "push"))
    BY <2>1, <2>2, <2>6 DEF Keeps, Kept, Holds, HeldBack, To, Turned
  <2> QED
    BY <1>1, <1>45, <1>46, <1>14, <2>3, <2>4, OnStored
<1>15. CASE PushConfig(t)
  <2>1. activation' = activation /\ config' = config /\ task[t].at = "push" /\ Holds(task[t])
    BY <1>15 DEF PushConfig, At, Holds
  <2>2. Keeps(Turned(t, "apply", task[t].now, TRUE, task[t].rollback, task[t].saved))
    BY <2>1 DEF Keeps, Kept, Holds, HeldBack, Turned
  <2> QED
    BY <1>1, <1>44, <1>15, <2>2, Pushed
<1>16. CASE UndoStore(t)
  <2>1. /\ activation'[a] = task[t].before /\ config' = config /\ task[t].applied
        /\ task[t].mode = "SystemProxy" /\ Becomes(t, To(t, "undo_config")) /\ task[t].at = "undo"
    BY <1>1, <1>2, <1>16, StoreUndone DEF UndoStore, AgentTask, At
  <2>2. Restorable(a, task[t].before) /\ HeldBack(a, config[a], task[t])
    BY <2>1, NoneAssumption DEF Kept, Holds
  <2>3. Keeps(To(t, "undo_config"))
    BY <2>1, <2>2 DEF Keeps, Kept, Holds, HeldBack, To, Turned
  <2> QED
    BY <1>45, <2>1, <2>3
<1>17. CASE UndoConfig(t)
  <2>1. /\ activation' = activation /\ task[t].applied
        /\ task[t].mode = "SystemProxy" /\ Becomes(t, Idle)
    BY <1>1, <1>17, ConfigUndone DEF UndoConfig, AgentTask
  <2>2. HeldBack(a, config[a], task[t])
    BY <2>1 DEF Kept, Holds
  <2>3. config'[a].value \in User
    <3>1. CASE a = "Claude"
      <4>1. config'[a] = [value |-> task[t].rollback, marked |-> FALSE]
        BY <1>2, <1>17, <2>1, <3>1 DEF UndoConfig
      <4> QED
        BY <2>1, <2>2, <3>1, <4>1 DEF HeldBack, WritesConfig
    <3>2. CASE a # "Claude"
      BY <1>17, <2>1, <2>2, <3>2 DEF UndoConfig, HeldBack, WritesConfig
    <3> QED
      BY <3>1, <3>2
  <2>4. Keeps(Idle)
    BY <2>1, <2>3 DEF Keeps, Kept, Holds, Stable, Idle
  <2> QED
    BY <1>46, <2>1, <2>4
<1>18. CASE PacStep(t) \/ PromptDismissed(t)
  <2>1. /\ activation' = activation /\ config' = config
        /\ task[t].at \notin {"idle", "current", "rollback", "store", "push", "undo_config"}
    BY <1>18 DEF PacStep, ReadBackup, Snapshot, SetPac, SaveBackup, ResetPac, DropBackup,
       PromptDismissed, At
  <2>2. ~Holds(task[t]) => config[a].value \in User
    BY <2>1 DEF Kept
  <2>3. Finished(t) => Goal
    <3>1. task[t].applied => Keeps(To(t, "finish"))
      BY <1>6, <2>1 DEF To
    <3>2. ~task[t].applied => ~Holds(task[t])
      BY <2>1 DEF Holds
    <3>3. Restorable(a, activation'[a])
      BY <2>1 DEF Kept
    <3> QED
      BY <1>45, <1>7, <2>1, <2>2, <3>1, <3>2, <3>3 DEF Finished
  <2>4. CASE ReadBackup(t)
    <3>1. \A s : Keeps(Turned(t, "snapshot", task[t].now, task[t].applied, task[t].rollback, s))
      BY <1>6, <2>1
    <3>2. \A s : Keeps(Turned(t, "reset", task[t].now, task[t].applied, task[t].rollback, s))
      BY <1>6, <2>1
    <3> QED
      BY <1>1, <1>44, <2>3, <2>4, <3>1, <3>2, BackupRead
  <2>5. CASE Snapshot(t)
    <3>1. \A s : Keeps(Turned(t, "set", task[t].now, task[t].applied, task[t].rollback, s))
      BY <1>6, <2>1
    <3> QED
      BY <1>1, <1>44, <2>5, <3>1, SnapshotTaken
  <2>6. CASE SetPac(t)
    <3>1. Keeps(To(t, "save"))
      BY <1>6, <2>1 DEF To
    <3> QED
      BY <1>1, <1>45, <2>6, <3>1, PacSet
  <2>7. CASE SaveBackup(t) \/ DropBackup(t)
    BY <1>1, <2>3, <2>7, BackupStored
  <2>8. CASE ResetPac(t)
    <3>1. Keeps(To(t, "drop"))
      BY <1>6, <2>1 DEF To
    <3> QED
      BY <1>1, <1>45, <2>8, <3>1, PacReset
  <2>9. CASE PromptDismissed(t)
    <3>1. Keeps(To(t, "undo")) /\ Keeps(Idle)
      BY <1>5, <1>6, <2>1 DEF To
    <3> QED
      BY <1>1, <1>45, <1>46, <2>9, <3>1, PromptGone DEF GivenUp
  <2> QED
    BY <1>18, <2>4, <2>5, <2>6, <2>7, <2>8, <2>9 DEF PacStep
<1>19. CASE FileFails(t)
  <2>1. activation' = activation /\ config' = config /\ Becomes(t, Idle)
        /\ task[t].at \in {"write", "rollback", "undo_config"}
    BY <1>1, <1>19, FileFailed DEF FileFails
  <2>2. task[t].at # "undo_config"
    BY <1>2, <1>19 DEF FileFails, Half, At, Parts
  <2> QED
    BY <1>5, <1>46, <2>1, <2>2
<1>20. CASE DatabaseFails(t)
  <2>1. /\ activation' = activation /\ config' = config /\ Half(t) \subseteq parted'
        /\ task[t].at \notin {"idle", "rollback", "undo_config"}
    BY <1>20 DEF DatabaseFails
  <2>2. CASE task[t].at = "undo" /\ Becomes(t, To(t, "undo_config"))
    <3>1. Keeps(To(t, "undo_config"))
      BY <1>6, <2>1, <2>2 DEF To
    <3> QED
      BY <1>45, <2>2, <3>1
  <2>3. CASE GivenUp(t) /\ task[t].applied
    <3>1. task[t].at \notin {"current", "store", "push"}
      BY <1>1, <2>3 DEF AgentTask
    <3>2. Keeps(To(t, "undo"))
      BY <1>6, <2>1, <3>1 DEF To
    <3> QED
      BY <1>45, <2>3, <3>2 DEF GivenUp
  <2>4. CASE task[t].at = "store" /\ Becomes(t, Idle)
    <3>1. ~WritesConfig(a, task[t].mode)
      BY <1>2, <2>1, <2>4 DEF Half, At, Parts
    <3>2. config[a].value \in User
      BY <2>4, <3>1 DEF Kept, Holds, HeldBack
    <3>3. Keeps(Idle)
      BY <2>1, <3>2 DEF Keeps, Kept, Holds, Stable, Idle
    <3> QED
      BY <1>46, <2>4, <3>3
  <2>5. CASE task[t].at # "store" /\ Becomes(t, Idle)
    BY <1>5, <1>46, <2>1, <2>5
  <2> QED
    BY <1>1, <1>20, <2>2, <2>3, <2>4, <2>5, DatabaseFailed DEF GivenUp
<1> QED
  BY <1>8, <1>9, <1>10, <1>11, <1>12, <1>13, <1>14, <1>15, <1>16, <1>17, <1>18, <1>19, <1>20
  DEF Step, PacStep

\* While a step of a task is taken the others are idle, and stay so.
LEMMA StepRuns ==
    ASSUME TypeInv, Alone, OneByOne, NEW t \in Tasks, Step(t)
    PROVE  /\ task[t].at # "idle"
           /\ \A s \in Tasks : s # t => task[s].at = "idle" /\ task'[s].at = "idle"
<1>1. task[t].at # "idle" /\ \E r : Becomes(t, r)
  BY StepBecomes
<1> QED
  BY <1>1, OthersIdle DEF Becomes

LEMMA FilesStay == ASSUME TypeInv, Alone, FilesInv, [Next]_vars PROVE FilesInv'
<1>1. SUFFICES ASSUME Recorded', NEW a \in Agents PROVE Files(a)'
  BY DEF FilesInv
<1>2. /\ OneByOne /\ Digest /\ "unrecorded" \notin parted'
      /\ \A c \in Agents : Files(c)
  BY <1>1, NextDigest, RecordedBefore DEF FilesInv, Recorded
<1>3. /\ activation \in [Agents -> Row]
      /\ config \in [Agents -> [value : Value, marked : BOOLEAN]]
      /\ "pac" \notin Commands /\ "reconcile" \notin Commands
      /\ "pac" \in Tasks /\ "reconcile" \in Tasks /\ Commands \subseteq Tasks
  BY ScenarioAssumption DEF TypeInv, TypeOK, StateOK, Tasks
<1>4. \A t \in Commands : AgentTask(task[t]) /\ AgentTask(task'[t])
  BY <1>2 DEF Digest, TypeInv, TasksOK
<1> DEFINE Left == Kept(a, activation'[a], config'[a], Idle)
           NoneWorks == \A t \in Commands : task[t].at = "idle" \/ task[t].agent # a
           NoneWill == \A t \in Commands : task'[t].at = "idle" \/ task'[t].agent # a
           Same == activation'[a] = activation[a] /\ config'[a] = config[a]
<1>6. ASSUME Left, NoneWill PROVE Files(a)'
  BY <1>6 DEF Files, Works
<1>7. ASSUME NoneWorks, Same PROVE Left
  BY <1>2, <1>7 DEF Files, Works
\* A command that begins.
<1>8. ASSUME NEW t \in Commands, Free(t), NEW c \in Agents, NEW step \in {"current", "write"},
             NEW m, NEW before, Becomes(t, Begun(c, step, m, before)),
             m # None => before = activation[c], step = "write" => ~activation[c].enabled,
             activation' = activation, config' = config
      PROVE  Files(a)'
  <2>1. \A s \in Tasks : task[s].at = "idle"
    BY <1>2, <1>8 DEF Free
  <2>2. NoneWorks /\ Same /\ Left
    BY <1>3, <1>7, <1>8, <2>1
  <2>3. \A s \in Tasks : s # t => task'[s] = task[s]
    BY <1>8 DEF Becomes
  <2>5. task'[t] = Begun(c, step, m, before) /\ task'[t].agent = c
    BY <1>8 DEF Becomes, Begun, Start
  <2>6. CASE c # a
    <3>1. NoneWill
      BY <1>3, <2>1, <2>3, <2>5, <2>6
    <3> QED
      BY <1>6, <2>2, <3>1
  <2>7. CASE c = a
    <3>1. Restorable(a, activation'[a]) /\ Stable(a, activation'[a], config'[a])
      BY <2>2 DEF Kept, Holds, Idle
    <3>2. step = "write" => config'[a].value \in User
      BY <1>8, <2>7, <3>1 DEF Stable
    <3>3. Kept(a, activation'[a], config'[a], task'[t])
      BY <1>8, <2>2, <2>5, <2>7, <3>1, <3>2 DEF Kept, Holds, Begun, Start, Idle
    <3>4. \A s \in Commands : s # t => task'[s].at = "idle"
      BY <1>3, <2>1, <2>3
    <3>5. task'[t].at # "idle"
      BY <1>8, <2>5 DEF Begun, Start
    <3> QED
      BY <2>5, <2>7, <3>3, <3>4, <3>5 DEF Files, Works
  <2> QED
    BY <2>6, <2>7
\* A step that is not a command's: no command is under way.
<1>9. ASSUME NEW t \in Tasks, t \notin Commands, task[t].at # "idle" \/ Free(t), NEW r, Becomes(t, r)
      PROVE  NoneWorks /\ NoneWill
  <2>1. \A s \in Tasks : s # t => task[s].at = "idle" /\ task'[s] = task[s]
    BY <1>2, <1>9, OthersIdle DEF Free, Becomes
  <2> QED
    BY <1>3, <1>9, <2>1
<1>10. ASSUME NEW t \in Commands, NEW c \in Agents, Disable(t, c) PROVE Files(a)'
  <2>1. /\ activation' = activation /\ config' = config /\ Free(t)
        /\ Becomes(t, Begun(c, "current", None, None))
    BY <1>10, Disabling DEF Disable, Begin
  <2> QED
    BY <1>8, <2>1
<1>11. ASSUME NEW t \in Commands, NEW c \in Agents, NEW m \in Modes, Enable(t, c, m)
       PROVE  Files(a)'
  <2>1. activation' = activation /\ config' = config /\ Free(t)
    BY <1>11, Enabling DEF Enable, Begin
  <2> DEFINE step == IF activation[c].enabled THEN "current" ELSE "write"
  <2>2. Becomes(t, Begun(c, step, m, activation[c]))
    BY <1>11, Enabling
  <2>3. step \in {"current", "write"} /\ (step = "write" => ~activation[c].enabled)
    OBVIOUS
  <2> HIDE DEF step
  <2> QED
    BY <1>8, <2>1, <2>2, <2>3
<1>12. ASSUME PacReapply \/ PacRestore PROVE Files(a)'
  <2>1. PICK step \in {"apply", "restore"} : Becomes("pac", To("pac", step))
    BY <1>12, ButtonPressed
  <2>2. activation' = activation /\ config' = config /\ Free("pac")
    BY <1>12, ButtonPressed DEF PacReapply, PacRestore
  <2>3. NoneWorks /\ NoneWill
    BY <1>3, <1>9, <2>1, <2>2
  <2> QED
    BY <1>6, <1>7, <2>2, <2>3
<1>13. ASSUME NEW t \in Tasks, Step(t), t \notin Commands PROVE Files(a)'
  <2>1. task[t].at # "idle" /\ \E r : Becomes(t, r)
    BY <1>13, StepBecomes
  <2>2. NoneWorks /\ NoneWill
    BY <1>9, <1>13, <2>1
  <2>3. activation' = activation /\ config' = config
    BY <1>13, PacStepsApart
  <2> QED
    BY <1>6, <1>7, <2>2, <2>3
<1>14. ASSUME NEW t \in Commands, Step(t) PROVE Files(a)'
  <2>1. /\ t \in Tasks /\ task[t].at # "idle" /\ task[t].agent \in Agents
        /\ \A s \in Tasks : s # t => task[s].at = "idle" /\ task'[s].at = "idle"
    BY <1>2, <1>3, <1>4, <1>14, StepRuns DEF AgentTask
  <2>3. CASE task[t].agent # a
    <3>1. NoneWorks /\ NoneWill
      <4>1. PICK r : Becomes(t, r) /\ Runs(t, r)
        BY <1>14, <2>1, StepBecomes
      <4>2. task'[t].at = "idle" \/ task'[t].agent = task[t].agent
        BY <4>1 DEF Becomes, Runs
      <4> QED
        BY <1>3, <2>1, <2>3, <4>2
    <3>2. Same
      BY <1>14, <2>1, <2>3, Elsewhere
    <3> QED
      BY <1>6, <1>7, <3>1, <3>2
  <2>4. CASE task[t].agent = a
    <3>1. Kept(a, activation[a], config[a], task[t])
      BY <1>2, <2>1, <2>4 DEF Files, Works
    <3>2. PICK r : Becomes(t, r) /\ Runs(t, r) /\ Kept(a, activation'[a], config'[a], r)
      BY <1>1, <1>14, <2>4, <3>1, KeptStep
    <3>3. task'[t] = r
      BY <3>2 DEF Becomes
    <3>4. CASE r.at = "idle"
      <4>1. Left
        BY <3>2, <3>4, KeptEnded
      <4>2. NoneWill
        BY <1>3, <2>1, <3>3, <3>4
      <4> QED
        BY <1>6, <4>1, <4>2
    <3>5. CASE r.at # "idle"
      <4>1. task'[t].agent = a /\ task'[t].at # "idle"
        BY <2>4, <3>2, <3>3, <3>5 DEF Runs
      <4>2. \A s \in Commands : s # t => task'[s].at = "idle"
        BY <1>3, <2>1
      <4> QED
        BY <3>2, <3>3, <4>1, <4>2 DEF Files, Works
    <3> QED
      BY <3>4, <3>5
  <2> QED
    BY <2>3, <2>4
<1>15. ASSUME NEW c \in Agents, Reconcile(c) PROVE Files(a)'
  <2>1. PICK r : Becomes("reconcile", r) /\ r.at = "detect"
    BY <1>15, Reconciles
  <2>2. NoneWorks /\ NoneWill
    BY <1>3, <1>9, <1>15, <2>1, Reconciles
  <2>3. Same
    BY <1>15 DEF Reconcile
  <2> QED
    BY <1>6, <1>7, <2>2, <2>3
<1>16. ASSUME Detect PROVE Files(a)'
  <2>1. Same /\ task["reconcile"].at # "idle" /\ \E r : Becomes("reconcile", r)
    BY <1>16, Detects DEF Detect, At
  <2>2. NoneWorks /\ NoneWill
    BY <1>3, <1>9, <2>1
  <2> QED
    BY <1>6, <1>7, <2>1, <2>2
<1>17. ASSUME MarkOff PROVE Files(a)'
  <2>1. /\ Becomes("reconcile", Idle) /\ config' = config /\ task["reconcile"].at = "mark"
        /\ task["reconcile"].agent \in Agents
    BY <1>17, MarksOff DEF MarkOff, At
  <2>2. NoneWorks /\ NoneWill /\ task'["reconcile"].at = "idle"
    BY <1>3, <1>9, <2>1 DEF Becomes, Idle
  <2>3. CASE task["reconcile"].agent = a
    <3>1. activation'[a] = Off(task["reconcile"].now.mode) /\ config[a].value \in User
      <4>1. activation'[a] = Off(task["reconcile"].now.mode) /\ config[a].value # Ours
        BY <1>2, <1>3, <1>17, <2>3 DEF MarkOff
      <4> QED
        BY <1>3, <4>1 DEF Value
    <3>2. Restorable(a, activation'[a]) /\ Stable(a, activation'[a], config'[a])
      BY <2>1, <3>1, NoneAssumption DEF Off, Restorable, Stable, Ours
    <3>3. Left
      BY <2>1, <3>1, <3>2 DEF Kept, Holds, Idle
    <3> QED
      BY <1>6, <2>2, <3>3
  <2>4. CASE task["reconcile"].agent # a
    <3>1. Same
      BY <1>3, <1>17, <2>1, <2>4 DEF MarkOff
    <3> QED
      BY <1>6, <1>7, <2>2, <3>1
  <2> QED
    BY <2>3, <2>4
<1>18. ASSUME NEW c \in Agents, Edit(c) \/ Unmark(c) PROVE Files(a)'
  <2>1. activation' = activation /\ task' = task
    BY <1>18 DEF Edit, Unmark
  <2>2. config'[a].value = config[a].value \/ config'[a].value \in User
    <3>1. CASE c # a
      BY <1>3, <1>18, <3>1 DEF Edit, Unmark
    <3>2. CASE c = a /\ Edit(c)
      BY <1>3, <3>2 DEF Edit, User
    <3>3. CASE c = a /\ Unmark(c)
      BY <1>3, <3>3 DEF Unmark
    <3> QED
      BY <1>18, <3>1, <3>2, <3>3
  <2>3. \A r : Kept(a, activation[a], config[a], r) => Kept(a, activation'[a], config'[a], r)
    BY <2>1, <2>2 DEF Kept, Stable, HeldBack
  <2> QED
    BY <1>2, <2>1, <2>3 DEF Files, Works
\* When the application dies, a command that holds the user's values leaves them unrecorded.
<1>20. ASSUME Crash PROVE Files(a)'
  <2>1. /\ Same /\ \A t \in Tasks : task'[t].at = "idle" /\ Half(t) \subseteq parted'
    BY <1>20 DEF Crash, Idle
  <2>2. NoneWill
    BY <1>3, <2>1
  <2>3. ASSUME NEW t \in Commands, Works(t, a) PROVE Left
    <3>1. Kept(a, activation[a], config[a], task[t]) /\ "unrecorded" \notin Half(t)
      BY <1>2, <1>3, <2>1, <2>3 DEF Files
    <3>2. ASSUME task[t].at = "store" PROVE Stable(a, activation[a], config[a])
      <4>1. ~WritesConfig(a, task[t].mode)
        BY <2>3, <3>1, <3>2 DEF Half, At, Parts, Works
      <4> QED
        BY <3>1, <3>2, <4>1 DEF Kept, Holds, HeldBack, Stable
    <3>3. ASSUME task[t].at = "undo_config" PROVE Stable(a, activation[a], config[a])
      <4>1. a # "Claude" /\ task[t].applied /\ task[t].mode = "SystemProxy"
        BY <1>4, <2>3, <3>1, <3>3 DEF Half, At, Parts, Works, AgentTask
      <4> QED
        BY <3>1, <3>3, <4>1 DEF Kept, Holds, HeldBack, Stable, WritesConfig
    <3>4. Stable(a, activation[a], config[a])
      BY <3>1, <3>2, <3>3 DEF Kept
    <3>5. Restorable(a, activation[a])
      BY <3>1 DEF Kept
    <3> QED
      BY <2>1, <3>4, <3>5 DEF Kept, Holds, Idle
  <2> QED
    BY <1>6, <1>7, <2>1, <2>2, <2>3 DEF Works
<1>19. ASSUME UNCHANGED vars PROVE Files(a)'
  BY <1>2, <1>19 DEF vars, Files, Works
<1> QED
  BY <1>10, <1>11, <1>12, <1>13, <1>14, <1>15, <1>16, <1>17, <1>18, <1>19, <1>20
  DEF Next, Command, SelfCheck

LEMMA FilesAlways == Spec => [](TypeInv /\ FilesInv)
<1>1. Init => TypeInv /\ Alone /\ FilesInv
  <2>1. ASSUME Init PROVE Alone
    BY <2>1 DEF Init, Alone, At, Idle
  <2>2. ASSUME Init, NEW a \in Agents PROVE Files(a)
    <3>1. /\ activation[a] = Off(None) /\ config[a].value \in User
          /\ \A t \in Commands : task[t].at = "idle"
      BY <2>2 DEF Init, Tasks, User, Idle
    <3>2. Restorable(a, Off(None))
      BY NoneAssumption DEF Restorable, Off, Ours
    <3>3. Kept(a, activation[a], config[a], Idle)
      BY <3>1, <3>2 DEF Kept, Holds, Stable, Idle
    <3> QED
      BY <3>1, <3>3 DEF Files, Works
  <2> QED
    BY <2>1, <2>2, TypeInit DEF FilesInv
<1>2. TypeInv /\ Alone /\ FilesInv /\ [Next]_vars => (TypeInv /\ Alone /\ FilesInv)'
  BY AloneStays, FilesStay, NextDigest DEF Digest
<1> QED
  BY <1>1, <1>2, PTL DEF Spec

\* Commands one at a time: what is recorded for the rollback is the user's value, never ours,
\* whatever prompts are dismissed, whatever is edited, whatever fails and whenever the application
\* dies, unless that comes between the writing of our values and the storing of the user's, or
\* between the undoing of the row and of the file, or the self-check takes an agent for off whose
\* mark alone has gone (ConfigRollback.previous).
THEOREM RollbackIsTheUsers == Spec => []RollbackKept
<1>1. FilesInv => RollbackKept
  <2> SUFFICES ASSUME FilesInv, Recorded, NEW a \in Agents PROVE activation[a].rollback # Ours
    BY DEF RollbackKept, RollbackIsOriginal, Recorded
  <2>1. Files(a)
    BY DEF FilesInv
  <2>2. PICK r : Kept(a, activation[a], config[a], r)
    BY <2>1 DEF Files
  <2> QED
    BY <2>2 DEF Kept, Restorable
<1> QED
  BY <1>1, FilesAlways, PTL

\* Commands one at a time, under the same condition: when none runs, an agent shown as off has
\* the user's values in its file (disable, claude_disable and codex_disable, and the undoing of
\* enable).
THEOREM UserConfigSurvives == Spec => []UserConfigKept
<1>1. TypeInv /\ FilesInv => UserConfigKept
  <2> SUFFICES ASSUME FilesInv, Recorded, Quiet, NEW a \in Agents, ~activation[a].enabled
               PROVE  config[a].value \in User
    BY DEF UserConfigKept, RolledBack, Recorded
  <2>1. Kept(a, activation[a], config[a], Idle)
    BY DEF FilesInv, Files, Works, Quiet, At, Tasks
  <2>2. Stable(a, activation[a], config[a])
    BY <2>1 DEF Kept, Holds, Idle
  <2> QED
    BY <2>2 DEF Stable
<1> QED
  BY <1>1, FilesAlways, PTL
-----------------------------------------------------------------------------
LEMMA SmoothBefore == ASSUME TypeInv, Digest, Smooth' PROVE Smooth
<1>1. {"button", "prompt", "database", "crash"} \in SUBSET Events
  BY DEF Events
<1> QED
  BY <1>1, NeverBefore DEF Smooth, OneByOne, Digest

LEMMA NotSmooth ==
    ASSUME TypeInv, \/ PacReapply \/ PacRestore \/ Crash
                    \/ \E t \in Tasks : PromptDismissed(t) \/ DatabaseFails(t)
    PROVE  ~Smooth'
<1>1. {"button", "prompt", "database", "crash"} \in SUBSET Events
  BY DEF Events
<1>2. \E e \in {"button", "prompt", "database", "crash"} : Use(e)
  BY DEF PacReapply, PacRestore, Crash, PromptDismissed, DatabaseFails
<1> QED
  BY <1>1, <1>2, NotUsed DEF Smooth

\* Whether an agent needs our PAC, when the row of one agent changes.
Needs(row) == row.enabled /\ row.mode = "SystemProxy"

LEMMA NeededNow ==
    ASSUME TypeInv, NEW a \in Agents, NEW row, activation' = [activation EXCEPT ![a] = row]
    PROVE  /\ activation'[a] = row
           /\ Needs(row) => PacNeeded'
           /\ (Needs(activation[a]) <=> Needs(row)) => (PacNeeded' <=> PacNeeded)
<1>1. /\ activation'[a] = row
      /\ \A c \in Agents \ {a} : activation'[c] = activation[c]
  BY DEF TypeInv, TypeOK, StateOK
<1> QED
  BY <1>1 DEF PacNeeded, Needs

\* A step of the command t on its agent: what UseInv says of the record of t, and of the PAC.
Uses(a, r) ==
    /\ r.at # "idle" => Using(activation'[a], r, PacNeeded', pac' = Ours)
    /\ r.at \in Undecided \/ Settled'

LEMMA UseStep ==
    ASSUME TypeInv, Original, NEW t \in Commands, NEW a \in Agents, a = task[t].agent, Step(t),
           Smooth', \A s \in Tasks : s # t => task[s].at = "idle",
           Using(activation[a], task[t], PacNeeded, pac = Ours),
           task[t].at \notin Undecided => Settled
    PROVE  \E r : Becomes(t, r) /\ Runs(t, r) /\ Uses(a, r)
<1>1. t \in Tasks /\ task[t] \in Task /\ AgentTask(task[t]) /\ task[t].at # "idle"
  BY TaskIs, StepBecomes DEF Tasks
<1> DEFINE Goal == \E r : Becomes(t, r) /\ Runs(t, r) /\ Uses(a, r)
<1> SUFFICES Goal
  OBVIOUS
<1>2. \A step, n, p, v, s :
           LET r == Turned(t, step, n, p, v, s) IN Becomes(t, r) /\ Uses(a, r) => Goal
  BY <1>1, Running
<1>3. \A step : Becomes(t, To(t, step)) /\ Uses(a, To(t, step)) => Goal
  BY <1>1, Running
<1>4. Becomes(t, Idle) /\ Uses(a, Idle) => Goal
  BY <1>1, Running
<1> HIDE DEF Goal
<1>5. activation' = activation => (PacNeeded' <=> PacNeeded) /\ activation'[a] = activation[a]
  BY DEF PacNeeded
<1>6. Settled' => Uses(a, Idle)
  BY DEF Uses, Idle
\* The command ends, or goes on to enable its agent, with the PAC as it should be.
<1>7. ASSUME Settled', ~activation'[a].enabled, ~task[t].applied, Continues(t) PROVE Goal
  <2>1. Uses(a, To(t, "write"))
    BY <1>7 DEF Uses, Using, To, Turned
  <2> QED
    BY <1>3, <1>4, <1>6, <1>7, <2>1 DEF Continues
<1>8. CASE ReadCurrent(t)
  <2>1. /\ activation' = activation /\ pac' = pac /\ task[t].at = "current"
        /\ ~task[t].applied
    BY <1>1, <1>8 DEF ReadCurrent, At, AgentTask
  <2>2. Settled'
    BY <1>5, <2>1 DEF Settled, Undecided, PacSteps
  <2>3. activation[a].enabled => Uses(a, Turned(t, "rollback", activation[a], task[t].applied,
                                                task[t].rollback, task[t].saved))
    BY <1>5, <2>1, <2>2 DEF Uses, Using, Turned
  <2> QED
    BY <1>1, <1>2, <1>5, <1>7, <1>8, <2>1, <2>2, <2>3, CurrentRead
<1>9. CASE RollBackConfig(t)
  <2>1. /\ activation' = activation /\ pac' = pac /\ task[t].at = "rollback"
        /\ ~task[t].applied /\ Becomes(t, To(t, "off"))
    BY <1>1, <1>9, ConfigRolledBack DEF RollBackConfig, At, AgentTask
  <2>2. Settled'
    BY <1>5, <2>1 DEF Settled, Undecided, PacSteps
  <2>3. Uses(a, To(t, "off"))
    BY <1>5, <2>1, <2>2 DEF Uses, Using, To, Turned
  <2> QED
    BY <1>3, <2>1, <2>3
<1>10. CASE StoreOff(t)
  <2> DEFINE off == Off(task[t].now.mode)
  <2>1. /\ activation' = [activation EXCEPT ![a] = off] /\ pac' = pac
        /\ task[t].at = "off" /\ ~task[t].applied
    BY <1>1, <1>10, OffStored DEF StoreOff, At, AgentTask
  <2> HIDE DEF off
  <2>2. Settled /\ task[t].now = activation[a] /\ activation[a].enabled
    BY <2>1 DEF Undecided, PacSteps, Using
  <2>0. ~off.enabled
    BY DEF off, Off
  <2>3. ~activation'[a].enabled
    BY <2>0, <2>1, NeededNow
  <2>4. CASE task[t].now.mode = "SystemProxy" /\ Becomes(t, To(t, "others"))
    <3>1. pac' = Ours
      BY <2>1, <2>2, <2>4 DEF Settled, PacNeeded
    <3>2. Uses(a, To(t, "others"))
      BY <2>1, <2>3, <3>1 DEF Uses, Using, To, Turned, Undecided
    <3> QED
      BY <1>3, <2>4, <3>2
  <2>5. CASE task[t].now.mode # "SystemProxy" /\ Continues(t)
    <3>1. ~Needs(activation[a]) /\ ~Needs(off)
      BY <2>0, <2>2, <2>5 DEF Needs
    <3>3. PacNeeded' <=> PacNeeded
      BY <2>1, <3>1, NeededNow
    <3>2. Settled'
      BY <2>1, <2>2, <3>3 DEF Settled
    <3> QED
      BY <1>7, <2>1, <2>3, <2>5, <3>2
  <2> QED
    BY <1>1, <1>10, <2>4, <2>5, OffStored
<1>11. CASE CheckOthers(t)
  <2>1. activation' = activation /\ pac' = pac /\ task[t].at = "others" /\ ~task[t].applied
    BY <1>1, <1>11 DEF CheckOthers, At, AgentTask
  <2>2. PacNeeded => Uses(a, To(t, "apply"))
    BY <1>5, <2>1 DEF Uses, Using, To, Turned, Undecided, PacSteps
  <2>3. ~PacNeeded => Uses(a, To(t, "restore"))
    BY <1>5, <2>1 DEF Uses, Using, To, Turned, Undecided, PacSteps
  <2> QED
    BY <1>1, <1>3, <1>11, <2>2, <2>3, OthersChecked
<1>12. CASE Untrusted(t)
  <2>1. activation' = activation /\ pac' = pac /\ task[t].at = "write" /\ Becomes(t, Idle)
    BY <1>1, <1>12, GivesUp DEF Untrusted, At
  <2>2. Settled'
    BY <1>5, <2>1 DEF Settled, Undecided, PacSteps
  <2> QED
    BY <1>4, <1>6, <2>1, <2>2
<1>13. CASE WriteConfig(t)
  <2>1. activation' = activation /\ pac' = pac /\ task[t].at = "write" /\ ~task[t].applied
    BY <1>1, <1>13 DEF WriteConfig, At, AgentTask
  <2>2. Settled' /\ ~activation'[a].enabled
    BY <1>5, <2>1 DEF Settled, Undecided, PacSteps, Using
  <2>3. \A v : Uses(a, Turned(t, "store", task[t].now, task[t].applied, v, task[t].saved))
    BY <2>1, <2>2 DEF Uses, Using, Turned
  <2> QED
    BY <1>1, <1>2, <1>13, <2>3, ConfigWritten DEF To
<1>14. CASE StoreOn(t)
  <2>1. activation' = [activation EXCEPT ![a] = On(t)]
    BY <1>1, <1>14, OnStored, Zenon
  <2>2. pac' = pac /\ activation'[a] = On(t)
    BY <1>14, <2>1, NeededNow DEF StoreOn
  <2>3. CASE task[t].mode = "SystemProxy"
    <3>1. Needs(On(t))
      BY <2>3 DEF Needs, On
    <3>2. PacNeeded' /\ activation'[a].enabled /\ activation'[a].mode = "SystemProxy"
      BY <2>1, <2>2, <3>1, NeededNow DEF Needs
    <3>3. Uses(a, To(t, "push"))
      BY <3>2 DEF Uses, Using, To, Turned, Undecided
    <3>4. task[t].at = "finish" => Settled'
      BY <2>2, <3>2 DEF Settled, Using
    <3> QED
      BY <1>1, <1>3, <1>4, <1>6, <1>14, <2>3, <3>3, <3>4, OnStored
  <2>4. CASE task[t].mode # "SystemProxy"
    <3>1. task[t].at = "store" /\ Becomes(t, Idle) /\ ~task[t].applied
      BY <1>1, <1>14, <2>4, OnStored DEF AgentTask
    <3>2. ~Needs(activation[a]) /\ ~Needs(On(t)) /\ Settled
      BY <2>4, <3>1 DEF Using, Needs, On, Undecided, PacSteps
    <3>3. Settled'
      BY <2>1, <2>2, <3>2, NeededNow DEF Settled
    <3> QED
      BY <1>4, <1>6, <3>1, <3>3
  <2> QED
    BY <2>3, <2>4
<1>15. CASE PushConfig(t)
  <2>1. activation' = activation /\ pac' = pac /\ task[t].at = "push"
    BY <1>15 DEF PushConfig, At
  <2>2. Uses(a, Turned(t, "apply", task[t].now, TRUE, task[t].rollback, task[t].saved))
    BY <1>5, <2>1 DEF Uses, Using, Turned, Undecided, PacSteps
  <2> QED
    BY <1>1, <1>2, <1>15, <2>2, Pushed
<1>16. ~UndoStore(t) /\ ~UndoConfig(t)
  BY DEF UndoStore, UndoConfig, At, Using
<1>17. ~PromptDismissed(t) /\ ~DatabaseFails(t)
  BY <1>1, NotSmooth
<1>18. CASE FileFails(t)
  <2>1. /\ activation' = activation /\ pac' = pac /\ task[t].at \in {"write", "rollback"}
        /\ Becomes(t, Idle)
    BY <1>1, <1>18, FileFailed DEF FileFails, At, Using
  <2>2. Settled'
    BY <1>5, <2>1 DEF Settled, Undecided, PacSteps
  <2> QED
    BY <1>4, <1>6, <2>1, <2>2
<1>19. CASE ReadBackup(t)
  <2>1. activation' = activation /\ pac' = pac
    BY <1>19 DEF ReadBackup
  <2>2. CASE task[t].at = "restore" /\ backup = None /\ Finished(t)
    <3>1. \A s \in Tasks : task[s].at # "save"
      BY <2>2
    <3>2. ~task[t].applied /\ ~activation[a].enabled /\ ~PacNeeded
      BY <1>1, <2>2 DEF AgentTask, Using
    <3>3. Settled' /\ ~activation'[a].enabled
      BY <1>5, <2>1, <2>2, <3>1, <3>2 DEF Settled, Original
    <3> QED
      BY <1>7, <2>2, <3>2, <3>3 DEF Finished
  <2>3. ASSUME task[t].at = "apply"
        PROVE  Uses(a, Turned(t, "snapshot", task[t].now, task[t].applied, task[t].rollback, backup))
    BY <1>5, <2>1, <2>3 DEF Uses, Using, Turned, Undecided, PacSteps
  <2>4. ASSUME task[t].at = "restore"
        PROVE  Uses(a, Turned(t, "reset", task[t].now, task[t].applied, task[t].rollback, backup))
    BY <1>5, <2>1, <2>4 DEF Uses, Using, Turned, Undecided, PacSteps
  <2> QED
    BY <1>1, <1>2, <1>19, <2>2, <2>3, <2>4, BackupRead
<1>20. CASE Snapshot(t)
  <2>1. activation' = activation /\ pac' = pac /\ task[t].at = "snapshot"
    BY <1>20 DEF Snapshot, At
  <2>2. \A s : Uses(a, Turned(t, "set", task[t].now, task[t].applied, task[t].rollback, s))
    BY <1>5, <2>1 DEF Uses, Using, Turned, Undecided, PacSteps
  <2> QED
    BY <1>1, <1>2, <1>20, <2>2, SnapshotTaken
<1>21. CASE SetPac(t)
  <2>1. activation' = activation /\ pac' = Ours /\ task[t].at = "set"
    BY <1>21 DEF SetPac, At
  <2>2. Uses(a, To(t, "save"))
    BY <1>5, <2>1 DEF Uses, Using, To, Turned, Undecided, PacSteps
  <2> QED
    BY <1>1, <1>3, <1>21, <2>2, PacSet
<1>22. CASE SaveBackup(t) \/ DropBackup(t)
  <2>1. /\ activation' = activation /\ pac' = pac /\ task[t].at \in {"save", "drop"}
        /\ Finished(t)
    BY <1>1, <1>22, BackupStored DEF SaveBackup, DropBackup, At
  <2>2. Settled'
    BY <1>5, <2>1 DEF Settled, Using
  <2>3. task[t].applied => Uses(a, To(t, "finish"))
    BY <1>1, <1>5, <2>1 DEF Uses, Using, To, Turned, Undecided, AgentTask
  <2>4. ~task[t].applied => ~activation'[a].enabled
    BY <1>5, <2>1 DEF Using
  <2> QED
    BY <1>3, <1>7, <2>1, <2>2, <2>3, <2>4 DEF Finished
<1>23. CASE ResetPac(t)
  <2>1. activation' = activation /\ pac' = task[t].saved /\ task[t].at = "reset"
    BY <1>23 DEF ResetPac, At
  <2>2. pac' # Ours /\ ~PacNeeded /\ ~task[t].applied
    BY <1>1, <2>1 DEF Original, Using, AgentTask
  <2>3. Uses(a, To(t, "drop"))
    BY <1>5, <2>1, <2>2 DEF Uses, Using, To, Turned, Undecided, PacSteps
  <2> QED
    BY <1>1, <1>3, <1>23, <2>3, PacReset
<1> QED
  BY <1>8, <1>9, <1>10, <1>11, <1>12, <1>13, <1>14, <1>15, <1>16, <1>17, <1>18, <1>19, <1>20,
     <1>21, <1>22, <1>23
  DEF Step

LEMMA UseStays == ASSUME TypeInv, Alone, PacInv, UseInv, [Next]_vars PROVE UseInv'
<1> DEFINE UsedBy(t) == ~At(t, "idle") =>
                Using(activation[task[t].agent], task[t], PacNeeded, pac = Ours)
           Decided == \A t \in Commands : task[t].at \notin Undecided
<1>1. SUFFICES ASSUME Smooth'
               PROVE  /\ At("pac", "idle")' /\ (Decided' => Settled')
                      /\ \A t \in Commands : UsedBy(t)'
                      /\ Checked'
  <2>1. ASSUME UseInv, Smooth' PROVE "unsaved" \notin parted'
    <3>1. Digest /\ Smooth
      BY <2>1, NextDigest, SmoothBefore
    <3>2. Never({"crash", "database"})'
      BY <2>1 DEF Smooth, Never
    <3> QED
      BY <2>1, <3>1, <3>2 DEF Digest, Parting, UseInv
  <2> QED
    BY <2>1 DEF UseInv
<1>2. /\ Smooth /\ OneByOne /\ Digest /\ TypeInv' /\ task["pac"].at = "idle" /\ Original
      /\ (Decided => Settled) /\ \A t \in Commands : UsedBy(t)
      /\ Checked
  BY <1>1, NextDigest, SmoothBefore DEF UseInv, Digest, At, Smooth, PacInv, Saved
<1>3. /\ activation \in [Agents -> Row]
      /\ "pac" \notin Commands /\ "reconcile" \notin Commands
      /\ "pac" \in Tasks /\ "reconcile" \in Tasks /\ Commands \subseteq Tasks
      /\ "idle" \notin Undecided /\ "idle" \notin CheckSteps
  BY ScenarioAssumption DEF TypeInv, TypeOK, StateOK, Tasks, Undecided, PacSteps, CheckSteps
<1>4. activation' = activation => (PacNeeded' <=> PacNeeded)
  BY DEF PacNeeded
<1> DEFINE Goal == /\ At("pac", "idle")' /\ (Decided' => Settled')
                   /\ \A t \in Commands : UsedBy(t)'
                   /\ Checked'
<1> SUFFICES Goal
  OBVIOUS
\* A command that begins, for an agent.
<1>5. ASSUME NEW t \in Commands, NEW a \in Agents, activation' = activation, pac' = pac, Free(t),
             NEW step \in {"current", "write"}, NEW mode, NEW before,
             Becomes(t, Begun(a, step, mode, before)),
             step = "write" => ~activation[a].enabled
      PROVE  Goal
  <2>1. \A s \in Tasks : task[s].at = "idle"
    BY <1>2, <1>5 DEF Free
  <2>2. \A s \in Tasks : s # t => task'[s].at = "idle"
    BY <1>5, <2>1 DEF Becomes
  <2>3. Settled'
    BY <1>2, <1>3, <1>4, <1>5, <2>1 DEF Settled
  <2>4. task'[t] = Begun(a, step, mode, before)
    BY <1>5 DEF Becomes
  <2>5. Using(activation'[task'[t].agent], task'[t], PacNeeded', pac' = Ours)
    BY <1>5, <2>4 DEF Begun, Start, Idle, Using
  <2>6. task'["pac"].at = "idle" /\ task'["reconcile"].at = "idle"
    BY <1>3, <2>2
  <2>7. \A s \in Commands : UsedBy(s)'
    BY <1>3, <2>2, <2>5 DEF At
  <2> QED
    BY <1>3, <2>3, <2>6, <2>7 DEF At, Checked
<1>6. ASSUME NEW t \in Commands, NEW a \in Agents, Disable(t, a) PROVE Goal
  <2>1. /\ activation' = activation /\ pac' = pac /\ Free(t)
        /\ Becomes(t, Begun(a, "current", None, None))
    BY <1>6, Disabling DEF Disable, Begin
  <2> HIDE DEF Goal
  <2> QED
    BY <1>5, <2>1
<1>7. ASSUME NEW t \in Commands, NEW a \in Agents, NEW m \in Modes, Enable(t, a, m) PROVE Goal
  <2> DEFINE step == IF activation[a].enabled THEN "current" ELSE "write"
  <2>1. /\ activation' = activation /\ pac' = pac /\ Free(t)
        /\ Becomes(t, Begun(a, step, m, activation[a]))
    BY <1>7, Enabling DEF Enable, Begin
  <2>2. step \in {"current", "write"} /\ (step = "write" => ~activation[a].enabled)
    OBVIOUS
  <2> HIDE DEF step, Goal
  <2> QED
    BY <1>5, <2>1, <2>2
<1>8. ~PacReapply /\ ~PacRestore /\ ~Crash
  BY <1>1, NotSmooth
<1>9. ASSUME NEW t \in Tasks, Step(t) PROVE Goal
  <2>1. /\ task[t].at # "idle" /\ t \in Commands
        /\ \A s \in Tasks : s # t => task[s].at = "idle" /\ task'[s].at = "idle"
    <3>1. /\ task[t].at # "idle"
          /\ \A s \in Tasks : s # t => task[s].at = "idle" /\ task'[s].at = "idle"
      BY <1>2, <1>9, StepRuns
    <3>2. t # "reconcile"
      <4>1. ~DatabaseFails(t)
        BY <1>1, NotSmooth
      <4>2. task[t].at \notin CheckSteps
        BY <1>9, <4>1 DEF CheckSteps, Step, ReadCurrent, RollBackConfig, StoreOff, CheckOthers,
            Untrusted, WriteConfig, StoreOn, PushConfig, UndoStore, UndoConfig, ReadBackup,
            Snapshot, SetPac, SaveBackup, ResetPac, DropBackup, PromptDismissed, FileFails, At
      <4> QED
        BY <3>1, <4>2, TaskIs DEF CheckTask
    <3> QED
      BY <1>2, <3>1, <3>2 DEF Tasks
  <2>2. task[t].agent \in Agents /\ UsedBy(t)
    BY <1>2, <2>1, TaskIs DEF Tasks, AgentTask
  <2>3. task[t].at \notin Undecided => Settled
    BY <1>2, <1>3, <2>1
  <2>4. PICK r : Becomes(t, r) /\ Runs(t, r) /\ Uses(task[t].agent, r)
    BY <1>1, <1>2, <1>9, <2>1, <2>2, <2>3, UseStep DEF At
  <2>5. task'[t] = r /\ (r.at # "idle" => task'[t].agent = task[t].agent)
    BY <2>4 DEF Becomes, Runs
  <2>6. UsedBy(t)' /\ (task'[t].at \in Undecided \/ Settled')
    BY <2>4, <2>5 DEF Uses, At
  <2>7. task'["pac"].at = "idle" /\ task'["reconcile"].at = "idle"
    BY <1>3, <2>1
  <2>8. \A s \in Commands : UsedBy(s)'
    BY <1>3, <2>1, <2>6 DEF At
  <2> QED
    BY <1>3, <2>1, <2>6, <2>7, <2>8 DEF At, Checked
\* The self-check, with every other task idle.
<1>10. ASSUME pac' = pac, PacNeeded' <=> PacNeeded, NEW r, Becomes("reconcile", r),
              \A s \in Tasks : s # "reconcile" => task[s].at = "idle",
              Checked'
       PROVE  Goal
  <2>1. \A s \in Tasks : s # "reconcile" => task'[s] = task[s] /\ task'[s].at = "idle"
    BY <1>10 DEF Becomes
  <2>2. Settled'
    BY <1>2, <1>3, <1>10 DEF Settled
  <2> QED
    BY <1>3, <1>10, <2>1, <2>2 DEF At
<1>11. ASSUME NEW c \in Agents, Reconcile(c) PROVE Goal
  <2>1. PICK r : Becomes("reconcile", r) /\ r.agent = c
    BY <1>11, Reconciles
  <2>2. activation' = activation /\ pac' = pac /\ activation[c].mode = "Config"
    BY <1>11 DEF Reconcile
  <2>3. task'["reconcile"].agent = c
    BY <2>1 DEF Becomes
  <2>4. Checked'
    BY <2>2, <2>3 DEF Checked
  <2>5. \A s \in Tasks : task[s].at = "idle"
    BY <1>2, <1>11, Reconciles DEF Free
  <2> HIDE DEF Goal
  <2> QED
    BY <1>4, <1>10, <2>1, <2>2, <2>4, <2>5
<1>12. ASSUME Detect PROVE Goal
  <2>1. activation' = activation /\ pac' = pac /\ task["reconcile"].at = "detect"
    BY <1>12 DEF Detect, At
  <2>2. \A s \in Tasks : s # "reconcile" => task[s].at = "idle"
    BY <1>2, <1>3, <2>1, OthersIdle
  <2>3. PICK r : /\ Becomes("reconcile", r)
                 /\ r = Idle \/ r.agent = task["reconcile"].agent
    BY <1>12, Detects DEF To, Turned
  <2>4. task'["reconcile"].at = "idle" \/ task'["reconcile"].agent = task["reconcile"].agent
    BY <2>3 DEF Becomes, Idle
  <2>5. Checked'
    BY <1>2, <1>3, <2>1, <2>4 DEF Checked, CheckSteps
  <2> HIDE DEF Goal
  <2> QED
    BY <1>4, <1>10, <2>1, <2>2, <2>3, <2>5
<1>13. ASSUME MarkOff PROVE Goal
  <2> DEFINE a == task["reconcile"].agent
             row == Off(task["reconcile"].now.mode)
  <2>1. /\ activation' = [activation EXCEPT ![a] = row] /\ pac' = pac
        /\ task["reconcile"].at = "mark" /\ a \in Agents /\ Becomes("reconcile", Idle)
    BY <1>13, MarksOff DEF MarkOff, At
  <2>2. \A s \in Tasks : s # "reconcile" => task[s].at = "idle"
    BY <1>2, <1>3, <2>1, OthersIdle
  <2>3. task'["reconcile"].at = "idle"
    BY <2>1 DEF Becomes, Idle
  <2>4. Checked'
    BY <1>3, <2>3 DEF Checked
  <2>5. ~Needs(activation[a]) /\ ~Needs(row)
    BY <1>2, <2>1 DEF Checked, CheckSteps, Needs, Off
  <2>6. PacNeeded' <=> PacNeeded
    <3> HIDE DEF a, row
    <3> QED
      BY <2>1, <2>5, NeededNow
  <2> HIDE DEF Goal, a, row
  <2> QED
    BY <1>10, <2>1, <2>2, <2>4, <2>6
<1>14. ASSUME activation' = activation, pac' = pac, task' = task PROVE Goal
  <2>1. PacNeeded' <=> PacNeeded
    BY <1>4, <1>14
  <2>2. ASSUME NEW t \in Commands PROVE UsedBy(t)'
    <3>1. UsedBy(t)
      BY <1>2
    <3> QED
      BY <1>14, <2>1, <3>1 DEF Using, At
  <2>3. (Decided' => Settled') /\ Checked' /\ At("pac", "idle")'
    BY <1>2, <1>14, <2>1 DEF Settled, Checked, At
  <2> HIDE DEF UsedBy, Decided
  <2> QED
    BY <2>2, <2>3
<1>15. ASSUME NEW c \in Agents, Edit(c) \/ Unmark(c) PROVE Goal
  <2> HIDE DEF Goal
  <2> QED
    BY <1>14, <1>15 DEF Edit, Unmark
<1>16. CASE UNCHANGED vars
  <2> HIDE DEF Goal
  <2> QED
    BY <1>14, <1>16 DEF vars
<1> HIDE DEF Goal
<1> QED
  BY <1>6, <1>7, <1>8, <1>9, <1>11, <1>12, <1>13, <1>15, <1>16 DEF Next, Command, SelfCheck

\* Commands one at a time, no button pressed, prompt dismissed, failing access to the database or
\* death of the application, whatever files cannot be written: when none runs, the system uses our
\* PAC exactly when an agent needs it (apply_system_pac, restore_system_pac, pac_hosts).
THEOREM PacIsInUse == Spec => []PacFollowsUse
<1>1. Init => TypeInv /\ Alone /\ PacInv /\ UseInv
  <2>1. ASSUME Init PROVE Alone /\ Original /\ UseInv
    <3>1. /\ \A t \in Tasks : task[t].at = "idle"
          /\ \A a \in Agents : ~activation[a].enabled
      BY <2>1 DEF Init, Idle, Off
    <3>2. /\ backup = None /\ pac = "user" /\ None # Ours /\ "user" # Ours
          /\ "unsaved" \notin parted
      BY <2>1, NoneAssumption DEF Init, Ours
    <3>3. Commands \subseteq Tasks /\ "pac" \in Tasks /\ "reconcile" \in Tasks
          /\ "idle" \notin CheckSteps
      BY DEF Tasks, CheckSteps
    <3> QED
      BY <3>1, <3>2, <3>3 DEF Alone, At, Original, UseInv, Settled, PacNeeded, Checked
  <2> QED
    BY <2>1, TypeInit DEF PacInv
<1>2. TypeInv /\ Alone /\ PacInv /\ UseInv /\ [Next]_vars
          => (TypeInv /\ Alone /\ PacInv /\ UseInv)'
  BY AloneStays, PacInvStays, UseStays, NextDigest DEF Digest
<1>3. UseInv => PacFollowsUse
  <2> SUFFICES ASSUME UseInv, OneByOne, Quiet, Never({"button", "prompt", "database", "crash"})
               PROVE  pac = Ours <=> PacNeeded
    BY DEF PacFollowsUse
  <2>1. \A t \in Commands : task[t].at \notin Undecided
    BY DEF Quiet, Tasks, Undecided, PacSteps
  <2> QED
    BY <2>1 DEF UseInv, Settled, Smooth
<1> QED
  BY <1>1, <1>2, <1>3, PTL DEF Spec
=============================================================================
