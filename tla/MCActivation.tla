---------------------------- MODULE MCActivation ----------------------------
(* Scenarios for the runs of Activation.                                     *)
EXTENDS Activation

\* At most one event of each of these kinds.
Once(events) == [e \in Events |-> IF e \in events THEN 1 ELSE 0]
Scenario(commands, others, overlap, selfCheck) ==
    [bound     |-> [Once(others) EXCEPT !["command"] = commands],
     overlap   |-> overlap,
     selfCheck |-> selfCheck]

\* Commands one at a time: an agent is enabled, switched to another mode or disabled, and
\* enabled again, while the prompt is dismissed and a file cannot be written, or the buttons
\* are pressed, an access to the database fails and the application dies.
Failing == Scenario(4, {"prompt", "file", "edit"}, FALSE, TRUE)
Pressing == Scenario(3, {"button", "prompt", "database", "unmark", "crash"}, FALSE, TRUE)
\* Two commands that overlap, on different agents or on one, with a third one after them.
Overlapping == Scenario(3, {"file"}, TRUE, TRUE)
Breaking == Scenario(2, {"prompt", "database", "unmark", "crash"}, TRUE, TRUE)
MCScenarios == {Failing, Pressing, Overlapping, Breaking}

\* What the comments promise and the code does not keep.
MCDying == {Scenario(3, {"crash"}, FALSE, FALSE)}
MCColliding == {Scenario(3, {}, TRUE, FALSE)}
MCEditing == {Scenario(1, {"edit"}, FALSE, TRUE)}
MCSwitching == {Scenario(2, {"prompt"}, FALSE, TRUE)}
=============================================================================
