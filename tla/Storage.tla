------------------------------ MODULE Storage ------------------------------
(***************************************************************************)
(* What is kept on disk, by two programs that may both run: the data       *)
(* directory (DataDir) and the log of requests in its database (Ledger).   *)
(* A process records once its proxy has run, its writer thread writes      *)
(* while it lives, and what ends the process takes the logs it has not     *)
(* written.                                                                *)
(***************************************************************************)
EXTENDS DataDir

CONSTANTS Contents, Prices, Retention, BucketSize, MaxTime

ASSUME StorageAssumption ==
    /\ Retention \in Nat \ {0} /\ BucketSize \in Nat \ {0} /\ MaxTime \in Nat

VARIABLES now, logs, queue, db, tx

Log == INSTANCE Ledger WITH Writers <- Processes

ASSUME LogAssumption ==
    /\ \A content \in Contents : Log!IsContent(content)
    /\ None \notin {"ok", "error"}
    /\ Prices \in Seq(Range(Prices)) /\ \A price \in Range(Prices) : Log!IsPrice(price)

logVars == <<now, logs, queue, db, tx>>
vars == <<dirVars, logVars>>

Init == DirInit /\ Log!LedgerInit

dirButBudget == <<schema, files, made, runtime, proc, child, cut, disturbed, renewed>>

KeepLog(step) == step /\ UNCHANGED logVars
KeepDir(step) == step /\ UNCHANGED dirVars
-----------------------------------------------------------------------------
\* An exchange that the proxy has accepted records when it ends, also after the proxy stopped.
RecordLog(p) ==
    /\ proc[p].served
    /\ Spend("records")
    /\ \E content \in Contents : Log!Record(p, content)
    /\ UNCHANGED dirButBudget

WriteFailsInDb(p) ==
    /\ Spend("failures")
    /\ Log!InsertFails(p)
    /\ UNCHANGED dirButBudget

\* The self-check of the application purges, its user clears.
AppPurges == Running("app") /\ KeepDir(Log!Purge)
AppClears == Running("app") /\ KeepDir(Log!ClearLogs)

\* pg waits 150 ms at its end for the writer thread, which need not be done by then; the
\* application does not wait.
QuitWithLogs(p) == Quit(p) /\ Log!Lose(p)
CrashWithLogs(p) == Crash(p) /\ Log!Lose(p)

Next ==
    \/ \E p \in Processes :
        \/ KeepLog(StartProcess(p))
        \/ KeepLog(ReadVersion(p)) \/ KeepLog(AddColumn(p)) \/ KeepLog(SetVersion(p))
        \/ KeepLog(Opened(p)) \/ KeepLog(FailToOpen(p))
        \/ KeepLog(Load(p)) \/ KeepLog(Generate(p))
        \/ KeepLog(WriteCert(p)) \/ KeepLog(WriteKey(p)) \/ KeepLog(WriteFails(p))
        \/ QuitWithLogs(p) \/ CrashWithLogs(p)
        \/ RecordLog(p) \/ WriteFailsInDb(p)
        \/ KeepDir(Log!Begin(p)) \/ KeepDir(Log!Execute(p)) \/ KeepDir(Log!Commit(p))
    \/ KeepLog(Regenerate) \/ KeepLog(RemoveCert) \/ KeepLog(RemoveKey) \/ KeepLog(KeyStays)
    \/ KeepLog(StartProxy) \/ KeepLog(StopProxy)
    \/ KeepLog(Serve) \/ KeepLog(Launch) \/ KeepLog(Spawn)
    \/ AppPurges \/ AppClears
    \/ KeepDir(Log!Tick)

Spec == Init /\ [][Next]_vars
-----------------------------------------------------------------------------
\* Whatever fails, is deleted or dies, of either program, a request in the database has
\* exactly the rows of its log, and no row of another table is without its request.
RowsWhole == Log!RowsWhole

\* The report, the statistics and the list of requests that the application draws tell the
\* same of every window.  (A transaction under way changes nothing they see.)
ReportAgrees == Running("app") /\ tx = None => Log!ReportAgrees
=============================================================================
