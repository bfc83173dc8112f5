--------------------------- MODULE Storage_proofs ---------------------------
(***************************************************************************)
(* The data directory: the store opens with its schema complete, for all   *)
(* columns that version 3 may add, and it fails to open only after a       *)
(* migration that was cut off or shared.  The authority a proxy signs with *)
(* is the one its clients are given, unless the files were disturbed.      *)
(* The log: it keeps its rows whole under what two programs and a data     *)
(* directory let happen to it; every step of theirs is a step of the log   *)
(* on its own, or leaves it alone.  What is counted of its tables: sums    *)
(* over finite sets do not depend on their order, so the groups of a       *)
(* window add up to the window.                                            *)
(***************************************************************************)
EXTENDS Storage, SequenceTheorems, FiniteSetTheorems, WellFoundedInduction, TLAPS

File == Nat \cup {None, Partial}
Authority == [cert : File, key : File] \cup {None}

Step ==
    {"read version", "migrate", "load", "write cert", "write key", "launch", "spawn",
     "remove cert", "remove key", "start proxy"}

\* A migration follows the reading of the version.
Follows(todo, a, b) == \A i \in 2 .. Len(todo) : todo[i] = b => todo[i - 1] = a
Ordered(todo) == Follows(todo, "read version", "migrate")
Todo == {todo \in Seq(Step) : Ordered(todo)}
MigratesNow(todo) == todo # <<>> /\ Head(todo) = "migrate"

Process ==
    [todo : Todo, up : BOOLEAN, version : 0 .. Latest \cup {None}, column : 0 .. Len(Columns),
     gen : Nat \cup {None}, ca : Authority, proxy : Authority, reuse : BOOLEAN,
     served : BOOLEAN]

TypeOK ==
    /\ schema \in [version : 0 .. Latest, columns : SUBSET Range(Columns)]
    /\ files \in [cert : File, key : File]
    /\ made \in Nat
    /\ proc \in [Processes -> Process]
    /\ cut \in BOOLEAN

\* The process is in migrate, and has these columns added.
Migrates(e) == MigratesNow(e.todo)
Unfinished(e) == Migrates(e) /\ e.version # Latest
Added(e) == {Columns[i] : i \in 1 .. e.column}

\* What a process in migrate has done is done, whatever others do.
Progress(e) ==
    /\ e.todo # <<>> => e.up
    /\ Migrates(e) => e.version \in 0 .. Latest /\ Added(e) \subseteq schema.columns
    /\ Migrates(e) /\ e.version < Latest - 1 => e.column = 0
    /\ e.up /\ e.version = Latest => schema.columns = Range(Columns)

\* Of a migration that was neither cut off nor shared the database shows the progress.
Undisturbed ==
    /\ \A p \in Processes : Unfinished(proc[p]) =>
          schema.version = proc[p].version /\ schema.columns = Added(proc[p])
    /\ \A p, q \in Processes : Unfinished(proc[p]) /\ Unfinished(proc[q]) => p = q
    /\ schema.version # Latest /\ (\A p \in Processes : ~Unfinished(proc[p])) => schema.columns = {}
    /\ \A p \in Processes : proc[p].up /\ proc[p].version = Latest => schema.version = Latest

Kept ==
    /\ schema.version = Latest => schema.columns = Range(Columns)
    /\ \A p \in Processes : Progress(proc[p])
    /\ cut \/ Undisturbed

IInv == TypeOK /\ Kept
-----------------------------------------------------------------------------
LEMMA Heads ==
    ASSUME NEW todo \in Seq(Step), todo # <<>>
    PROVE  /\ Head(todo) = todo[1] /\ Tail(todo) \in Seq(Step)
           /\ Tail(todo) # <<>> => Head(Tail(todo)) = todo[2] /\ 2 \in 2 .. Len(todo)
           /\ \A i \in 2 .. Len(Tail(todo)) :
                /\ i + 1 \in 2 .. Len(todo)
                /\ Tail(todo)[i] = todo[i + 1] /\ Tail(todo)[i - 1] = todo[(i + 1) - 1]
  OBVIOUS

LEMMA Concats ==
    ASSUME NEW steps \in Seq(Step), NEW rest \in Seq(Step), steps # <<>>
    PROVE  /\ steps \o rest \in Seq(Step)
           /\ Head(steps \o rest) = steps[1] /\ 1 \in 1 .. Len(steps)
           /\ \A i \in 2 .. Len(steps \o rest) :
                \/ i \in 1 .. Len(steps) /\ (steps \o rest)[i] = steps[i]
                \/ rest # <<>> /\ (steps \o rest)[i] = Head(rest)
                \/ /\ i - Len(steps) \in 2 .. Len(rest)
                   /\ (steps \o rest)[i] = rest[i - Len(steps)]
                   /\ (steps \o rest)[i - 1] = rest[(i - Len(steps)) - 1]
  OBVIOUS

LEMMA OrderedTail ==
    ASSUME NEW todo \in Seq(Step), Ordered(todo), todo # <<>>
    PROVE  /\ Tail(todo) \in Seq(Step) /\ Ordered(Tail(todo))
           /\ Head(todo) # "read version" /\ Tail(todo) # <<>> => Head(Tail(todo)) # "migrate"
<1>1. Ordered(Tail(todo))
  <2>1. ASSUME NEW i \in 2 .. Len(Tail(todo)), Tail(todo)[i] = "migrate"
        PROVE  Tail(todo)[i - 1] = "read version"
    <3>1. /\ i + 1 \in 2 .. Len(todo)
          /\ Tail(todo)[i] = todo[i + 1] /\ Tail(todo)[i - 1] = todo[(i + 1) - 1]
      BY Heads, Zenon
    <3>2. todo[i + 1] = "migrate"
      BY <2>1, <3>1, Zenon
    <3>3. todo[(i + 1) - 1] = "read version"
      BY <3>1, <3>2, Zenon DEF Ordered, Follows
    <3> QED
      BY <3>1, <3>3, Zenon
  <2> QED
    BY <2>1, Zenon DEF Ordered, Follows
<1>2. ASSUME Head(todo) # "read version", Tail(todo) # <<>> PROVE Head(Tail(todo)) # "migrate"
  <2>1. Head(Tail(todo)) = todo[2] /\ Head(todo) = todo[1] /\ 2 \in 2 .. Len(todo)
    BY <1>2, Heads, Zenon
  <2>2. todo[2] = "migrate" => todo[2 - 1] = "read version"
    BY <2>1, Zenon DEF Ordered, Follows
  <2>3. 2 - 1 = 1
    OBVIOUS
  <2> QED
    BY <1>2, <2>1, <2>2, <2>3, Zenon
<1> QED
  BY <1>1, <1>2, Heads, Zenon

LEMMA OrderedAfter ==
    ASSUME NEW rest \in Seq(Step), Ordered(rest), rest # <<>> => Head(rest) # "migrate",
           NEW steps \in Seq(Step), steps # <<>>, \A i \in 1 .. Len(steps) : steps[i] # "migrate"
    PROVE  /\ steps \o rest \in Seq(Step) /\ Ordered(steps \o rest)
           /\ Head(steps \o rest) # "migrate"
<1>1. ASSUME NEW i \in 2 .. Len(steps \o rest), (steps \o rest)[i] = "migrate"
      PROVE  (steps \o rest)[i - 1] = "read version"
  <2>1. /\ i - Len(steps) \in 2 .. Len(rest)
        /\ (steps \o rest)[i] = rest[i - Len(steps)]
        /\ (steps \o rest)[i - 1] = rest[(i - Len(steps)) - 1]
    BY <1>1, Concats, Zenon
  <2> QED
    BY <1>1, <2>1, Zenon DEF Ordered, Follows
<1> QED
  BY <1>1, Concats, Zenon DEF Ordered, Follows

LEMMA TodoTail ==
    ASSUME NEW todo \in Todo, todo # <<>>
    PROVE  /\ <<>> \o Tail(todo) = Tail(todo) /\ Tail(todo) \in Todo
           /\ Head(todo) # "read version" => ~MigratesNow(Tail(todo))
<1>1. todo \in Seq(Step) /\ Ordered(todo)
  BY Zenon DEF Todo
<1>2. Tail(todo) \in Seq(Step)
  BY <1>1, OrderedTail, Zenon
<1>3. <<>> \o Tail(todo) = Tail(todo)
  BY <1>2, ConcatEmptySeq, Zenon
<1> QED
  BY <1>1, <1>3, OrderedTail, Zenon DEF Todo, MigratesNow

LEMMA TodoAfter ==
    ASSUME NEW todo \in Todo, todo # <<>>, Head(todo) # "read version",
           NEW steps \in Seq(Step), steps # <<>>, \A i \in 1 .. Len(steps) : steps[i] # "migrate"
    PROVE  steps \o Tail(todo) \in Todo /\ ~MigratesNow(steps \o Tail(todo))
<1>1. Tail(todo) \in Seq(Step) /\ Ordered(Tail(todo))
      /\ (Tail(todo) # <<>> => Head(Tail(todo)) # "migrate")
  BY TodoTail, Zenon DEF Todo, MigratesNow
<1> QED
  BY <1>1, OrderedAfter, Zenon DEF Todo, MigratesNow

LEMMA Three ==
    ASSUME NEW a, NEW b, NEW c, NEW x, NEW y,
           b = y => a = x, c = y => b = x
    PROVE  Follows(<<a, b, c>>, x, y)
  BY DEF Follows

LEMMA Four ==
    ASSUME NEW a, NEW b, NEW c, NEW d, NEW x, NEW y,
           b = y => a = x, c = y => b = x, d = y => c = x
    PROVE  Follows(<<a, b, c, d>>, x, y)
  BY DEF Follows

LEMMA LiteralThree ==
    ASSUME NEW a \in Step, NEW b \in Step, NEW c \in Step
    PROVE  <<a, b, c>> \in Seq(Step) /\ Head(<<a, b, c>>) = a
  OBVIOUS

LEMMA LiteralFour ==
    ASSUME NEW a \in Step, NEW b \in Step, NEW c \in Step, NEW d \in Step
    PROVE  <<a, b, c, d>> \in Seq(Step) /\ Head(<<a, b, c, d>>) = a
  OBVIOUS

LEMMA ThreeSteps ==
    ASSUME NEW a \in Step, NEW b \in Step, NEW c \in Step,
           a # "migrate", b = "migrate" => a = "read version", c = "migrate" => b = "read version"
    PROVE  <<a, b, c>> \in Todo /\ ~MigratesNow(<<a, b, c>>)
<1>1. <<a, b, c>> \in Seq(Step) /\ Head(<<a, b, c>>) = a
  BY LiteralThree, Zenon
<1>2. Follows(<<a, b, c>>, "read version", "migrate")
  BY Three, Zenon
<1> QED
  BY <1>1, <1>2, Zenon DEF Todo, Ordered, MigratesNow

LEMMA FourSteps ==
    ASSUME NEW a \in Step, NEW b \in Step, NEW c \in Step, NEW d \in Step,
           a # "migrate", b = "migrate" => a = "read version", c = "migrate" => b = "read version",
           d = "migrate" => c = "read version"
    PROVE  <<a, b, c, d>> \in Todo /\ ~MigratesNow(<<a, b, c, d>>)
<1>1. <<a, b, c, d>> \in Seq(Step) /\ Head(<<a, b, c, d>>) = a
  BY ONLY LiteralFour, a \in Step, b \in Step, c \in Step, d \in Step, Zenon
<1>2. Follows(<<a, b, c, d>>, "read version", "migrate")
  BY Four, Zenon
<1> QED
  BY <1>1, <1>2, Zenon DEF Todo, Ordered, MigratesNow

LEMMA Few ==
    ASSUME NEW a \in Step, NEW b \in Step
    PROVE  /\ <<a>> \in Seq(Step) /\ <<a>> # <<>> /\ \A i \in 1 .. Len(<<a>>) : <<a>>[i] = a
           /\ <<a, b>> \in Seq(Step) /\ <<a, b>> # <<>>
           /\ \A i \in 1 .. Len(<<a, b>>) : <<a, b>>[i] = a \/ <<a, b>>[i] = b
  OBVIOUS

\* The lists of steps that a process is given.
LEMMA TodoGenerate ==
    /\ <<"write cert", "write key">> \in Seq(Step) /\ <<"write cert", "write key">> # <<>>
    /\ \A i \in 1 .. Len(<<"write cert", "write key">>) : <<"write cert", "write key">>[i] # "migrate"
<1>1. "write cert" \in Step /\ "write key" \in Step
  BY DEF Step
<1> QED
  BY <1>1, Few, ZenonT(60)

LEMMA TodoSpawn ==
    /\ <<"spawn">> \in Seq(Step) /\ <<"spawn">> # <<>>
    /\ \A i \in 1 .. Len(<<"spawn">>) : <<"spawn">>[i] # "migrate"
<1>1. "spawn" \in Step
  BY DEF Step
<1> QED
  BY <1>1, Few, Zenon

LEMMA TodoEmpty == <<>> \in Todo /\ ~MigratesNow(<<>>)
<1>1. <<>> \in Seq(Step) /\ Len(<<>>) = 0
  BY EmptySeq
<1>2. \A i \in 2 .. 0 : FALSE
  OBVIOUS
<1> QED
  BY <1>1, <1>2, Zenon DEF Todo, Ordered, Follows, MigratesNow

LEMMA TodoApp == <<"read version", "migrate", "load">> \in Todo /\ ~MigratesNow(<<"read version", "migrate", "load">>)
<1>1. "read version" \in Step /\ "migrate" \in Step /\ "load" \in Step
  BY DEF Step
<1> QED
  BY <1>1, ThreeSteps, Zenon

LEMMA TodoPg ==
    /\ <<"load", "read version", "migrate", "launch">> \in Todo
    /\ ~MigratesNow(<<"load", "read version", "migrate", "launch">>)
<1>1. "load" \in Step /\ "read version" \in Step /\ "migrate" \in Step /\ "launch" \in Step
  BY DEF Step
<1> QED
  BY <1>1, FourSteps, Zenon

LEMMA TodoRemove ==
    /\ <<"remove cert", "remove key", "load">> \in Todo
    /\ ~MigratesNow(<<"remove cert", "remove key", "load">>)
<1>1. "remove cert" \in Step /\ "remove key" \in Step /\ "load" \in Step
  BY DEF Step
<1> QED
  BY <1>1, ThreeSteps, Zenon

LEMMA TodoRemoveRestart ==
    /\ <<"remove cert", "remove key", "load", "start proxy">> \in Todo
    /\ ~MigratesNow(<<"remove cert", "remove key", "load", "start proxy">>)
<1>1. "remove cert" \in Step /\ "remove key" \in Step /\ "load" \in Step /\ "start proxy" \in Step
  BY DEF Step
<1> QED
  BY <1>1, FourSteps, Zenon
-----------------------------------------------------------------------------
LEMMA GoesOn ==
    ASSUME NEW e \in Process, e.todo # <<>>
    PROVE  /\ [e EXCEPT !.todo = <<>> \o Tail(@)] \in Process
           /\ [e EXCEPT !.todo = <<>> \o Tail(@)].todo = Tail(e.todo)
           /\ [e EXCEPT !.todo = <<>> \o Tail(@)].up = e.up
           /\ [e EXCEPT !.todo = <<>> \o Tail(@)].version = e.version
           /\ [e EXCEPT !.todo = <<>> \o Tail(@)].column = e.column
           /\ Head(e.todo) # "read version" => ~Migrates([e EXCEPT !.todo = <<>> \o Tail(@)])
<1> DEFINE n == [e EXCEPT !.todo = <<>> \o Tail(@)]
<1>1. e.todo \in Todo
  BY DEF Process
<1>2. /\ <<>> \o Tail(e.todo) = Tail(e.todo) /\ Tail(e.todo) \in Todo
      /\ Head(e.todo) # "read version" => ~MigratesNow(Tail(e.todo))
  BY <1>1, TodoTail, Zenon
<1>3. n = [e EXCEPT !.todo = Tail(e.todo)]
  BY <1>2, Zenon
<1>4. n \in Process /\ n.todo = Tail(e.todo) /\ n.up = e.up /\ n.version = e.version /\ n.column = e.column
  BY <1>2, <1>3 DEF Process
<1> HIDE DEF n
<1>5. Head(e.todo) # "read version" => ~Migrates(n)
  BY <1>2, <1>4, Zenon DEF Migrates
<1> QED
  BY <1>4, <1>5, Zenon DEF n

\* A process that is not in a migration, or that ends before it added a column, leaves the
\* schema as it is.
LEMMA Elsewhere ==
    ASSUME IInv, NEW p \in Processes, NEW e \in Process,
           proc' = [proc EXCEPT ![p] = e], schema' = schema,
           files' \in [cert : File, key : File], made' \in Nat, cut' \in BOOLEAN,
           ~Migrates(e), e.todo # <<>> => e.up,
           e.up /\ e.version = Latest => proc[p].up /\ proc[p].version = Latest,
           cut' \/ (~cut /\ (Unfinished(proc[p]) => proc[p].column = 0))
    PROVE  IInv'
<1>1. TypeOK /\ Kept
  BY DEF IInv
<1>2. proc \in [Processes -> Process] /\ proc' \in [Processes -> Process] /\ proc'[p] = e
      /\ \A q \in Processes \ {p} : proc'[q] = proc[q]
  BY <1>1 DEF TypeOK
<1>3. TypeOK'
  BY <1>1, <1>2 DEF TypeOK
<1>4. \A q \in Processes : Progress(proc[q])'
  <2> SUFFICES ASSUME NEW q \in Processes PROVE Progress(proc[q])'
    OBVIOUS
  <2>1. Progress(proc[q]) /\ Progress(proc[p])
    BY <1>1, Zenon DEF Kept
  <2>2. CASE q = p
    BY <1>2, <2>1, <2>2 DEF Progress
  <2>3. CASE q # p
    BY <1>2, <2>1, <2>3 DEF Progress
  <2> QED
    BY <2>2, <2>3
<1>5. ASSUME ~cut' PROVE Undisturbed'
  <2>1. Undisturbed /\ (Unfinished(proc[p]) => proc[p].column = 0)
    BY <1>1, <1>5, Zenon DEF Kept
  <2>2. ~Unfinished(e)
    BY Zenon DEF Unfinished
  <2>3. Unfinished(proc[p]) => schema.columns = {}
    BY <2>1 DEF Undisturbed, Added
  <2>4. \A q \in Processes : Unfinished(proc'[q]) => q # p /\ proc'[q] = proc[q] /\ Unfinished(proc[q])
    BY <1>2, <2>2, Zenon
  <2>5. \A q \in Processes : Unfinished(proc[q]) => Unfinished(proc'[q]) \/ q = p
    BY <1>2, Zenon
  <2>6. \A q \in Processes : (Unfinished(proc[q]))' <=> Unfinished(proc'[q])
    BY DEF Unfinished
  <2>7. \A q \in Processes : (Unfinished(proc[q]))' =>
            schema'.version = proc'[q].version /\ schema'.columns = (Added(proc[q]))'
    BY <2>1, <2>4, <2>6 DEF Undisturbed, Added
  <2>8. \A q, r \in Processes : (Unfinished(proc[q]))' /\ (Unfinished(proc[r]))' => q = r
    BY <2>1, <2>4, <2>6, Zenon DEF Undisturbed
  <2>9. schema'.version # Latest /\ (\A q \in Processes : ~(Unfinished(proc[q]))') => schema'.columns = {}
    BY <2>1, <2>3, <2>5, <2>6, Zenon DEF Undisturbed
  <2>10. \A q \in Processes : proc'[q].up /\ proc'[q].version = Latest => schema'.version = Latest
    <3> SUFFICES ASSUME NEW q \in Processes, proc'[q].up, proc'[q].version = Latest
                 PROVE  schema'.version = Latest
      BY Zenon
    <3>1. proc[q].up /\ proc[q].version = Latest
      BY <1>2, Zenon
    <3> QED
      BY <2>1, <3>1, Zenon DEF Undisturbed
  <2> QED
    BY <2>7, <2>8, <2>9, <2>10, Zenon DEF Undisturbed
<1>6. Kept'
  BY <1>1, <1>4, <1>5, Zenon DEF Kept
<1> QED
  BY <1>3, <1>6, Zenon DEF IInv
-----------------------------------------------------------------------------
\* The steps of a migration.

LEMMA ReadsVersion == ASSUME IInv, NEW p \in Processes, ReadVersion(p) PROVE IInv'
<1> DEFINE e == [proc[p] EXCEPT !.version = schema.version, !.column = 0]
           n == [e EXCEPT !.todo = <<>> \o Tail(@)]
<1>1. TypeOK /\ Kept
  BY DEF IInv
<1>2. proc[p] \in Process /\ proc[p].todo # <<>> /\ Head(proc[p].todo) = "read version"
  BY <1>1 DEF TypeOK, ReadVersion, At, Busy
<1>3. e \in Process /\ e.todo = proc[p].todo /\ e.version = schema.version /\ e.column = 0
      /\ e.up = proc[p].up /\ schema.version \in 0 .. Latest
  <2>1. Len(Columns) \in Nat
    BY DataDirAssumption
  <2>2. 0 \in 0 .. Len(Columns) /\ schema.version \in 0 .. Latest
    BY <1>1, <2>1 DEF TypeOK
  <2> QED
    BY <1>2, <2>2 DEF Process
<1>4. proc' = [proc EXCEPT ![p] = n] /\ schema' = schema /\ files' = files /\ made' = made
  BY DEF ReadVersion, Then, Goes
<1>5. cut' = (cut \/ (schema.version < Latest /\ \E q \in Processes \ {p} : At(q, "migrate")))
  BY DEF ReadVersion
<1> HIDE DEF e
<1>6. n \in Process /\ n.version = schema.version /\ n.column = 0 /\ n.up
  <2>1. proc[p].up
    BY <1>1, <1>2, Zenon DEF Kept, Progress
  <2> QED
    BY <1>2, <1>3, <2>1, GoesOn
<1> HIDE DEF n
<1>7. /\ proc \in [Processes -> Process] /\ proc' \in [Processes -> Process] /\ proc'[p] = n
      /\ \A q \in Processes \ {p} : proc'[q] = proc[q]
  BY <1>1, <1>4, <1>6 DEF TypeOK
<1>8. TypeOK'
  BY <1>1, <1>4, <1>5, <1>7 DEF TypeOK
<1>9. ~Migrates(proc[p])
  BY <1>2 DEF Migrates, MigratesNow
<1>10. \A q \in Processes : Progress(proc[q])'
  <2> SUFFICES ASSUME NEW q \in Processes PROVE Progress(proc[q])'
    OBVIOUS
  <2>1. CASE q # p
    <3>1. Progress(proc[q])
      BY <1>1, Zenon DEF Kept
    <3> QED
      BY <1>4, <1>7, <2>1, <3>1 DEF Progress
  <2>2. CASE q = p
    <3>1. Added(n) = {}
      BY <1>6 DEF Added
    <3>2. schema.version = Latest => schema.columns = Range(Columns)
      BY <1>1, Zenon DEF Kept
    <3> QED
      BY <1>3, <1>4, <1>6, <1>7, <2>2, <3>1, <3>2 DEF Progress
  <2> QED
    BY <2>1, <2>2
<1>11. ASSUME ~cut' PROVE Undisturbed'
  <2>1. Undisturbed /\ (schema.version < Latest => \A q \in Processes \ {p} : ~At(q, "migrate"))
    BY <1>1, <1>5, <1>11 DEF Kept, TypeOK
  <2>2. \A q \in Processes \ {p} : ~Unfinished(proc[q])
    <3> SUFFICES ASSUME NEW q \in Processes \ {p}, Unfinished(proc[q]) PROVE FALSE
      BY Zenon
    <3>1. At(q, "migrate")
      BY Zenon DEF At, Busy, Unfinished, Migrates, MigratesNow
    <3>2. schema.version = proc[q].version /\ proc[q].version # Latest
      BY <2>1, Zenon DEF Undisturbed, Unfinished
    <3>3. schema.version < Latest
      BY <1>3, <3>2 DEF Latest
    <3> QED
      BY <2>1, <3>1, <3>3, Zenon
  <2>3. schema.version # Latest => schema.columns = {}
    <3>1. \A q \in Processes : ~Unfinished(proc[q])
      BY <1>9, <2>2, Zenon DEF Unfinished
    <3> QED
      BY <2>1, <3>1, Zenon DEF Undisturbed
  <2>4. \A q \in Processes : (Unfinished(proc[q]))' => q = p /\ schema.version # Latest
    <3>1. \A q \in Processes : (Unfinished(proc[q]))' <=> Unfinished(proc'[q])
      BY DEF Unfinished
    <3>2. Unfinished(n) => schema.version # Latest
      BY <1>6, Zenon DEF Unfinished
    <3> QED
      BY <1>7, <2>2, <3>1, <3>2, Zenon
  <2>5. \A q \in Processes : (Unfinished(proc[q]))' =>
            schema'.version = proc'[q].version /\ schema'.columns = (Added(proc[q]))'
    <3>1. Added(n) = {}
      BY <1>6 DEF Added
    <3> QED
      BY <1>4, <1>6, <1>7, <2>3, <2>4, <3>1 DEF Added
  <2>6. \A q \in Processes : proc'[q].up /\ proc'[q].version = Latest => schema'.version = Latest
    BY <1>4, <1>6, <1>7, <2>1, Zenon DEF Undisturbed
  <2>7. schema'.version # Latest => schema'.columns = {}
    BY <1>4, <2>3, Zenon
  <2> QED
    BY <2>4, <2>5, <2>6, <2>7, Zenon DEF Undisturbed
<1>12. Kept'
  <2>1. schema'.version = Latest => schema'.columns = Range(Columns)
    BY <1>1, <1>4, Zenon DEF Kept
  <2> QED
    BY <1>10, <1>11, <2>1, Zenon DEF Kept
<1> QED
  BY <1>8, <1>12, Zenon DEF IInv

\* What a process knows of its migration while it is in it.
LEMMA InMigration ==
    ASSUME IInv, NEW p \in Processes, At(p, "migrate")
    PROVE  /\ proc[p] \in Process /\ Migrates(proc[p]) /\ proc[p].version \in 0 .. Latest
           /\ proc[p].up
           /\ proc[p].column \in 0 .. Len(Columns) /\ Len(Columns) \in Nat
           /\ Added(proc[p]) \subseteq schema.columns
           /\ proc[p].version < Latest - 1 => proc[p].column = 0
           /\ ~cut /\ proc[p].version # Latest =>
                 schema.version = proc[p].version /\ schema.columns = Added(proc[p])
<1>1. TypeOK /\ Kept
  BY DEF IInv
<1>2. Migrates(proc[p])
  BY Zenon DEF At, Busy, Migrates, MigratesNow
<1>3. proc[p] \in Process /\ proc[p].column \in 0 .. Len(Columns)
  BY <1>1 DEF TypeOK, Process
<1>4. Progress(proc[p]) /\ (cut \/ Undisturbed)
  BY <1>1, Zenon DEF Kept
<1>5. Len(Columns) \in Nat
  BY DataDirAssumption
<1>6. proc[p].version \in 0 .. Latest /\ Added(proc[p]) \subseteq schema.columns
      /\ (proc[p].version < Latest - 1 => proc[p].column = 0)
      /\ proc[p].up
  BY <1>2, <1>4, Zenon DEF Progress, Migrates, MigratesNow
<1>7. ~cut /\ proc[p].version # Latest =>
         schema.version = proc[p].version /\ schema.columns = Added(proc[p])
  BY <1>2, <1>4, Zenon DEF Undisturbed, Unfinished
<1> QED
  BY <1>2, <1>3, <1>5, <1>6, <1>7, Zenon

LEMMA Columns0 ==
    /\ Range(Columns) = {Columns[i] : i \in 1 .. Len(Columns)}
    /\ \A i, j \in 1 .. Len(Columns) : Columns[i] = Columns[j] => i = j
<1>1. DOMAIN Columns = 1 .. Len(Columns)
  BY DataDirAssumption
<1> QED
  BY <1>1, DataDirAssumption, Zenon DEF Range

LEMMA AddsColumn == ASSUME IInv, NEW p \in Processes, AddColumn(p) PROVE IInv'
<1> DEFINE e == [proc[p] EXCEPT !.column = @ + 1]
<1>1. TypeOK /\ Kept /\ At(p, "migrate") /\ proc[p].version = Latest - 1
      /\ proc[p].column < Len(Columns)
  BY Zenon DEF IInv, AddColumn, Altering
<1>2. /\ proc[p] \in Process /\ Migrates(proc[p]) /\ proc[p].column \in 0 .. Len(Columns)
      /\ Len(Columns) \in Nat /\ Added(proc[p]) \subseteq schema.columns
      /\ ~cut => schema.version = proc[p].version /\ schema.columns = Added(proc[p])
  BY <1>1, InMigration DEF Latest
<1>3. /\ proc' = [proc EXCEPT ![p] = e] /\ files' = files /\ made' = made /\ cut' = cut
      /\ schema' = [schema EXCEPT !.columns = @ \cup {Columns[proc[p].column + 1]}]
  BY <1>1 DEF AddColumn, Adds, TypeOK
<1>4. e \in Process /\ e.todo = proc[p].todo /\ e.version = proc[p].version /\ e.up = proc[p].up
      /\ e.column = proc[p].column + 1
  BY <1>1, <1>2 DEF Process
<1> HIDE DEF e
<1>5. /\ proc \in [Processes -> Process] /\ proc' \in [Processes -> Process] /\ proc'[p] = e
      /\ \A q \in Processes \ {p} : proc'[q] = proc[q]
  BY <1>1, <1>3, <1>4 DEF TypeOK
<1>6. Columns[proc[p].column + 1] \in Range(Columns) /\ proc[p].column + 1 \in 1 .. Len(Columns)
  BY <1>1, <1>2, Columns0
<1>7. schema.version \in 0 .. Latest /\ schema.columns \subseteq Range(Columns)
      /\ schema'.version = schema.version
      /\ schema'.columns = schema.columns \cup {Columns[proc[p].column + 1]}
      /\ schema' \in [version : 0 .. Latest, columns : SUBSET Range(Columns)]
  BY <1>1, <1>3, <1>6 DEF TypeOK
<1>8. TypeOK'
  BY <1>1, <1>3, <1>5, <1>7 DEF TypeOK
<1>9. Added(e) = Added(proc[p]) \cup {Columns[proc[p].column + 1]}
  <2>1. 1 .. e.column = (1 .. proc[p].column) \cup {proc[p].column + 1}
    BY <1>2, <1>4
  <2> QED
    BY <2>1, Zenon DEF Added
<1>10. \A q \in Processes : Progress(proc[q])'
  <2> SUFFICES ASSUME NEW q \in Processes PROVE Progress(proc[q])'
    OBVIOUS
  <2>1. CASE q # p
    <3>1. Progress(proc[q])
      BY <1>1, Zenon DEF Kept
    <3>2. Added(proc'[q]) \subseteq schema'.columns \/ ~Migrates(proc'[q])
      BY <1>5, <1>7, <2>1, <3>1 DEF Progress
    <3>3. proc'[q].up /\ proc'[q].version = Latest => schema'.columns = Range(Columns)
      BY <1>5, <1>7, <2>1, <3>1 DEF Progress
    <3>4. (Added(proc[q]))' = Added(proc'[q]) /\ ((Migrates(proc[q]))' <=> Migrates(proc'[q]))
      BY DEF Added, Migrates
    <3> QED
      BY <1>5, <2>1, <3>1, <3>2, <3>3, <3>4 DEF Progress
  <2>2. CASE q = p
    <3>1. Added(e) \subseteq schema'.columns
      BY <1>2, <1>7, <1>9
    <3>2. e.version \in 0 .. Latest /\ e.version # Latest /\ ~(e.version < Latest - 1)
      BY <1>1, <1>4 DEF Latest
    <3>3. (Added(proc[p]))' = Added(e) /\ ((Migrates(proc[p]))' <=> Migrates(e))
      BY <1>5 DEF Added, Migrates
    <3>4. e.up
      BY <1>1, <1>4, InMigration, Zenon
    <3> QED
      BY <1>5, <2>2, <3>1, <3>2, <3>3, <3>4 DEF Progress
  <2> QED
    BY <2>1, <2>2
<1>11. ASSUME ~cut' PROVE Undisturbed'
  <2>1. Undisturbed /\ Unfinished(proc[p])
    BY <1>1, <1>2, <1>3, <1>11 DEF Kept, Unfinished, Latest
  <2>2. \A q \in Processes : (Unfinished(proc[q]))' <=> Unfinished(proc'[q])
    BY DEF Unfinished
  <2>3. Unfinished(e)
    BY <1>4, <2>1, Zenon DEF Unfinished, Migrates
  <2>4. \A q \in Processes : Unfinished(proc'[q]) => q = p
    BY <1>5, <2>1, Zenon DEF Undisturbed
  <2>5. schema'.version = e.version /\ schema'.columns = Added(e)
    BY <1>2, <1>3, <1>4, <1>7, <1>9, <1>11
  <2>6. (Added(proc[p]))' = Added(e)
    BY <1>5 DEF Added
  <2>7. \A q \in Processes : ~(proc'[q].up /\ proc'[q].version = Latest)
    <3> SUFFICES ASSUME NEW q \in Processes, proc'[q].up, proc'[q].version = Latest PROVE FALSE
      BY Zenon
    <3>1. q # p
      BY <1>1, <1>4, <1>5 DEF Latest
    <3>2. schema.version = Latest
      BY <1>5, <2>1, <3>1, Zenon DEF Undisturbed
    <3> QED
      BY <1>1, <1>2, <1>3, <1>11, <3>2 DEF Latest
  <2> QED
    BY <1>5, <2>2, <2>3, <2>4, <2>5, <2>6, <2>7, Zenon DEF Undisturbed
<1>12. Kept'
  <2>1. schema'.version = Latest => schema'.columns = Range(Columns)
    BY <1>1, <1>6, <1>7 DEF Kept
  <2> QED
    BY <1>10, <1>11, <2>1, Zenon DEF Kept
<1> QED
  BY <1>8, <1>12, Zenon DEF IInv

LEMMA SetsVersion == ASSUME IInv, NEW p \in Processes, SetVersion(p) PROVE IInv'
<1> DEFINE e == [proc[p] EXCEPT !.version = @ + 1]
<1>1. TypeOK /\ Kept /\ At(p, "migrate") /\ proc[p].version < Latest /\ ~Altering(p)
  BY Zenon DEF IInv, SetVersion
<1>2. /\ proc[p] \in Process /\ Migrates(proc[p]) /\ proc[p].column \in 0 .. Len(Columns)
      /\ Len(Columns) \in Nat /\ Added(proc[p]) \subseteq schema.columns
      /\ proc[p].version \in 0 .. Latest /\ proc[p].version # Latest
      /\ proc[p].version < Latest - 1 => proc[p].column = 0
      /\ ~cut => schema.version = proc[p].version /\ schema.columns = Added(proc[p])
  BY <1>1, InMigration DEF Latest
<1>3. /\ proc' = [proc EXCEPT ![p] = e] /\ files' = files /\ made' = made /\ cut' = cut
      /\ schema' = [schema EXCEPT !.version = proc[p].version + 1]
  BY <1>1 DEF SetVersion, TypeOK
<1>4. e \in Process /\ e.todo = proc[p].todo /\ e.version = proc[p].version + 1
      /\ e.up = proc[p].up /\ e.column = proc[p].column
  BY <1>1, <1>2 DEF Process, Latest
<1> HIDE DEF e
<1>5. /\ proc \in [Processes -> Process] /\ proc' \in [Processes -> Process] /\ proc'[p] = e
      /\ \A q \in Processes \ {p} : proc'[q] = proc[q]
  BY <1>1, <1>3, <1>4 DEF TypeOK
<1>6. schema.columns \subseteq Range(Columns)
      /\ schema'.version = proc[p].version + 1 /\ schema'.columns = schema.columns
      /\ schema' \in [version : 0 .. Latest, columns : SUBSET Range(Columns)]
  BY <1>1, <1>2, <1>3, SMTT(60) DEF TypeOK, Latest
<1>7. TypeOK'
  BY <1>1, <1>3, <1>5, <1>6 DEF TypeOK
<1>8. Added(e) = Added(proc[p])
  BY <1>4, Zenon DEF Added
\* The third version is written when every column is there.
<1>9. e.version = Latest => schema.columns = Range(Columns)
  <2> SUFFICES ASSUME e.version = Latest PROVE schema.columns = Range(Columns)
    OBVIOUS
  <2>1. proc[p].version = Latest - 1
    BY <1>2, <1>4 DEF Latest
  <2>2. proc[p].column = Len(Columns)
    BY <1>1, <1>2, <2>1 DEF Altering
  <2>3. Added(proc[p]) = Range(Columns)
    BY <2>2, Columns0, Zenon DEF Added
  <2> QED
    BY <1>2, <1>6, <2>3
<1>10. \A q \in Processes : Progress(proc[q])'
  <2> SUFFICES ASSUME NEW q \in Processes PROVE Progress(proc[q])'
    OBVIOUS
  <2>1. (Added(proc[q]))' = Added(proc'[q]) /\ ((Migrates(proc[q]))' <=> Migrates(proc'[q]))
    BY DEF Added, Migrates
  <2>2. CASE q # p
    <3>1. Progress(proc[q])
      BY <1>1, Zenon DEF Kept
    <3> QED
      BY <1>5, <1>6, <2>1, <2>2, <3>1 DEF Progress
  <2>3. CASE q = p
    <3>1. e.version \in 0 .. Latest /\ (e.version < Latest - 1 => e.column = 0)
      BY <1>2, <1>4 DEF Latest
    <3>2. e.up
      BY <1>1, <1>4, InMigration, Zenon
    <3> QED
      BY <1>2, <1>5, <1>6, <1>8, <1>9, <2>1, <2>3, <3>1, <3>2 DEF Progress
  <2> QED
    BY <2>2, <2>3
<1>11. ASSUME ~cut' PROVE Undisturbed'
  <2>1. Undisturbed /\ Unfinished(proc[p])
    BY <1>1, <1>2, <1>3, <1>11 DEF Kept, Unfinished
  <2>2. \A q \in Processes : (Unfinished(proc[q]))' <=> Unfinished(proc'[q])
    BY DEF Unfinished
  <2>3. e.version # Latest => Unfinished(e)
    BY <1>4, <2>1, Zenon DEF Unfinished, Migrates
  <2>4. \A q \in Processes : Unfinished(proc'[q]) => q = p
    BY <1>5, <2>1, Zenon DEF Undisturbed
  <2>5. schema'.version = e.version /\ schema'.columns = Added(e)
    BY <1>2, <1>3, <1>4, <1>6, <1>8, <1>11
  <2>6. (Added(proc[p]))' = Added(e)
    BY <1>5 DEF Added
  <2>7. \A q \in Processes : proc'[q].up /\ proc'[q].version = Latest => schema'.version = Latest
    <3> SUFFICES ASSUME NEW q \in Processes, proc'[q].up, proc'[q].version = Latest
                 PROVE  schema'.version = Latest
      BY Zenon
    <3>1. CASE q = p
      BY <1>5, <2>5, <3>1
    <3>2. CASE q # p
      <4>1. schema.version = Latest
        BY <1>5, <2>1, <3>2, Zenon DEF Undisturbed
      <4> QED
        BY <1>2, <1>3, <1>11, <4>1
    <3> QED
      BY <3>1, <3>2
  <2> QED
    BY <1>5, <2>2, <2>3, <2>4, <2>5, <2>6, <2>7, Zenon DEF Undisturbed
<1>12. Kept'
  <2>1. schema'.version = Latest => schema'.columns = Range(Columns)
    BY <1>4, <1>6, <1>9
  <2> QED
    BY <1>10, <1>11, <2>1, Zenon DEF Kept
<1> QED
  BY <1>7, <1>12, Zenon DEF IInv

\* A migration that was not cut off finds none of its columns.
LEMMA ColumnIsNew == ASSUME IInv, NEW p \in Processes, MigrationFails(p) PROVE cut
<1> SUFFICES ASSUME ~cut PROVE FALSE
  OBVIOUS
<1>1. At(p, "migrate") /\ proc[p].version = Latest - 1 /\ proc[p].column < Len(Columns)
      /\ Columns[proc[p].column + 1] \in schema.columns
  BY Zenon DEF MigrationFails, Altering, Adds
<1>2. proc[p].column \in 0 .. Len(Columns) /\ Len(Columns) \in Nat
      /\ schema.columns = Added(proc[p])
  BY <1>1, InMigration DEF Latest
<1>3. PICK i \in 1 .. proc[p].column : Columns[proc[p].column + 1] = Columns[i]
  BY <1>1, <1>2, Zenon DEF Added
<1>4. i \in 1 .. Len(Columns) /\ proc[p].column + 1 \in 1 .. Len(Columns)
  BY <1>1, <1>2
<1>5. proc[p].column + 1 = i
  BY <1>3, <1>4, Columns0, Zenon
<1> QED
  BY <1>2, <1>5
-----------------------------------------------------------------------------
\* The other steps.

LEMMA OffIsProcess == Off \in Process /\ ~Migrates(Off) /\ ~Off.up
<1>1. Len(Columns) \in Nat
  BY DataDirAssumption
<1>2. 0 \in 0 .. Len(Columns)
  BY <1>1
<1>3. Off \in Process
  BY <1>2, TodoEmpty DEF Off, Process, Authority
<1> QED
  BY <1>3, TodoEmpty DEF Off, Migrates

\* What a process is when it is at a step, or at none.
LEMMA AtStep ==
    ASSUME IInv, NEW p \in Processes
    PROVE  /\ TypeOK /\ Kept /\ proc[p] \in Process /\ proc \in [Processes -> Process]
           /\ proc[p].todo \in Todo /\ proc[p].ca \in Authority /\ proc[p].gen \in Nat \cup {None}
           /\ files \in [cert : File, key : File] /\ made \in Nat /\ cut \in BOOLEAN
           /\ \A step : At(p, step) => proc[p].todo # <<>> /\ Head(proc[p].todo) = step
           /\ \A step : At(p, step) /\ step # "migrate" => ~Migrates(proc[p])
           /\ ~Busy(p) => ~Migrates(proc[p])
           /\ Busy(p) => proc[p].up
           /\ \A step : At(p, step) => proc[p].up
<1>1. TypeOK /\ Kept
  BY DEF IInv
<1>2. proc[p] \in Process
  BY <1>1 DEF TypeOK
<1>3. proc[p].todo \in Todo /\ proc[p].ca \in Authority /\ proc[p].gen \in Nat \cup {None}
  BY <1>2 DEF Process
<1>4. /\ \A step : At(p, step) => proc[p].todo # <<>> /\ Head(proc[p].todo) = step
      /\ \A step : At(p, step) /\ step # "migrate" => ~Migrates(proc[p])
      /\ ~Busy(p) => ~Migrates(proc[p])
  BY Zenon DEF At, Busy, Migrates, MigratesNow
<1>5. Busy(p) => proc[p].up
  BY <1>1, Zenon DEF Kept, Progress, Busy
<1>6. \A step : At(p, step) => proc[p].up
  BY <1>5, Zenon DEF At
<1> QED
  BY <1>1, <1>2, <1>3, <1>4, <1>5, <1>6, Zenon DEF TypeOK

\* A step of the first of its steps that changes neither its version nor the schema.
LEMMA GoesElsewhere ==
    ASSUME IInv, NEW p \in Processes, NEW step, At(p, step), step # "read version",
           step = "migrate" => proc[p].version = Latest,
           NEW e \in Process, e.todo = proc[p].todo, e.up = proc[p].up, e.version = proc[p].version,
           Then(p, e), schema' = schema, cut' = cut,
           files' \in [cert : File, key : File], made' \in Nat
    PROVE  IInv'
<1> DEFINE n == [e EXCEPT !.todo = <<>> \o Tail(@)]
<1>1. proc[p].todo # <<>> /\ Head(proc[p].todo) = step /\ cut \in BOOLEAN
      /\ (step # "migrate" => ~Migrates(proc[p])) /\ proc[p].up
  BY AtStep, Zenon
<1>2. n \in Process /\ n.up = e.up /\ n.version = e.version /\ ~Migrates(n)
  BY <1>1, GoesOn, Zenon
<1>3. proc' = [proc EXCEPT ![p] = n]
  BY Zenon DEF Then, Goes
<1>4. ~Unfinished(proc[p])
  BY <1>1, Zenon DEF Unfinished
<1> HIDE DEF n
<1>5. cut' \in BOOLEAN /\ (cut' \/ ~cut)
  BY <1>1
<1>6. n.up /\ n.version = Latest => proc[p].up /\ proc[p].version = Latest
  BY <1>2, Zenon
<1> QED
  BY <1>1, <1>2, <1>3, <1>4, <1>5, <1>6, Elsewhere, Zenon

\* A process that ends, or one that is given other steps, none of them a migration.
LEMMA BecomesElsewhere ==
    ASSUME IInv, NEW p \in Processes, ~Unfinished(proc[p]),
           NEW e \in Process, ~Migrates(e), e.todo # <<>> => e.up,
           e.up /\ e.version = Latest => proc[p].up /\ proc[p].version = Latest,
           proc' = [proc EXCEPT ![p] = e], schema' = schema, cut' = cut,
           files' \in [cert : File, key : File], made' \in Nat
    PROVE  IInv'
<1>1. cut \in BOOLEAN
  BY AtStep
<1>2. cut' \in BOOLEAN /\ (cut' \/ ~cut)
  BY <1>1
<1> QED
  BY <1>2, Elsewhere, Zenon

LEMMA Starts == ASSUME IInv, NEW p \in Processes, StartProcess(p) PROVE IInv'
<1> DEFINE e == [Off EXCEPT !.up = TRUE, !.todo = Opening(p)]
<1>1. Opening(p) \in Todo /\ ~MigratesNow(Opening(p))
  BY TodoApp, TodoPg, Zenon DEF Opening
<1>2. e \in Process /\ e.todo = Opening(p) /\ e.version = None
  BY <1>1, OffIsProcess DEF Process, Off
<1>3. ~Migrates(e) /\ e.version # Latest
  BY <1>1, <1>2, DataDirAssumption DEF Migrates, Latest
<1>4. proc' = [proc EXCEPT ![p] = e] /\ schema' = schema /\ files' = files /\ made' = made /\ cut' = cut
  BY DEF StartProcess
<1>5. ~Busy(p) /\ ~Unfinished(proc[p])
  BY AtStep, Zenon DEF StartProcess, Unfinished
<1>6. e.up
  BY DEF Off
<1>7. files' \in [cert : File, key : File] /\ made' \in Nat
  BY <1>4, AtStep
<1> HIDE DEF e
<1> QED
  BY <1>2, <1>3, <1>4, <1>5, <1>6, <1>7, BecomesElsewhere, Zenon

LEMMA OpensStore == ASSUME IInv, NEW p \in Processes, Opened(p) PROVE IInv'
<1>1. /\ At(p, "migrate") /\ Then(p, proc[p]) /\ proc[p].version = Latest
      /\ schema' = schema /\ cut' = cut /\ files' = files /\ made' = made
  BY Zenon DEF Opened
<1>2. proc[p] \in Process /\ files' \in [cert : File, key : File] /\ made' \in Nat
  BY <1>1, AtStep
<1> QED
  BY <1>1, <1>2, GoesElsewhere, Zenon

\* A crash, or a statement that fails, cuts off a migration that has added a column.
LEMMA CutsOffUnfinished ==
    ASSUME IInv, NEW p \in Processes, ~CutsOff(p), Unfinished(proc[p])
    PROVE  proc[p].column = 0
<1>1. At(p, "migrate") /\ proc[p].version # Latest
  BY Zenon DEF Unfinished, Migrates, MigratesNow, At, Busy
<1>2. proc[p].version \in 0 .. Latest /\ proc[p].column \in 0 .. Len(Columns) /\ Len(Columns) \in Nat
  BY <1>1, InMigration, Zenon
<1>3. ~(proc[p].column > 0 /\ proc[p].version < Latest)
  BY <1>1, Zenon DEF CutsOff
<1>4. proc[p].version # Latest
  BY <1>1, Zenon
<1> QED
  BY <1>2, <1>3, <1>4 DEF Latest

LEMMA FailsToOpen == ASSUME IInv, NEW p \in Processes, FailToOpen(p) PROVE IInv'
<1>1. /\ proc' = [proc EXCEPT ![p] = Off] /\ schema' = schema /\ files' = files /\ made' = made
      /\ \/ cut' = cut /\ cut
         \/ cut' = (cut \/ CutsOff(p))
  BY ColumnIsNew, Zenon DEF FailToOpen
<1>2. files' \in [cert : File, key : File] /\ made' \in Nat /\ cut \in BOOLEAN /\ cut' \in BOOLEAN
  BY <1>1, AtStep
<1>3. ASSUME ~cut' PROVE ~cut /\ (Unfinished(proc[p]) => proc[p].column = 0)
  BY <1>1, <1>3, CutsOffUnfinished, Zenon
<1>4. Off \in Process /\ ~Migrates(Off) /\ ~Off.up /\ Off.todo = <<>>
  BY OffIsProcess DEF Off
<1> QED
  BY <1>1, <1>2, <1>3, <1>4, Elsewhere, Zenon

LEMMA Loads == ASSUME IInv, NEW p \in Processes, Load(p) PROVE IInv'
<1> DEFINE e == [proc[p] EXCEPT !.ca = files]
<1>1. At(p, "load") /\ Then(p, e) /\ schema' = schema /\ cut' = cut
  BY Zenon DEF Load
<1>2. proc[p] \in Process /\ files \in [cert : File, key : File] /\ made \in Nat
      /\ proc[p].gen \in Nat \cup {None}
  BY AtStep
<1>3. e \in Process /\ e.todo = proc[p].todo /\ e.up = proc[p].up /\ e.version = proc[p].version
  BY <1>2 DEF Process, Authority, File
<1>4. files' \in [cert : File, key : File] /\ made' \in Nat
  BY <1>2 DEF Load, File
<1> HIDE DEF e
<1> QED
  BY <1>1, <1>3, <1>4, GoesElsewhere, Zenon

LEMMA WritesCert == ASSUME IInv, NEW p \in Processes, WriteCert(p) PROVE IInv'
<1>1. At(p, "write cert") /\ Then(p, proc[p]) /\ schema' = schema /\ cut' = cut
  BY Zenon DEF WriteCert
<1>2. proc[p] \in Process /\ files \in [cert : File, key : File] /\ made \in Nat
      /\ proc[p].gen \in Nat \cup {None}
  BY AtStep
<1>3. files' \in [cert : File, key : File] /\ made' \in Nat
  BY <1>2 DEF WriteCert, File
<1> QED
  BY <1>1, <1>2, <1>3, GoesElsewhere, Zenon

LEMMA WritesKey == ASSUME IInv, NEW p \in Processes, WriteKey(p) PROVE IInv'
<1> DEFINE e == [proc[p] EXCEPT !.ca = [cert |-> proc[p].gen, key |-> proc[p].gen]]
<1>1. At(p, "write key") /\ Then(p, e) /\ schema' = schema /\ cut' = cut
  BY Zenon DEF WriteKey
<1>2. proc[p] \in Process /\ files \in [cert : File, key : File] /\ made \in Nat
      /\ proc[p].gen \in Nat \cup {None}
  BY AtStep
<1>3. e \in Process /\ e.todo = proc[p].todo /\ e.up = proc[p].up /\ e.version = proc[p].version
  BY <1>2 DEF Process, Authority, File
<1>4. files' \in [cert : File, key : File] /\ made' \in Nat
  BY <1>2 DEF WriteKey, File
<1> HIDE DEF e
<1> QED
  BY <1>1, <1>3, <1>4, GoesElsewhere, Zenon

LEMMA GoesWithSteps ==
    ASSUME IInv, NEW p \in Processes, NEW step, At(p, step), step # "read version", step # "migrate",
           NEW steps \in Seq(Step), steps # <<>>, \A i \in 1 .. Len(steps) : steps[i] # "migrate",
           NEW e \in Process, e.todo = proc[p].todo, e.up = proc[p].up, e.version = proc[p].version,
           Goes(p, e, steps), schema' = schema, cut' = cut, files' = files, made' \in Nat
    PROVE  IInv'
<1> DEFINE n == [e EXCEPT !.todo = steps \o Tail(@)]
<1>1. proc[p].todo # <<>> /\ Head(proc[p].todo) = step /\ proc[p].todo \in Todo
      /\ ~Migrates(proc[p]) /\ proc[p].up
  BY AtStep, Zenon
<1>2. steps \o Tail(e.todo) \in Todo /\ ~MigratesNow(steps \o Tail(e.todo))
  BY <1>1, TodoAfter, Zenon
<1>3. n \in Process /\ n.up = e.up /\ n.version = e.version /\ n.todo = steps \o Tail(e.todo)
  BY <1>2 DEF Process
<1>4. proc' = [proc EXCEPT ![p] = n]
  BY Zenon DEF Goes
<1> HIDE DEF n
<1>5. ~Migrates(n) /\ ~Unfinished(proc[p])
  BY <1>1, <1>2, <1>3, Zenon DEF Migrates, Unfinished
<1>6. files' \in [cert : File, key : File]
  BY AtStep
<1> QED
  BY <1>1, <1>3, <1>4, <1>5, <1>6, BecomesElsewhere, Zenon

LEMMA Generates == ASSUME IInv, NEW p \in Processes, Generate(p) PROVE IInv'
<1> DEFINE e == [proc[p] EXCEPT !.gen = made + 1]
<1>1. /\ At(p, "load") /\ Goes(p, e, <<"write cert", "write key">>)
      /\ schema' = schema /\ cut' = cut /\ files' = files /\ made' = made + 1
  BY Zenon DEF Generate
<1>2. proc[p] \in Process /\ made \in Nat
  BY AtStep
<1>3. e \in Process /\ e.todo = proc[p].todo /\ e.up = proc[p].up /\ e.version = proc[p].version
  BY <1>2, SMTT(60) DEF Process
<1>4. made' \in Nat
  <2>1. made' = made + 1 /\ made \in Nat
    BY <1>1, <1>2, Zenon
  <2> QED
    BY <2>1
<1> HIDE DEF e
<1> QED
  BY <1>1, <1>3, <1>4, GoesWithSteps, TodoGenerate, Zenon

LEMMA Launches == ASSUME IInv, Launch PROVE IInv'
<1> DEFINE e == [proc["pg"] EXCEPT !.reuse = Live, !.served = ~Live,
                                   !.proxy = IF Live THEN None ELSE proc["pg"].ca]
<1>1. /\ At("pg", "launch") /\ Goes("pg", e, <<"spawn">>)
      /\ schema' = schema /\ cut' = cut /\ files' = files /\ made' = made
  BY Zenon DEF Launch
<1>2. "pg" \in Processes
  BY DEF Processes
<1>3. proc["pg"] \in Process /\ made \in Nat /\ proc["pg"].ca \in Authority /\ None \in Authority
  BY <1>2, AtStep DEF Authority
<1>4. Live \in BOOLEAN /\ (~Live) \in BOOLEAN
  <2>1. Live \in BOOLEAN
    BY DEF Live
  <2> QED
    BY <2>1
<1>5. e \in Process /\ e.todo = proc["pg"].todo /\ e.up = proc["pg"].up
      /\ e.version = proc["pg"].version
  BY <1>3, <1>4 DEF Process
<1>6. made' \in Nat
  BY <1>1, <1>3
<1> HIDE DEF e
<1> QED
  BY <1>1, <1>2, <1>5, <1>6, GoesWithSteps, TodoSpawn, Zenon

LEMMA Serves == ASSUME IInv, Serve PROVE IInv'
<1> DEFINE e == [proc["pg"] EXCEPT !.proxy = proc["pg"].ca, !.served = TRUE]
<1>1. /\ At("pg", "launch") /\ Then("pg", e)
      /\ schema' = schema /\ cut' = cut /\ files' = files /\ made' = made
  BY Zenon DEF Serve
<1>2. "pg" \in Processes
  BY DEF Processes
<1>3. proc["pg"] \in Process /\ made' \in Nat /\ proc["pg"].ca \in Authority
      /\ files' \in [cert : File, key : File]
  BY <1>1, <1>2, AtStep
<1>4. e \in Process /\ e.todo = proc["pg"].todo /\ e.up = proc["pg"].up
      /\ e.version = proc["pg"].version
  BY <1>3 DEF Process
<1> HIDE DEF e
<1> QED
  BY <1>1, <1>2, <1>3, <1>4, GoesElsewhere, Zenon

LEMMA Spawns == ASSUME IInv, Spawn PROVE IInv'
<1>1. /\ At("pg", "spawn") /\ Then("pg", proc["pg"])
      /\ schema' = schema /\ cut' = cut /\ files' = files /\ made' = made
  BY Zenon DEF Spawn
<1>2. "pg" \in Processes
  BY DEF Processes
<1>3. proc["pg"] \in Process /\ made' \in Nat /\ files' \in [cert : File, key : File]
  BY <1>1, <1>2, AtStep
<1> QED
  BY <1>1, <1>2, <1>3, GoesElsewhere, Zenon

LEMMA RemovesCert == ASSUME IInv, RemoveCert PROVE IInv'
<1>1. /\ At("app", "remove cert") /\ Then("app", proc["app"])
      /\ schema' = schema /\ cut' = cut /\ made' = made
      /\ files' = [files EXCEPT !.cert = None] \/ files' = files
  BY Zenon DEF RemoveCert
<1>2. "app" \in Processes
  BY DEF Processes
<1>3. proc["app"] \in Process /\ made' \in Nat /\ files \in [cert : File, key : File]
  BY <1>1, <1>2, AtStep
<1>4. files' \in [cert : File, key : File]
  BY <1>1, <1>3 DEF File
<1> QED
  BY <1>1, <1>2, <1>3, <1>4, GoesElsewhere, Zenon

LEMMA RemovesKey == ASSUME IInv, RemoveKey PROVE IInv'
<1>1. /\ At("app", "remove key") /\ Then("app", proc["app"])
      /\ schema' = schema /\ cut' = cut /\ files' = [files EXCEPT !.key = None] /\ made' = made
  BY Zenon DEF RemoveKey
<1>2. "app" \in Processes
  BY DEF Processes
<1>3. proc["app"] \in Process /\ made' \in Nat /\ files \in [cert : File, key : File]
  BY <1>1, <1>2, AtStep
<1>4. files' \in [cert : File, key : File]
  BY <1>1, <1>3 DEF File
<1> QED
  BY <1>1, <1>2, <1>3, <1>4, GoesElsewhere, Zenon

LEMMA LeavesKeyThere == ASSUME IInv, KeyStays PROVE IInv'
<1>1. /\ At("app", "remove key") /\ Then("app", proc["app"])
      /\ schema' = schema /\ cut' = cut /\ files' = files /\ made' = made
  BY Zenon DEF KeyStays
<1>2. "app" \in Processes
  BY DEF Processes
<1>3. proc["app"] \in Process /\ made' \in Nat /\ files' \in [cert : File, key : File]
  BY <1>1, <1>2, AtStep
<1> QED
  BY <1>1, <1>2, <1>3, GoesElsewhere, Zenon

LEMMA LeavesFiles == ASSUME IInv, NEW p \in Processes, Leaves(p) PROVE files' \in [cert : File, key : File]
<1>1. files \in [cert : File, key : File]
  BY AtStep
<1>2. PICK c \in LeftOf(p, "write cert", files.cert), k \in LeftOf(p, "write key", files.key) :
        files' = [cert |-> c, key |-> k]
  BY Zenon DEF Leaves
<1>3. c \in {files.cert, Partial} /\ k \in {files.key, Partial}
  BY Zenon DEF LeftOf
<1>4. files.cert \in File /\ files.key \in File /\ Partial \in File
  BY <1>1 DEF File
<1> QED
  BY <1>2, <1>3, <1>4

LEMMA FailsToWrite == ASSUME IInv, NEW p \in Processes, WriteFails(p) PROVE IInv'
<1> DEFINE e == IF proc[p].ca = None THEN Off ELSE [proc[p] EXCEPT !.todo = <<>>]
<1>1. /\ At(p, "write cert") \/ At(p, "write key")
      /\ Leaves(p) /\ schema' = schema /\ cut' = cut /\ made' = made
      /\ proc' = [proc EXCEPT ![p] = e]
  BY Zenon DEF WriteFails
<1>2. ~Unfinished(proc[p]) /\ proc[p] \in Process
  BY <1>1, AtStep, Zenon DEF Unfinished
<1>3. [proc[p] EXCEPT !.todo = <<>>] \in Process /\ [proc[p] EXCEPT !.todo = <<>>].todo = <<>>
      /\ [proc[p] EXCEPT !.todo = <<>>].up = proc[p].up
      /\ [proc[p] EXCEPT !.todo = <<>>].version = proc[p].version
  BY <1>2, TodoEmpty DEF Process
<1>4. Off \in Process /\ ~Off.up /\ Off.todo = <<>>
  BY OffIsProcess DEF Off
<1>5. e \in Process /\ e.todo = <<>> /\ (e.up => e.up = proc[p].up /\ e.version = proc[p].version)
  BY <1>3, <1>4, Zenon
<1> HIDE DEF e
<1>6. ~Migrates(e)
  BY <1>5, TodoEmpty, Zenon DEF Migrates
<1>7. files' \in [cert : File, key : File] /\ made' \in Nat
  BY <1>1, LeavesFiles, AtStep
<1> QED
  BY <1>1, <1>2, <1>5, <1>6, <1>7, BecomesElsewhere, Zenon

LEMMA Regenerates == ASSUME IInv, Regenerate PROVE IInv'
<1> DEFINE steps == IF proc["app"].proxy = None THEN <<"remove cert", "remove key", "load">>
                    ELSE <<"remove cert", "remove key", "load", "start proxy">>
           e == [proc["app"] EXCEPT !.proxy = None, !.todo = steps]
<1>1. "app" \in Processes
  BY DEF Processes
<1>2. steps \in Todo /\ ~MigratesNow(steps)
  BY TodoRemove, TodoRemoveRestart, Zenon
<1> HIDE DEF steps
<1>3. proc["app"] \in Process /\ proc \in [Processes -> Process] /\ None \in Authority
  BY <1>1, AtStep DEF Authority
<1>4. e \in Process /\ e.todo = steps /\ e.up = proc["app"].up /\ e.version = proc["app"].version
  BY <1>2, <1>3 DEF Process
<1>5. /\ proc' = [proc EXCEPT !["app"].proxy = None, !["app"].todo = steps]
      /\ schema' = schema /\ cut' = cut /\ files' = files /\ made' = made
      /\ proc["app"].up /\ ~Busy("app")
  BY Zenon DEF Regenerate, Running, steps
<1>6. proc' = [proc EXCEPT !["app"] = e]
  BY <1>1, <1>3, <1>5
<1> HIDE DEF e
<1>7. ~Migrates(e) /\ ~Unfinished(proc["app"])
  BY <1>1, <1>2, <1>4, <1>5, AtStep, Zenon DEF Migrates, Unfinished
<1>8. files' \in [cert : File, key : File] /\ made' \in Nat
  BY <1>1, <1>5, AtStep
<1> QED
  BY <1>1, <1>4, <1>5, <1>6, <1>7, <1>8, BecomesElsewhere, Zenon

LEMMA StartsProxy == ASSUME IInv, StartProxy PROVE IInv'
<1> DEFINE e == [proc["app"] EXCEPT !.proxy = proc["app"].ca, !.todo = <<>>, !.served = TRUE]
<1>1. "app" \in Processes
  BY DEF Processes
<1>2. /\ proc["app"].up /\ (~Busy("app") \/ At("app", "start proxy"))
      /\ proc' = [proc EXCEPT !["app"] = e]
      /\ schema' = schema /\ cut' = cut /\ files' = files /\ made' = made
  BY Zenon DEF StartProxy
<1>3. proc["app"] \in Process /\ proc["app"].ca \in Authority
  BY <1>1, AtStep
<1>4. e \in Process /\ e.todo = <<>> /\ e.up = proc["app"].up /\ e.version = proc["app"].version
  BY <1>3, TodoEmpty DEF Process
<1> HIDE DEF e
<1>5. ~Migrates(e) /\ ~Unfinished(proc["app"])
  BY <1>1, <1>2, <1>4, AtStep, TodoEmpty, Zenon DEF Migrates, Unfinished
<1>6. files' \in [cert : File, key : File] /\ made' \in Nat
  BY <1>1, <1>2, AtStep
<1> QED
  BY <1>1, <1>2, <1>4, <1>5, <1>6, BecomesElsewhere, Zenon

LEMMA StopsProxy == ASSUME IInv, StopProxy PROVE IInv'
<1> DEFINE e == [proc["app"] EXCEPT !.proxy = None]
<1>1. "app" \in Processes
  BY DEF Processes
<1>2. /\ proc["app"].up /\ ~Busy("app") /\ proc' = [proc EXCEPT !["app"].proxy = None]
      /\ schema' = schema /\ cut' = cut /\ files' = files /\ made' = made
  BY Zenon DEF StopProxy, Running
<1>3. proc["app"] \in Process /\ None \in Authority /\ proc' = [proc EXCEPT !["app"] = e]
  BY <1>1, <1>2, AtStep, Zenon DEF Authority
<1>4. e \in Process /\ e.todo = proc["app"].todo /\ e.up = proc["app"].up
      /\ e.version = proc["app"].version
  BY <1>3 DEF Process
<1> HIDE DEF e
<1>5. ~Migrates(e) /\ ~Unfinished(proc["app"])
  BY <1>1, <1>2, <1>4, AtStep, Zenon DEF Migrates, Unfinished
<1>6. files' \in [cert : File, key : File] /\ made' \in Nat
  BY <1>1, <1>2, AtStep
<1> QED
  BY <1>1, <1>2, <1>3, <1>4, <1>5, <1>6, BecomesElsewhere, Zenon

LEMMA Quits == ASSUME IInv, NEW p \in Processes, Quit(p) PROVE IInv'
<1>1. /\ ~Busy(p) \/ At(p, "launch") \/ At(p, "spawn")
      /\ proc' = [proc EXCEPT ![p] = Off]
      /\ schema' = schema /\ cut' = cut /\ files' = files /\ made' = made
  BY Zenon DEF Quit, Ends, Running
<1>2. ~Unfinished(proc[p])
  BY <1>1, AtStep, Zenon DEF Unfinished
<1>3. files' \in [cert : File, key : File] /\ made' \in Nat
  BY <1>1, AtStep
<1>4. Off \in Process /\ ~Migrates(Off) /\ ~Off.up /\ Off.todo = <<>>
  BY OffIsProcess DEF Off
<1> QED
  BY <1>1, <1>2, <1>3, <1>4, BecomesElsewhere, Zenon

LEMMA Crashes == ASSUME IInv, NEW p \in Processes, Crash(p) PROVE IInv'
<1>1. /\ proc' = [proc EXCEPT ![p] = Off] /\ Leaves(p) /\ schema' = schema /\ made' = made
      /\ cut' = (cut \/ CutsOff(p))
  BY Zenon DEF Crash, Ends
<1>2. files' \in [cert : File, key : File] /\ made' \in Nat /\ cut \in BOOLEAN /\ cut' \in BOOLEAN
  BY <1>1, LeavesFiles, AtStep
<1>3. ASSUME ~cut' PROVE ~cut /\ (Unfinished(proc[p]) => proc[p].column = 0)
  BY <1>1, <1>3, CutsOffUnfinished, Zenon
<1>4. Off \in Process /\ ~Migrates(Off) /\ ~Off.up /\ Off.todo = <<>>
  BY OffIsProcess DEF Off
<1> QED
  BY <1>1, <1>2, <1>3, <1>4, Elsewhere, Zenon
-----------------------------------------------------------------------------
LEMMA Begins == Init => IInv
<1> SUFFICES ASSUME DirInit PROVE IInv
  BY DEF Init
<1>1. PICK v \in {0, 2, Latest} :
        schema = [version |-> v, columns |-> IF v = Latest THEN Range(Columns) ELSE {}]
  BY Zenon DEF DirInit
<1>2. proc = [p \in Processes |-> Off] /\ made = 0 /\ cut = FALSE
      /\ files \in {[cert |-> None, key |-> None], [cert |-> 0, key |-> 0]}
  BY DEF DirInit
<1>3. schema \in [version : 0 .. Latest, columns : SUBSET Range(Columns)]
      /\ schema.version = v /\ schema.columns = IF v = Latest THEN Range(Columns) ELSE {}
  BY <1>1 DEF Latest
<1>4. files \in [cert : File, key : File]
  BY <1>2 DEF File
<1>5. \A p \in Processes : proc[p] = Off
  BY <1>2
<1>6. TypeOK
  BY <1>2, <1>3, <1>4, OffIsProcess DEF TypeOK
<1>7. ~Migrates(Off) /\ ~Off.up /\ Off.todo = <<>>
  BY OffIsProcess DEF Off
<1>8. \A p \in Processes : Progress(proc[p]) /\ ~Unfinished(proc[p]) /\ ~proc[p].up
  BY <1>5, <1>7, Zenon DEF Progress, Unfinished
<1>9. Kept
  BY <1>3, <1>8, Zenon DEF Kept, Undisturbed
<1> QED
  BY <1>6, <1>9 DEF IInv

LEMMA StaysPut ==
    ASSUME IInv, UNCHANGED <<schema, files, made, proc, cut>>
    PROVE  IInv'
  BY DEF IInv, TypeOK, Kept, Progress, Undisturbed, Unfinished, Added, Migrates

LEMMA Keeps == IInv /\ [Next]_vars => IInv'
<1> SUFFICES ASSUME IInv, [Next]_vars PROVE IInv'
  OBVIOUS
<1>1. ASSUME NEW p \in Processes,
             \/ KeepLog(StartProcess(p)) \/ KeepLog(ReadVersion(p)) \/ KeepLog(AddColumn(p))
             \/ KeepLog(SetVersion(p)) \/ KeepLog(Opened(p)) \/ KeepLog(FailToOpen(p))
      PROVE  IInv'
  BY <1>1, Starts, ReadsVersion, AddsColumn, SetsVersion, OpensStore, FailsToOpen, Zenon DEF KeepLog
<1>2. ASSUME NEW p \in Processes,
             \/ KeepLog(Load(p)) \/ KeepLog(Generate(p)) \/ KeepLog(WriteCert(p))
             \/ KeepLog(WriteKey(p)) \/ KeepLog(WriteFails(p))
      PROVE  IInv'
  BY <1>2, Loads, Generates, WritesCert, WritesKey, FailsToWrite, Zenon DEF KeepLog
<1>3. ASSUME NEW p \in Processes, QuitWithLogs(p) \/ CrashWithLogs(p) PROVE IInv'
  BY <1>3, Quits, Crashes, Zenon DEF QuitWithLogs, CrashWithLogs
<1>4. ASSUME NEW p \in Processes, RecordLog(p) \/ WriteFailsInDb(p) PROVE IInv'
  BY <1>4, StaysPut DEF RecordLog, WriteFailsInDb, dirButBudget
<1>5. ASSUME NEW p \in Processes,
             KeepDir(Log!Begin(p)) \/ KeepDir(Log!Execute(p)) \/ KeepDir(Log!Commit(p))
      PROVE  IInv'
  BY <1>5, StaysPut DEF KeepDir, dirVars
<1>6. ASSUME \/ KeepLog(Regenerate) \/ KeepLog(RemoveCert) \/ KeepLog(RemoveKey)
             \/ KeepLog(KeyStays) \/ KeepLog(StartProxy) \/ KeepLog(StopProxy)
             \/ KeepLog(Serve) \/ KeepLog(Launch) \/ KeepLog(Spawn)
      PROVE  IInv'
  BY <1>6, Regenerates, RemovesCert, RemovesKey, LeavesKeyThere, StartsProxy, StopsProxy, Serves,
     Launches, Spawns, Zenon DEF KeepLog
<1>7. ASSUME AppPurges \/ AppClears \/ KeepDir(Log!Tick) PROVE IInv'
  BY <1>7, StaysPut DEF AppPurges, AppClears, KeepDir, dirVars
<1>8. CASE UNCHANGED vars
  BY <1>8, StaysPut DEF vars, dirVars
<1> QED
  BY <1>1, <1>2, <1>3, <1>4, <1>5, <1>6, <1>7, <1>8, Zenon DEF Next

\* The store opens with every column in place, whatever the columns are and however often the
\* two programs start, end and die; and it fails to open only after a migration that was cut
\* off or shared (schema.rs, Store::open).
THEOREM SchemaIsReady == Spec => []SchemaReady
<1>1. IInv => SchemaReady
  <2> SUFFICES ASSUME IInv, NEW p \in Processes
               PROVE  /\ MigrationFails(p) => cut
                      /\ proc[p].up /\ proc[p].version = Latest =>
                            schema.columns = Range(Columns) /\ (cut \/ schema.version = Latest)
    BY Zenon DEF SchemaReady
  <2>1. Kept
    BY DEF IInv
  <2>2. MigrationFails(p) => cut
    BY ColumnIsNew, Zenon
  <2>3. proc[p].up /\ proc[p].version = Latest =>
           schema.columns = Range(Columns) /\ (cut \/ schema.version = Latest)
    BY <2>1, Zenon DEF Kept, Progress, Undisturbed
  <2> QED
    BY <2>2, <2>3
<1> QED
  BY <1>1, Begins, Keeps, PTL DEF Spec
-----------------------------------------------------------------------------
\* The authority.  A process is on a path: what its next step is followed by is known.

Done == "done"
Here(todo) == IF todo = <<>> THEN Done ELSE Head(todo)
After(todo, i) == IF i = Len(todo) THEN Done ELSE todo[i + 1]

\* What a step is followed by.
Leads(a, b) ==
    \/ a = "read version" /\ b = "migrate"
    \/ a = "migrate" /\ b \in {"load", "launch"}
    \/ a \in {"load", "write key"} /\ b \in {"read version", "start proxy", Done}
    \/ a = "write cert" /\ b = "write key"
    \/ a = "remove cert" /\ b = "remove key"
    \/ a = "remove key" /\ b = "load"
    \/ a \in {"start proxy", "launch", "spawn"} /\ b = Done
Path(todo) == \A i \in 1 .. Len(todo) : Leads(todo[i], After(todo, i))

LEMMA PathTail ==
    ASSUME NEW todo \in Seq(Step), Path(todo), todo # <<>>
    PROVE  /\ Tail(todo) \in Seq(Step) /\ Path(Tail(todo))
           /\ Leads(Here(todo), Here(Tail(todo)))
<1> DEFINE rest == Tail(todo)
<1>1. rest \in Seq(Step) /\ Len(rest) \in Nat /\ Len(todo) = Len(rest) + 1
  OBVIOUS
<1>2. \A i \in 1 .. Len(rest) : rest[i] = todo[i + 1]
  OBVIOUS
<1>3. Head(todo) = todo[1] /\ (rest # <<>> => Head(rest) = rest[1]) /\ (rest = <<>> <=> Len(rest) = 0)
  <2>1. Head(todo) = todo[1]
    OBVIOUS
  <2> HIDE DEF rest
  <2>2. rest # <<>> => Head(rest) = rest[1]
    BY <1>1
  <2>3. rest = <<>> <=> Len(rest) = 0
    BY <1>1
  <2> QED
    BY <2>1, <2>2, <2>3, Zenon
<1> HIDE DEF rest
<1>4. ASSUME NEW i \in 1 .. Len(rest) PROVE Leads(rest[i], After(rest, i))
  <2>1. i + 1 \in 1 .. Len(todo) /\ (i + 1 = Len(todo) <=> i = Len(rest))
    BY <1>1
  <2>2. i # Len(rest) => i + 1 \in 1 .. Len(rest)
    BY <1>1
  <2>3. After(rest, i) = After(todo, i + 1)
    BY <1>2, <2>1, <2>2, Zenon DEF After
  <2>4. Leads(todo[i + 1], After(todo, i + 1))
    BY <2>1, Zenon DEF Path
  <2> QED
    BY <1>2, <2>3, <2>4, Zenon
<1>5. Here(todo) = todo[1]
  BY <1>3, Zenon DEF Here
<1>6. Here(rest) = After(todo, 1) /\ 1 \in 1 .. Len(todo)
  <2>1. 1 \in 1 .. Len(todo) /\ (1 = Len(todo) <=> Len(rest) = 0)
    BY <1>1
  <2>2. Len(rest) # 0 => 1 \in 1 .. Len(rest)
    BY <1>1
  <2>3. rest # <<>> => Head(rest) = todo[1 + 1]
    BY <1>2, <1>3, <2>2, Zenon
  <2> QED
    BY <1>3, <2>1, <2>3, Zenon DEF Here, After
<1>7. Leads(todo[1], After(todo, 1))
  BY <1>6, Zenon DEF Path
<1> QED
  BY <1>1, <1>4, <1>5, <1>6, <1>7, Zenon DEF Path, rest

LEMMA PathBefore ==
    ASSUME NEW a \in Step, NEW rest \in Seq(Step), Path(rest), Leads(a, Here(rest))
    PROVE  <<a>> \o rest \in Seq(Step) /\ Path(<<a>> \o rest) /\ Here(<<a>> \o rest) = a
<1> DEFINE t == <<a>> \o rest
<1>1. t \in Seq(Step) /\ Len(t) = Len(rest) + 1 /\ t # <<>> /\ Head(t) = a /\ t[1] = a
      /\ \A i \in 2 .. Len(t) : t[i] = rest[i - 1]
  OBVIOUS
<1> HIDE DEF t
<1>2. After(t, 1) = Here(rest) /\ Len(rest) \in Nat
  BY <1>1 DEF After, Here
<1>3. ASSUME NEW i \in 1 .. Len(t), i # 1 PROVE Leads(t[i], After(t, i))
  <2>1. i - 1 \in 1 .. Len(rest) /\ t[i] = rest[i - 1] /\ After(t, i) = After(rest, i - 1)
    BY <1>1, <1>2, <1>3, SMTT(60) DEF After
  <2> QED
    BY <2>1, Zenon DEF Path
<1>4. Path(t)
  <2>1. Leads(t[1], After(t, 1))
    BY <1>1, <1>2, Zenon
  <2> QED
    BY <1>3, <2>1, Zenon DEF Path
<1>5. Here(t) = a
  BY <1>1, Zenon DEF Here
<1> QED
  BY <1>1, <1>4, <1>5, Zenon DEF t

LEMMA PathEmpty == <<>> \in Seq(Step) /\ Path(<<>>) /\ Here(<<>>) = Done
  BY DEF Path, Here


LEMMA PathBeforeTwo ==
    ASSUME NEW a \in Step, NEW b \in Step, NEW rest \in Seq(Step), Path(rest),
           Leads(a, b), Leads(b, Here(rest))
    PROVE  Path(<<a, b>> \o rest) /\ Here(<<a, b>> \o rest) = a
<1> DEFINE t == <<a, b>> \o rest
<1>1. t \in Seq(Step) /\ Len(t) = Len(rest) + 2 /\ t # <<>> /\ Head(t) = a /\ t[1] = a /\ t[2] = b
      /\ \A i \in 3 .. Len(t) : t[i] = rest[i - 2]
  OBVIOUS
<1> HIDE DEF t
<1>2. After(t, 1) = b /\ After(t, 2) = Here(rest) /\ Len(rest) \in Nat
  BY <1>1 DEF After, Here
<1>3. ASSUME NEW i \in 1 .. Len(t), i # 1, i # 2 PROVE Leads(t[i], After(t, i))
  <2>1. i - 2 \in 1 .. Len(rest) /\ t[i] = rest[i - 2] /\ After(t, i) = After(rest, i - 2)
    BY <1>1, <1>2, <1>3 DEF After
  <2> QED
    BY <2>1, Zenon DEF Path
<1>4. Leads(t[1], After(t, 1)) /\ Leads(t[2], After(t, 2))
  BY <1>1, <1>2, Zenon
<1>5. Path(t)
  BY <1>3, <1>4, Zenon DEF Path
<1>6. Here(t) = a
  BY <1>1, Zenon DEF Here
<1> QED
  BY <1>5, <1>6, Zenon DEF t

LEMMA PathThree ==
    ASSUME NEW a \in Step, NEW b \in Step, NEW c \in Step,
           Leads(a, b), Leads(b, c), Leads(c, Done)
    PROVE  Path(<<a, b, c>>) /\ Here(<<a, b, c>>) = a
  BY DEF Path, After, Here

LEMMA PathFour ==
    ASSUME NEW a \in Step, NEW b \in Step, NEW c \in Step, NEW d \in Step,
           Leads(a, b), Leads(b, c), Leads(c, d), Leads(d, Done)
    PROVE  Path(<<a, b, c, d>>) /\ Here(<<a, b, c, d>>) = a
  BY DEF Path, After, Here

LEMMA StepNames ==
    /\ "read version" \in Step /\ "migrate" \in Step /\ "load" \in Step /\ "write cert" \in Step
    /\ "write key" \in Step /\ "launch" \in Step /\ "spawn" \in Step /\ "remove cert" \in Step
    /\ "remove key" \in Step /\ "start proxy" \in Step /\ Done \notin Step
  BY DEF Step, Done

LEMMA StepLeads ==
    /\ Leads("read version", "migrate") /\ Leads("migrate", "load") /\ Leads("migrate", "launch")
    /\ Leads("load", "read version") /\ Leads("load", "start proxy") /\ Leads("load", Done)
    /\ Leads("launch", Done) /\ Leads("spawn", Done) /\ Leads("start proxy", Done)
    /\ Leads("write cert", "write key")
    /\ Leads("remove cert", "remove key") /\ Leads("remove key", "load")
  BY Zenon DEF Leads

LEMMA LedTo ==
    /\ \A b : Leads("read version", b) => b = "migrate"
    /\ \A b : Leads("migrate", b) => b = "load" \/ b = "launch"
    /\ \A b : Leads("load", b) => b = "read version" \/ b = "start proxy" \/ b = Done
    /\ \A b : Leads("load", b) => Leads("write key", b)
    /\ \A b : Leads("write key", b) => b = "read version" \/ b = "start proxy" \/ b = Done
    /\ \A b : Leads("write cert", b) => b = "write key"
    /\ \A b : Leads("remove cert", b) => b = "remove key"
    /\ \A b : Leads("remove key", b) => b = "load"
    /\ \A b : Leads("launch", b) => b = Done
    /\ \A b : Leads("spawn", b) => b = Done
  BY Zenon DEF Leads

LEMMA Openings ==
    \A p : /\ Path(Opening(p))
           /\ Here(Opening(p)) = "read version" \/ Here(Opening(p)) = "load"
           /\ p # "app" => Here(Opening(p)) = "load"
<1>1. /\ Path(<<"read version", "migrate", "load">>)
      /\ Here(<<"read version", "migrate", "load">>) = "read version"
  BY StepNames, StepLeads, PathThree, Zenon
<1> DEFINE a == "load"  b == "read version"  c == "migrate"  d == "launch"
<1>2. /\ a \in Step /\ b \in Step /\ c \in Step /\ d \in Step
      /\ Leads(a, b) /\ Leads(b, c) /\ Leads(c, d) /\ Leads(d, Done)
  BY StepNames, StepLeads, Zenon
<1> HIDE DEF a, b, c, d
<1>3. Path(<<a, b, c, d>>) /\ Here(<<a, b, c, d>>) = a
  BY <1>2, PathFour, ZenonT(60)
<1> QED
  BY <1>1, <1>3, Zenon DEF Opening, a, b, c, d

LEMMA Regenerations ==
    /\ Path(<<"remove cert", "remove key", "load">>)
    /\ Path(<<"remove cert", "remove key", "load", "start proxy">>)
    /\ Here(<<"remove cert", "remove key", "load">>) = "remove cert"
    /\ Here(<<"remove cert", "remove key", "load", "start proxy">>) = "remove cert"
<1>1. /\ Path(<<"remove cert", "remove key", "load">>)
      /\ Here(<<"remove cert", "remove key", "load">>) = "remove cert"
  BY StepNames, StepLeads, PathThree, Zenon
<1> DEFINE a == "remove cert"  b == "remove key"  c == "load"  d == "start proxy"
<1>2. /\ a \in Step /\ b \in Step /\ c \in Step /\ d \in Step
      /\ Leads(a, b) /\ Leads(b, c) /\ Leads(c, d) /\ Leads(d, Done)
  BY StepNames, StepLeads, Zenon
<1> HIDE DEF a, b, c, d
<1>3. Path(<<a, b, c, d>>) /\ Here(<<a, b, c, d>>) = a
  BY <1>2, PathFour, Zenon
<1> QED
  BY <1>1, <1>3, Zenon DEF a, b, c, d

-----------------------------------------------------------------------------
Writing(e) == Here(e.todo) = "write cert" \/ Here(e.todo) = "write key"
Unsettled(e) == Writing(e) \/ Here(e.todo) = "remove key"

\* What signs for the application is the authority it has in memory, which it relies on to be
\* the one on disk.
Signs(p, e) == p = "app" /\ e.proxy # None => e.up /\ Here(e.todo) = Done /\ e.proxy = e.ca
Relies(p, e) == p = "app" /\ e.up /\ (Here(e.todo) = Done \/ Here(e.todo) = "start proxy")

\* What the process knows of the files.
Agrees(p, e, f) ==
    /\ e.ca # None => e.ca.cert = e.ca.key
    /\ Writing(e) => ~Readable(f.key)
    /\ Here(e.todo) = "write key" => f.cert = e.gen
    /\ Here(e.todo) = "remove key" /\ Readable(f.key) => f.cert = None \/ f.cert = f.key
    /\ Relies(p, e) => e.ca = f /\ Readable(f.cert) /\ Readable(f.key)

Controlled ==
    /\ disturbed \in BOOLEAN
    /\ \A p \in Processes : /\ Path(proc[p].todo) /\ Signs(p, proc[p])
                            /\ Writing(proc[p]) => proc[p].gen \in Nat

\* The files are of one authority, or one process is about to make them so.
Matched ==
    /\ \A p \in Processes : Agrees(p, proc[p], files)
    /\ Readable(files.key) =>
          files.cert = files.key \/ \E p \in Processes : Here(proc[p].todo) = "remove key"
    /\ \A p, q \in Processes : Unsettled(proc[p]) /\ Unsettled(proc[q]) => p = q

AuthorityInv == Controlled /\ (disturbed \/ Matched)

LEMMA Where ==
    ASSUME IInv, NEW p \in Processes
    PROVE  /\ proc[p] \in Process /\ proc[p].todo \in Seq(Step)
           /\ \A step : At(p, step) => Here(proc[p].todo) = step /\ proc[p].todo # <<>> /\ proc[p].up
           /\ Busy(p) <=> Here(proc[p].todo) # Done
           /\ ~proc[p].up => Here(proc[p].todo) = Done
<1>1. /\ proc[p] \in Process /\ proc[p].todo \in Todo
      /\ \A step : At(p, step) => proc[p].todo # <<>> /\ Head(proc[p].todo) = step /\ proc[p].up
      /\ Busy(p) => proc[p].up
  BY AtStep, Zenon
<1>2. proc[p].todo \in Seq(Step)
  BY <1>1, Zenon DEF Todo
<1>3. proc[p].todo # <<>> => Head(proc[p].todo) \in Step
  BY <1>2
<1>4. Busy(p) <=> Here(proc[p].todo) # Done
  BY <1>3, StepNames, Zenon DEF Busy, Here
<1> QED
  BY <1>1, <1>2, <1>4, Zenon DEF Here

\* A process that goes on with its next step.
LEMMA Advances ==
    ASSUME NEW e \in Process, Path(e.todo), e.todo # <<>>
    PROVE  LET n == [e EXCEPT !.todo = <<>> \o Tail(@)] IN
           /\ Path(n.todo) /\ Leads(Here(e.todo), Here(n.todo))
           /\ n.up = e.up /\ n.ca = e.ca /\ n.proxy = e.proxy /\ n.gen = e.gen /\ n.reuse = e.reuse
<1> DEFINE n == [e EXCEPT !.todo = <<>> \o Tail(@)]
<1>1. e.todo \in Todo /\ n.todo = Tail(e.todo)
  BY GoesOn, Zenon DEF Process
<1>2. n.up = e.up /\ n.ca = e.ca /\ n.proxy = e.proxy /\ n.gen = e.gen /\ n.reuse = e.reuse
  BY DEF Process
<1> HIDE DEF n
<1>3. Path(n.todo) /\ Leads(Here(e.todo), Here(n.todo))
  <2>1. e.todo \in Seq(Step)
    BY <1>1, Zenon DEF Todo
  <2> QED
    BY <1>1, <2>1, PathTail, Zenon
<1> QED
  BY <1>2, <1>3, Zenon DEF n

LEMMA TwoProcesses ==
    /\ "app" \in Processes /\ "pg" \in Processes
    /\ \A p \in Processes : \A q, r \in Processes \ {p} : q = r
    /\ \A p \in Processes : p = "app" \/ p = "pg"
  BY Zenon DEF Processes

\* Only one process changes.
LEMMA OneMoves ==
    ASSUME IInv, AuthorityInv, NEW p \in Processes, NEW e, proc' = [proc EXCEPT ![p] = e],
           Path(e.todo), Signs(p, e), Writing(e) => e.gen \in Nat, disturbed' \in BOOLEAN,
           \/ disturbed'
           \/ /\ Agrees(p, e, files')
              /\ \A q \in Processes \ {p} :
                    Agrees(q, proc[q], files') /\ (Unsettled(e) => ~Unsettled(proc[q]))
              /\ Readable(files'.key) => \/ files'.cert = files'.key \/ Here(e.todo) = "remove key"
                                         \/ \E q \in Processes \ {p} : Here(proc[q].todo) = "remove key"
    PROVE  AuthorityInv'
<1>1. proc'[p] = e /\ \A q \in Processes \ {p} : proc'[q] = proc[q]
  BY DEF IInv, TypeOK
<1>2. Controlled'
  <2>1. \A q \in Processes : /\ Path(proc'[q].todo) /\ Signs(q, proc'[q])
                             /\ Writing(proc'[q]) => proc'[q].gen \in Nat
    <3> SUFFICES ASSUME NEW q \in Processes
                 PROVE  /\ Path(proc'[q].todo) /\ Signs(q, proc'[q])
                        /\ Writing(proc'[q]) => proc'[q].gen \in Nat
      BY Zenon
    <3>1. CASE q = p
      BY <1>1, <3>1, Zenon
    <3>2. CASE q # p
      BY <1>1, <3>2, ZenonT(60) DEF AuthorityInv, Controlled
    <3> QED
      BY <3>1, <3>2, Zenon
  <2> QED
    BY <2>1 DEF Controlled, Path, After, Leads, Signs, Writing, Here, Done
<1>3. ASSUME ~disturbed' PROVE Matched'
  <2>1. \A q \in Processes : Agrees(q, proc'[q], files')
    BY <1>1, <1>3, Zenon
  <2>2. Readable(files'.key) =>
           files'.cert = files'.key \/ \E q \in Processes : Here(proc'[q].todo) = "remove key"
    BY <1>1, <1>3, Zenon
  <2>3. \A q, r \in Processes : Unsettled(proc'[q]) /\ Unsettled(proc'[r]) => q = r
    <3> SUFFICES ASSUME NEW q \in Processes, NEW r \in Processes,
                        Unsettled(proc'[q]), Unsettled(proc'[r])
                 PROVE  q = r
      BY Zenon
    <3>1. CASE q # p /\ r # p
      BY <3>1, TwoProcesses, Zenon
    <3>2. CASE q = p
      BY <1>1, <1>3, <3>2, Zenon
    <3>3. CASE r = p
      BY <1>1, <1>3, <3>3, Zenon
    <3> QED
      BY <3>1, <3>2, <3>3, Zenon
  <2> QED
    BY <2>1, <2>2, <2>3 DEF Matched, Agrees, Relies, Writing, Unsettled, Here, Done, Readable
<1> QED
  BY <1>2, <1>3, Zenon DEF AuthorityInv

\* A step that leaves the files alone.
LEMMA MovesQuietly ==
    ASSUME IInv, AuthorityInv, NEW p \in Processes, NEW e, proc' = [proc EXCEPT ![p] = e],
           Path(e.todo), Signs(p, e), Writing(e) => e.gen \in Nat,
           files' = files, disturbed' = disturbed,
           ~disturbed => Agrees(p, e, files),
           Unsettled(e) => Unsettled(proc[p]),
           Here(proc[p].todo) = "remove key" => Here(e.todo) = "remove key"
    PROVE  AuthorityInv'
<1>1. disturbed' \in BOOLEAN
  BY Zenon DEF AuthorityInv, Controlled
<1>2. ASSUME ~disturbed' PROVE
           /\ Agrees(p, e, files')
           /\ \A q \in Processes \ {p} :
                 Agrees(q, proc[q], files') /\ (Unsettled(e) => ~Unsettled(proc[q]))
           /\ Readable(files'.key) => \/ files'.cert = files'.key \/ Here(e.todo) = "remove key"
                                      \/ \E q \in Processes \ {p} : Here(proc[q].todo) = "remove key"
  <2>1. Matched /\ ~disturbed
    BY <1>2, Zenon DEF AuthorityInv
  <2>2. Agrees(p, e, files')
    BY <2>1, Zenon
  <2>3. \A q \in Processes \ {p} :
                 Agrees(q, proc[q], files') /\ (Unsettled(e) => ~Unsettled(proc[q]))
    BY <2>1, Zenon DEF Matched
  <2>4. Readable(files'.key) => \/ files'.cert = files'.key \/ Here(e.todo) = "remove key"
                                \/ \E q \in Processes \ {p} : Here(proc[q].todo) = "remove key"
    <3>1. Readable(files.key) =>
             files.cert = files.key \/ \E q \in Processes : Here(proc[q].todo) = "remove key"
      BY <2>1, Zenon DEF Matched
    <3>2. ASSUME NEW q \in Processes, Here(proc[q].todo) = "remove key"
          PROVE  q # p \/ Here(e.todo) = "remove key"
      <4> DEFINE removes(r) == Here(proc[r].todo) = "remove key"
      <4>1. removes(q) /\ (removes(p) => Here(e.todo) = "remove key")
        BY <3>2, Zenon
      <4> HIDE DEF removes
      <4> QED
        BY <4>1
    <3> QED
      BY <3>1, <3>2, Zenon
  <2> QED
    BY <2>2, <2>3, <2>4, Zenon
<1> QED
  BY <1>1, <1>2, OneMoves, Zenon

\* What is known of the process before it moves.
LEMMA Before ==
    ASSUME AuthorityInv, NEW p \in Processes
    PROVE  /\ Path(proc[p].todo) /\ Signs(p, proc[p]) /\ disturbed \in BOOLEAN
           /\ Writing(proc[p]) => proc[p].gen \in Nat
           /\ ~disturbed => Matched /\ Agrees(p, proc[p], files)
  BY Zenon DEF AuthorityInv, Controlled, Matched

LEMMA Distinct ==
    /\ "app" # "pg" /\ "write cert" # "write key" /\ "write cert" # "remove key"
    /\ "write key" # "remove key"
    /\ \A step \in {"write cert", "write key", "remove key"} :
          step \notin {"read version", "migrate", "load", "launch", "spawn", "remove cert",
                       "start proxy", Done}
    /\ \A step \in {"start proxy", Done} :
          step \notin {"read version", "migrate", "load", "launch", "spawn", "remove cert"}
    /\ "spawn" \notin {"read version", "migrate", "load", "launch", "remove cert", "start proxy", Done}
    /\ "launch" # Done /\ "load" # Done /\ "migrate" # Done /\ "read version" # Done
    /\ "remove cert" # Done /\ "start proxy" # Done
  BY Zenon DEF Done

\* A process that ends, or is not running.
LEMMA OffIsQuiet ==
    \A p : /\ Path(Off.todo) /\ Signs(p, Off) /\ ~Writing(Off) /\ ~Unsettled(Off)
           /\ \A f : Agrees(p, Off, f)
<1>1. Off.todo = <<>> /\ ~Off.up /\ Off.ca = None /\ Off.proxy = None
  BY DEF Off
<1>2. Path(Off.todo) /\ Here(Off.todo) = Done
  BY <1>1, PathEmpty, Zenon
<1>3. ~Writing(Off) /\ ~Unsettled(Off)
  BY <1>2, Distinct, Zenon DEF Writing, Unsettled
<1> QED
  BY <1>1, <1>2, <1>3, Distinct, Zenon DEF Signs, Agrees, Relies

LEMMA EndsQuietly ==
    ASSUME IInv, AuthorityInv, NEW p \in Processes, proc' = [proc EXCEPT ![p] = Off],
           files' = files, disturbed' = disturbed, Here(proc[p].todo) # "remove key"
    PROVE  AuthorityInv'
  BY OffIsQuiet, MovesQuietly, Zenon

LEMMA StartMatches ==
    ASSUME IInv, AuthorityInv, NEW p \in Processes, StartProcess(p)
    PROVE  AuthorityInv'
<1> DEFINE e == [Off EXCEPT !.up = TRUE, !.todo = Opening(p)]
<1>1. e.todo = Opening(p) /\ e.ca = None /\ e.proxy = None
  BY DEF Off
<1>2. /\ proc' = [proc EXCEPT ![p] = e] /\ files' = files /\ disturbed' = disturbed
      /\ ~proc[p].up
  BY Zenon DEF StartProcess
<1> HIDE DEF e
<1>3. Path(e.todo) /\ (Here(e.todo) = "read version" \/ Here(e.todo) = "load")
  BY <1>1, Openings, Zenon
<1>4. ~Unsettled(e) /\ ~Writing(e) /\ Here(e.todo) # "spawn"
  BY <1>3, Distinct, Zenon DEF Unsettled, Writing
<1>5. Signs(p, e)
  BY <1>1, <1>4, Zenon DEF Signs
<1>6. Agrees(p, e, files)
  BY <1>1, <1>3, <1>4, Distinct, Zenon DEF Agrees, Relies, Unsettled, Writing
<1>7. Here(proc[p].todo) # "remove key"
  BY <1>2, Where, Distinct, Zenon
<1> QED
  BY <1>2, <1>3, <1>4, <1>5, <1>6, <1>7, Before, MovesQuietly, Zenon

\* A process that stays at its step, whatever it does to the schema.
LEMMA StaysAtStep ==
    ASSUME IInv, AuthorityInv, NEW p \in Processes, NEW e, proc' = [proc EXCEPT ![p] = e],
           e.todo = proc[p].todo, e.up = proc[p].up, e.ca = proc[p].ca, e.proxy = proc[p].proxy,
           e.gen = proc[p].gen, e.reuse = proc[p].reuse,
           files' = files, disturbed' = disturbed
    PROVE  AuthorityInv'
<1>1. Path(e.todo) /\ Signs(p, e) /\ (Writing(e) => e.gen \in Nat)
  BY Before, Zenon DEF Signs, Writing
<1>2. ~disturbed => Agrees(p, e, files)
  BY Before, Zenon DEF Agrees, Relies, Writing
<1>3. Unsettled(e) => Unsettled(proc[p])
  BY Zenon DEF Unsettled, Writing
<1>4. Here(proc[p].todo) = "remove key" => Here(e.todo) = "remove key"
  BY Zenon
<1> QED
  BY <1>1, <1>2, <1>3, <1>4, MovesQuietly, Zenon

LEMMA AddColumnMatches ==
    ASSUME IInv, AuthorityInv, NEW p \in Processes, AddColumn(p)
    PROVE  AuthorityInv'
<1> DEFINE e == [proc[p] EXCEPT !.column = @ + 1]
<1>1. proc[p] \in Process /\ proc \in [Processes -> Process]
  BY AtStep, Zenon
<1>2. proc' = [proc EXCEPT ![p] = e] /\ files' = files /\ disturbed' = disturbed
  BY <1>1 DEF AddColumn
<1>3. /\ e.todo = proc[p].todo /\ e.up = proc[p].up /\ e.ca = proc[p].ca /\ e.proxy = proc[p].proxy
      /\ e.gen = proc[p].gen /\ e.reuse = proc[p].reuse
  BY <1>1 DEF Process
<1> HIDE DEF e
<1> QED
  BY <1>2, <1>3, StaysAtStep, Zenon

LEMMA SetVersionMatches ==
    ASSUME IInv, AuthorityInv, NEW p \in Processes, SetVersion(p)
    PROVE  AuthorityInv'
<1> DEFINE e == [proc[p] EXCEPT !.version = @ + 1]
<1>1. proc[p] \in Process /\ proc \in [Processes -> Process]
  BY AtStep, Zenon
<1>2. proc' = [proc EXCEPT ![p] = e] /\ files' = files /\ disturbed' = disturbed
  BY <1>1 DEF SetVersion
<1>3. /\ e.todo = proc[p].todo /\ e.up = proc[p].up /\ e.ca = proc[p].ca /\ e.proxy = proc[p].proxy
      /\ e.gen = proc[p].gen /\ e.reuse = proc[p].reuse
  BY <1>1 DEF Process
<1> HIDE DEF e
<1> QED
  BY <1>2, <1>3, StaysAtStep, Zenon

\* A step after which the process neither works on the files nor relies on others.
LEMMA ContinuesQuietly ==
    ASSUME IInv, AuthorityInv, NEW p \in Processes, NEW step, At(p, step),
           step \in {"read version", "migrate"},
           NEW e \in Process, Then(p, e), e.todo = proc[p].todo,
           e.up = proc[p].up, e.ca = proc[p].ca, e.proxy = proc[p].proxy,
           e.gen = proc[p].gen, e.reuse = proc[p].reuse,
           files' = files, disturbed' = disturbed
    PROVE  AuthorityInv'
<1> DEFINE n == [e EXCEPT !.todo = <<>> \o Tail(@)]
<1>1. Here(proc[p].todo) = step /\ proc[p].todo # <<>>
  BY Where, Zenon
<1>2. Path(proc[p].todo) /\ Signs(p, proc[p])
  BY Before, Zenon
<1>3. /\ Path(n.todo) /\ Leads(step, Here(n.todo))
      /\ n.up = proc[p].up /\ n.ca = proc[p].ca /\ n.proxy = proc[p].proxy /\ n.gen = proc[p].gen
      /\ n.reuse = proc[p].reuse
  BY <1>1, <1>2, Advances, Zenon
<1>4. proc' = [proc EXCEPT ![p] = n]
  BY Zenon DEF Then, Goes
<1> HIDE DEF n
<1>5. Here(n.todo) \in {"migrate", "load", "launch"}
  BY <1>3, LedTo, Zenon
<1>6. ~Writing(n) /\ ~Unsettled(n) /\ Here(n.todo) # "spawn" /\ Here(n.todo) # "write key"
      /\ Here(n.todo) # "remove key" /\ Here(n.todo) # Done /\ Here(n.todo) # "start proxy"
  BY <1>5, Distinct, Zenon DEF Writing, Unsettled
<1>7. step # "remove key" /\ step # Done
  BY Distinct, Zenon
<1>8. Signs(p, n)
  BY <1>1, <1>2, <1>3, <1>6, <1>7, Zenon DEF Signs
<1>9. ~disturbed => Agrees(p, n, files)
  <2>1. ~disturbed => Agrees(p, proc[p], files)
    BY Before, Zenon
  <2>2. Relies(p, n) => Relies(p, proc[p])
    BY <1>1, <1>3, <1>6, <1>7, Zenon DEF Relies
  <2> QED
    BY <1>3, <1>6, <2>1, <2>2, Zenon DEF Agrees
<1> QED
  BY <1>1, <1>3, <1>4, <1>6, <1>7, <1>8, <1>9, MovesQuietly, Zenon

LEMMA ReadVersionMatches ==
    ASSUME IInv, AuthorityInv, NEW p \in Processes, ReadVersion(p)
    PROVE  AuthorityInv'
<1> DEFINE e == [proc[p] EXCEPT !.version = schema.version, !.column = 0]
<1>1. proc[p] \in Process /\ TypeOK
  BY AtStep, Zenon
<1>2. /\ At(p, "read version") /\ Then(p, e)
      /\ files' = files /\ disturbed' = disturbed
  BY Zenon DEF ReadVersion
<1>3. e \in Process
  <2>1. Len(Columns) \in Nat
    BY DataDirAssumption
  <2>2. 0 \in 0 .. Len(Columns) /\ schema.version \in 0 .. Latest
    BY <1>1, <2>1 DEF TypeOK
  <2> QED
    BY <1>1, <2>2 DEF Process
<1>4. /\ e.todo = proc[p].todo /\ e.up = proc[p].up /\ e.ca = proc[p].ca /\ e.proxy = proc[p].proxy
      /\ e.gen = proc[p].gen /\ e.reuse = proc[p].reuse
  BY <1>1 DEF Process
<1> HIDE DEF e
<1> QED
  BY <1>2, <1>3, <1>4, ContinuesQuietly, Zenon

LEMMA OpenedMatches ==
    ASSUME IInv, AuthorityInv, NEW p \in Processes, Opened(p)
    PROVE  AuthorityInv'
<1>1. /\ At(p, "migrate") /\ Then(p, proc[p]) /\ proc[p] \in Process
      /\ files' = files /\ disturbed' = disturbed
  BY AtStep, Zenon DEF Opened
<1> QED
  BY <1>1, ContinuesQuietly, Zenon

LEMMA FailToOpenMatches ==
    ASSUME IInv, AuthorityInv, NEW p \in Processes, FailToOpen(p)
    PROVE  AuthorityInv'
<1>1. /\ At(p, "read version") \/ At(p, "migrate")
      /\ proc' = [proc EXCEPT ![p] = Off] /\ files' = files /\ disturbed' = disturbed
  BY Zenon DEF FailToOpen, MigrationFails, Altering
<1>2. Here(proc[p].todo) \in {Done, "read version", "migrate", "launch", "spawn"}
  BY <1>1, Where, Zenon
<1>3. Here(proc[p].todo) # "remove key"
  BY <1>2, Distinct, Zenon
<1> QED
  BY <1>1, <1>3, EndsQuietly, Zenon

LEMMA QuitMatches ==
    ASSUME IInv, AuthorityInv, NEW p \in Processes, Quit(p)
    PROVE  AuthorityInv'
<1>1. /\ ~Busy(p) \/ At(p, "launch") \/ At(p, "spawn")
      /\ proc' = [proc EXCEPT ![p] = Off]
      /\ files' = files /\ disturbed' = disturbed
  BY Zenon DEF Quit, Ends, Running
<1>2. Here(proc[p].todo) \in {Done, "migrate", "launch", "spawn"}
  BY <1>1, Where, Zenon
<1>3. Here(proc[p].todo) # "remove key"
  BY <1>2, Distinct, Zenon
<1> QED
  BY <1>1, <1>3, EndsQuietly, Zenon

\* A process that has nothing to do and does not rely on the files does not see them change.
LEMMA IdleAgrees ==
    ASSUME NEW q, NEW e, NEW f, NEW g, Agrees(q, e, f), ~Relies(q, e), ~Unsettled(e)
    PROVE  Agrees(q, e, g)
  BY Zenon DEF Agrees, Unsettled, Writing

LEMMA OthersIdle ==
    ASSUME IInv, AuthorityInv, NEW p \in Processes, Disturbs(p), ~disturbed'
    PROVE  /\ ~disturbed /\ Matched
           /\ \A q \in Processes \ {p} :
                 /\ Here(proc[q].todo) # "remove key" /\ ~Unsettled(proc[q])
                 /\ Agrees(q, proc[q], files)
<1>1. ~disturbed /\ \A q \in Processes \ {p} : ~Works(q)
  BY Zenon DEF Disturbs
<1>2. ASSUME NEW q \in Processes \ {p}, NEW step \in {"write cert", "write key", "remove key"}
      PROVE  Here(proc[q].todo) # step
  <2>1. ~At(q, step)
    BY <1>1, <1>2, Zenon DEF Works
  <2> QED
    BY <2>1, Distinct, Zenon DEF At, Busy, Here
<1>3. \A q \in Processes \ {p} : Here(proc[q].todo) # "remove key" /\ ~Unsettled(proc[q])
  BY <1>2, Zenon DEF Unsettled, Writing
<1>4. \A q \in Processes \ {p} : Agrees(q, proc[q], files)
  BY <1>1, Zenon DEF AuthorityInv, Matched
<1> QED
  BY <1>1, <1>3, <1>4, Zenon DEF AuthorityInv

LEMMA DisturbedIsBoolean == ASSUME AuthorityInv, NEW p, Disturbs(p) PROVE disturbed' \in BOOLEAN
  BY DEF Disturbs, AuthorityInv, Controlled

\* While a process writes the files nothing relies on them.
LEMMA NothingRelies ==
    ASSUME Matched, ~Readable(files.key)
    PROVE  \A q \in Processes : ~Relies(q, proc[q])
  BY Zenon DEF Matched, Agrees

LEMMA LoadMatches ==
    ASSUME IInv, AuthorityInv, NEW p \in Processes, Load(p)
    PROVE  AuthorityInv'
<1> DEFINE e == [proc[p] EXCEPT !.ca = files]
           n == [e EXCEPT !.todo = <<>> \o Tail(@)]
<1>1. /\ At(p, "load") /\ Loadable /\ proc' = [proc EXCEPT ![p] = n]
      /\ files' = files /\ Disturbs(p)
  BY Zenon DEF Load, Then, Goes
<1>2. proc[p] \in Process /\ files \in [cert : File, key : File]
  BY AtStep, Zenon
<1>3. e \in Process /\ e.todo = proc[p].todo /\ e.ca = files /\ e.proxy = proc[p].proxy
  BY <1>2 DEF Process, Authority, File
<1>4. Here(proc[p].todo) = "load" /\ proc[p].todo # <<>>
  BY <1>1, Where, Zenon
<1>5. Path(proc[p].todo) /\ Signs(p, proc[p])
  BY Before, Zenon
<1> HIDE DEF e
<1>6. Path(n.todo) /\ Leads("load", Here(n.todo)) /\ n.ca = files /\ n.proxy = proc[p].proxy
  BY <1>3, <1>4, <1>5, Advances, Zenon
<1> HIDE DEF n
<1>7. Here(n.todo) \in {"read version", "start proxy", Done}
  BY <1>6, LedTo, Zenon
<1>8. ~Writing(n) /\ ~Unsettled(n) /\ Here(n.todo) # "write key" /\ Here(n.todo) # "remove key"
  BY <1>7, Distinct, Zenon DEF Writing, Unsettled
<1>9. Here(proc[p].todo) # "remove key" /\ Here(proc[p].todo) # Done
  BY <1>4, Distinct, Zenon
<1>10. Signs(p, n)
  BY <1>5, <1>6, <1>8, <1>9, Zenon DEF Signs
<1>11. ASSUME ~disturbed'
       PROVE  /\ Agrees(p, n, files')
              /\ \A q \in Processes \ {p} : Agrees(q, proc[q], files')
              /\ files'.cert = files'.key
  <2>1. /\ ~disturbed /\ Matched
        /\ \A q \in Processes \ {p} :
              Here(proc[q].todo) # "remove key" /\ ~Unsettled(proc[q]) /\ Agrees(q, proc[q], files)
    BY <1>1, <1>11, OthersIdle, Zenon
  <2>2. Readable(files.cert) /\ Readable(files.key)
    BY <1>1, Zenon DEF Loadable
  <2>3. \A q \in Processes : Here(proc[q].todo) # "remove key"
    BY <1>9, <2>1, Zenon
  <2>4. files.cert = files.key
    BY <2>1, <2>2, <2>3, Zenon DEF Matched
  <2> QED
    BY <1>1, <1>6, <1>8, <2>1, <2>2, <2>4, Zenon DEF Agrees
<1>12. disturbed' \in BOOLEAN
  BY <1>1, DisturbedIsBoolean, Zenon
<1> QED
  BY <1>1, <1>6, <1>8, <1>10, <1>11, <1>12, OneMoves, Zenon

LEMMA GeneratesPath ==
    ASSUME NEW todo \in Seq(Step), todo # <<>>, Path(todo), Here(todo) = "load"
    PROVE  /\ Path(<<"write cert", "write key">> \o Tail(todo))
           /\ Here(<<"write cert", "write key">> \o Tail(todo)) = "write cert"
<1> DEFINE rest == Tail(todo)  a == "write cert"  b == "write key"
<1>1. rest \in Seq(Step) /\ Path(rest) /\ Leads("load", Here(rest))
  BY PathTail, Zenon
<1>2. Leads(b, Here(rest))
  BY <1>1, LedTo, Zenon
<1>3. a \in Step /\ b \in Step /\ Leads(a, b)
  BY StepNames, StepLeads, Zenon
<1> HIDE DEF rest, a, b
<1>4. Path(<<a, b>> \o rest) /\ Here(<<a, b>> \o rest) = a
  BY <1>1, <1>2, <1>3, PathBeforeTwo, Zenon
<1> QED
  BY <1>4, Zenon DEF a, b, rest

LEMMA GenerateMatches ==
    ASSUME IInv, AuthorityInv, NEW p \in Processes, Generate(p)
    PROVE  AuthorityInv'
<1> DEFINE e == [proc[p] EXCEPT !.gen = made + 1]
           n == [e EXCEPT !.todo = <<"write cert", "write key">> \o Tail(@)]
<1>1. /\ At(p, "load") /\ ~Loadable /\ proc' = [proc EXCEPT ![p] = n] /\ Disturbs(p)
      /\ files' = files
  BY Zenon DEF Generate, Goes
<1>2. proc[p] \in Process /\ made \in Nat
  BY AtStep, Zenon
<1>3. /\ n.todo = <<"write cert", "write key">> \o Tail(proc[p].todo)
      /\ n.gen = made + 1 /\ n.ca = proc[p].ca /\ n.proxy = proc[p].proxy
  BY <1>2 DEF Process
<1>4. Here(proc[p].todo) = "load" /\ proc[p].todo # <<>> /\ proc[p].todo \in Seq(Step)
  BY <1>1, Where, Zenon
<1>5. Path(proc[p].todo) /\ Signs(p, proc[p])
  BY Before, Zenon
<1> HIDE DEF n
<1>6. n.gen \in Nat
  <2>1. made + 1 \in Nat
    BY <1>2
  <2> QED
    BY <1>3, <2>1, Zenon
<1>7. Path(n.todo) /\ Here(n.todo) = "write cert"
  BY <1>3, <1>4, <1>5, GeneratesPath, Zenon
<1>8. Here(n.todo) # "write key" /\ Here(n.todo) # "remove key" /\ Here(n.todo) # Done
      /\ Here(n.todo) # "spawn" /\ Here(n.todo) # "start proxy"
      /\ Here(proc[p].todo) # Done /\ Here(proc[p].todo) # "remove key"
  BY <1>4, <1>7, Distinct, Zenon
<1>9. Signs(p, n)
  BY <1>3, <1>5, <1>8, Zenon DEF Signs
<1>10. ASSUME ~disturbed'
       PROVE  /\ Agrees(p, n, files')
              /\ \A q \in Processes \ {p} :
                    Agrees(q, proc[q], files') /\ (Unsettled(n) => ~Unsettled(proc[q]))
              /\ Readable(files'.key) => \/ files'.cert = files'.key \/ Here(n.todo) = "remove key"
                                         \/ \E q \in Processes \ {p} : Here(proc[q].todo) = "remove key"
  <2>1. /\ ~disturbed /\ Matched
        /\ \A q \in Processes \ {p} :
              Here(proc[q].todo) # "remove key" /\ ~Unsettled(proc[q]) /\ Agrees(q, proc[q], files)
    BY <1>1, <1>10, OthersIdle, Zenon
  <2>2. \A q \in Processes : Here(proc[q].todo) # "remove key"
    BY <1>8, <2>1, Zenon
  <2>3. ~Readable(files.key)
    BY <1>1, <2>1, <2>2, Zenon DEF Matched, Loadable
  <2>4. ~Relies(p, n)
    <3>1. Relies(p, n) => Relies(p, proc[p])
      BY <1>3, <1>8, Zenon DEF Relies
    <3> QED
      BY <2>1, <2>3, <3>1, NothingRelies, Zenon
  <2>5. Agrees(p, n, files')
    BY <1>1, <1>3, <1>8, <2>1, <2>3, <2>4, Zenon DEF Agrees, Matched
  <2>7. \A q \in Processes \ {p} : Agrees(q, proc[q], files') /\ ~Unsettled(proc[q])
    BY <1>1, <2>1, Zenon
  <2>8. ~Readable(files'.key)
    BY <1>1, <2>3, Zenon
  <2> QED
    BY <2>5, <2>7, <2>8, Zenon
<1>11. disturbed' \in BOOLEAN
  BY <1>1, DisturbedIsBoolean, Zenon
<1> QED
  BY <1>1, <1>6, <1>7, <1>9, <1>10, <1>11, OneMoves, Zenon

\* A process that is at a file of the authority it generated.
LEMMA WritingKnows ==
    ASSUME IInv, AuthorityInv, NEW p \in Processes, At(p, "write cert") \/ At(p, "write key")
    PROVE  /\ proc[p].gen \in Nat /\ Readable(proc[p].gen) /\ proc[p].todo # <<>>
           /\ Here(proc[p].todo) # Done /\ Here(proc[p].todo) # "remove key"
           /\ Here(proc[p].todo) # "spawn" /\ Here(proc[p].todo) # "start proxy"
           /\ ~disturbed => /\ ~Readable(files.key) /\ ~Relies(p, proc[p])
                            /\ \A q \in Processes \ {p} : ~Relies(q, proc[q]) /\ ~Unsettled(proc[q])
<1>1. proc[p].todo # <<>> /\ Writing(proc[p])
  BY Where, Zenon DEF Writing
<1>2. proc[p].gen \in Nat
  BY <1>1, Before, Zenon
<1>3. Readable(proc[p].gen)
  BY <1>2, DataDirAssumption, Zenon DEF Readable
<1>4. Here(proc[p].todo) \in {"write cert", "write key"}
  BY <1>1, Zenon DEF Writing
<1>5. /\ Here(proc[p].todo) # Done /\ Here(proc[p].todo) # "remove key"
      /\ Here(proc[p].todo) # "spawn" /\ Here(proc[p].todo) # "start proxy"
  BY <1>4, Distinct, Zenon
<1>6. ASSUME ~disturbed
      PROVE  /\ ~Readable(files.key) /\ ~Relies(p, proc[p])
             /\ \A q \in Processes \ {p} : ~Relies(q, proc[q]) /\ ~Unsettled(proc[q])
  <2>1. Matched /\ Unsettled(proc[p]) /\ ~Readable(files.key)
    BY <1>1, <1>6, Before, Zenon DEF Agrees, Unsettled
  <2>2. \A q \in Processes : ~Relies(q, proc[q])
    BY <2>1, NothingRelies, Zenon
  <2>3. \A q \in Processes \ {p} : ~Unsettled(proc[q])
    BY <2>1, Zenon DEF Matched
  <2> QED
    BY <2>1, <2>2, <2>3, Zenon
<1> QED
  BY <1>1, <1>2, <1>3, <1>5, <1>6, Zenon

LEMMA WriteCertMatches ==
    ASSUME IInv, AuthorityInv, NEW p \in Processes, WriteCert(p)
    PROVE  AuthorityInv'
<1> DEFINE n == [proc[p] EXCEPT !.todo = <<>> \o Tail(@)]
<1>1. /\ At(p, "write cert") /\ proc' = [proc EXCEPT ![p] = n] /\ Disturbs(p)
      /\ files' = [files EXCEPT !.cert = proc[p].gen]
  BY Zenon DEF WriteCert, Then, Goes
<1>2. proc[p] \in Process /\ files \in [cert : File, key : File]
  BY AtStep, Zenon
<1>3. files'.cert = proc[p].gen /\ files'.key = files.key
  BY <1>1, <1>2
<1>4. Here(proc[p].todo) = "write cert"
  BY <1>1, Where, Zenon
<1>5. Path(proc[p].todo) /\ Signs(p, proc[p])
  BY Before, Zenon
<1>6. /\ proc[p].gen \in Nat /\ proc[p].todo # <<>> /\ Here(proc[p].todo) # Done
      /\ ~disturbed => /\ ~Readable(files.key) /\ ~Relies(p, proc[p])
                       /\ \A q \in Processes \ {p} : ~Relies(q, proc[q]) /\ ~Unsettled(proc[q])
  BY <1>1, WritingKnows, Zenon
<1>7. /\ Path(n.todo) /\ Leads("write cert", Here(n.todo))
      /\ n.up = proc[p].up /\ n.ca = proc[p].ca /\ n.proxy = proc[p].proxy /\ n.gen = proc[p].gen
  BY <1>2, <1>4, <1>5, <1>6, Advances, Zenon
<1> HIDE DEF n
<1>8. Here(n.todo) = "write key"
  BY <1>7, LedTo, Zenon
<1>9. /\ Here(n.todo) # "remove key" /\ Here(n.todo) # Done
      /\ Here(n.todo) # "spawn" /\ Here(n.todo) # "start proxy"
  BY <1>8, Distinct, Zenon
<1>10. Signs(p, n)
  BY <1>5, <1>6, <1>7, <1>9, Zenon DEF Signs
<1>11. ASSUME ~disturbed'
       PROVE  /\ Agrees(p, n, files')
              /\ \A q \in Processes \ {p} :
                    Agrees(q, proc[q], files') /\ (Unsettled(n) => ~Unsettled(proc[q]))
              /\ Readable(files'.key) => \/ files'.cert = files'.key \/ Here(n.todo) = "remove key"
                                         \/ \E q \in Processes \ {p} : Here(proc[q].todo) = "remove key"
  <2>1. /\ ~disturbed /\ Matched /\ \A q \in Processes \ {p} : Agrees(q, proc[q], files)
    BY <1>1, <1>11, OthersIdle, Zenon
  <2>2. /\ ~Readable(files'.key) /\ ~Relies(p, proc[p])
        /\ \A q \in Processes \ {p} : ~Relies(q, proc[q]) /\ ~Unsettled(proc[q])
    BY <1>3, <1>6, <2>1, Zenon
  <2>3. \A q \in Processes \ {p} : Agrees(q, proc[q], files')
    BY <2>1, <2>2, IdleAgrees, Zenon
  <2>4. Relies(p, n) => Relies(p, proc[p])
    BY <1>6, <1>7, <1>9, Zenon DEF Relies
  <2>5. Agrees(p, n, files')
    BY <1>3, <1>7, <1>9, <2>1, <2>2, <2>4, Zenon DEF Agrees, Matched
  <2> QED
    BY <2>2, <2>3, <2>5, Zenon
<1>12. disturbed' \in BOOLEAN
  BY <1>1, DisturbedIsBoolean, Zenon
<1>13. n.gen \in Nat
  BY <1>6, <1>7, Zenon
<1> QED
  BY <1>1, <1>7, <1>10, <1>11, <1>12, <1>13, OneMoves, Zenon

LEMMA WriteKeyMatches ==
    ASSUME IInv, AuthorityInv, NEW p \in Processes, WriteKey(p)
    PROVE  AuthorityInv'
<1> DEFINE gen == proc[p].gen
           e == [proc[p] EXCEPT !.ca = [cert |-> gen, key |-> gen]]
           n == [e EXCEPT !.todo = <<>> \o Tail(@)]
<1>1. /\ At(p, "write key") /\ proc' = [proc EXCEPT ![p] = n] /\ Disturbs(p)
      /\ files' = [files EXCEPT !.key = gen]
  BY Zenon DEF WriteKey, Then, Goes
<1>2. proc[p] \in Process /\ files \in [cert : File, key : File]
  BY AtStep, Zenon
<1>3. /\ files'.cert = files.cert /\ files'.key = gen
      /\ files.cert = gen => files' = [cert |-> gen, key |-> gen]
  BY <1>1, <1>2
<1>4. Here(proc[p].todo) = "write key"
  BY <1>1, Where, Zenon
<1>5. Path(proc[p].todo) /\ Signs(p, proc[p])
  BY Before, Zenon
<1>6. /\ gen \in Nat /\ Readable(gen) /\ proc[p].todo # <<>> /\ Here(proc[p].todo) # Done
      /\ ~disturbed => \A q \in Processes \ {p} : ~Relies(q, proc[q]) /\ ~Unsettled(proc[q])
  BY <1>1, WritingKnows, Zenon
<1>7. /\ e \in Process /\ e.todo = proc[p].todo /\ e.ca = [cert |-> gen, key |-> gen]
      /\ e.proxy = proc[p].proxy
  BY <1>2, <1>6 DEF Process, Authority, File
<1> HIDE DEF e
<1>8. /\ Path(n.todo) /\ Leads("write key", Here(n.todo))
      /\ n.ca = [cert |-> gen, key |-> gen] /\ n.proxy = proc[p].proxy
  BY <1>4, <1>5, <1>6, <1>7, Advances, Zenon
<1> HIDE DEF n
<1>9. n.ca.cert = gen /\ n.ca.key = gen
  <2>1. [cert |-> gen, key |-> gen].cert = gen /\ [cert |-> gen, key |-> gen].key = gen
    OBVIOUS
  <2> QED
    BY <1>8, <2>1, Zenon
<1>10. Here(n.todo) \in {"read version", "start proxy", Done}
  BY <1>8, LedTo, Zenon
<1>11. ~Writing(n) /\ ~Unsettled(n) /\ Here(n.todo) # "spawn" /\ Here(n.todo) # "write key"
       /\ Here(n.todo) # "remove key"
  BY <1>10, Distinct, Zenon DEF Writing, Unsettled
<1>12. Signs(p, n)
  BY <1>5, <1>6, <1>8, <1>11, Zenon DEF Signs
<1>13. ASSUME ~disturbed'
       PROVE  /\ Agrees(p, n, files')
              /\ \A q \in Processes \ {p} : Agrees(q, proc[q], files')
              /\ files'.cert = files'.key
  <2>1. /\ ~disturbed /\ Matched /\ \A q \in Processes \ {p} : Agrees(q, proc[q], files)
    BY <1>1, <1>13, OthersIdle, Zenon
  <2>2. \A q \in Processes \ {p} : ~Relies(q, proc[q]) /\ ~Unsettled(proc[q])
    BY <1>6, <2>1, Zenon
  <2>3. \A q \in Processes \ {p} : Agrees(q, proc[q], files')
    BY <2>1, <2>2, IdleAgrees, Zenon
  <2>4. files.cert = gen
    BY <1>4, <2>1, Zenon DEF Matched, Agrees
  <2>5. files' = n.ca /\ files'.cert = gen /\ files'.key = gen
    BY <1>3, <1>8, <2>4, Zenon
  <2>6. Agrees(p, n, files')
    BY <1>6, <1>9, <1>11, <2>5, Zenon DEF Agrees
  <2> QED
    BY <2>3, <2>5, <2>6, Zenon
<1>14. disturbed' \in BOOLEAN
  BY <1>1, DisturbedIsBoolean, Zenon
<1> QED
  BY <1>1, <1>8, <1>11, <1>12, <1>13, <1>14, OneMoves, Zenon

\* What a failed or cut off write leaves.
LEMMA LeavesKey ==
    ASSUME NEW p \in Processes, Leaves(p)
    PROVE  /\ files'.key = files.key \/ files'.key = Partial
           /\ IInv /\ ~At(p, "write cert") /\ ~At(p, "write key") => files' = files
<1>1. PICK c \in LeftOf(p, "write cert", files.cert), k \in LeftOf(p, "write key", files.key) :
        files' = [cert |-> c, key |-> k]
  BY Zenon DEF Leaves
<1>2. k = files.key \/ k = Partial
  BY Zenon DEF LeftOf
<1>3. files'.key = k
  BY <1>1
<1>4. ASSUME IInv, ~At(p, "write cert"), ~At(p, "write key") PROVE files' = files
  <2>1. c = files.cert /\ k = files.key
    BY <1>4, Zenon DEF LeftOf
  <2>2. files \in [cert : File, key : File]
    BY <1>4, AtStep, Zenon
  <2> QED
    BY <1>1, <2>1, <2>2
<1> QED
  BY <1>2, <1>3, <1>4, Zenon

\* A process that ends while it writes leaves no key that can be read.
LEMMA EndsWriting ==
    ASSUME IInv, AuthorityInv, NEW p \in Processes, At(p, "write cert") \/ At(p, "write key"),
           proc' = [proc EXCEPT ![p] = Off], Leaves(p), disturbed' = disturbed
    PROVE  AuthorityInv'
<1>1. files'.key = files.key \/ files'.key = Partial
  BY LeavesKey, Zenon
<1>2. ASSUME ~disturbed
      PROVE  /\ Agrees(p, Off, files')
             /\ \A q \in Processes \ {p} : Agrees(q, proc[q], files')
             /\ ~Readable(files'.key)
  <2>1. Matched
    BY <1>2, Before, Zenon
  <2>2. /\ ~Readable(files.key)
        /\ \A q \in Processes \ {p} : ~Relies(q, proc[q]) /\ ~Unsettled(proc[q])
    BY <1>2, WritingKnows, Zenon
  <2>3. ~Readable(files'.key)
    BY <1>1, <2>2, Zenon DEF Readable
  <2>4. \A q \in Processes \ {p} : Agrees(q, proc[q], files')
    BY <2>1, <2>2, IdleAgrees, Zenon DEF Matched
  <2> QED
    BY <2>3, <2>4, OffIsQuiet, Zenon
<1>3. disturbed' \in BOOLEAN
  BY Before, Zenon
<1> QED
  BY <1>2, <1>3, OffIsQuiet, OneMoves, Zenon

LEMMA WriteFailsMatches ==
    ASSUME IInv, AuthorityInv, NEW p \in Processes, WriteFails(p)
    PROVE  AuthorityInv'
<1>1. /\ At(p, "write cert") \/ At(p, "write key")
      /\ Leaves(p) /\ disturbed' = (disturbed \/ proc[p].ca # None)
      /\ proc' = [proc EXCEPT ![p] = IF proc[p].ca = None THEN Off ELSE [proc[p] EXCEPT !.todo = <<>>]]
  BY Zenon DEF WriteFails
<1>2. CASE proc[p].ca = None
  <2>1. disturbed' = disturbed
    BY <1>1, <1>2 DEF AuthorityInv, Controlled
  <2> QED
    BY <1>1, <1>2, <2>1, EndsWriting, Zenon
<1>3. CASE proc[p].ca # None
  <2> DEFINE e == [proc[p] EXCEPT !.todo = <<>>]
  <2>1. proc[p] \in Process
    BY AtStep, Zenon
  <2>2. e.todo = <<>> /\ e.proxy = proc[p].proxy
    BY <2>1 DEF Process
  <2>3. proc' = [proc EXCEPT ![p] = e] /\ disturbed' = TRUE
    BY <1>1, <1>3
  <2> HIDE DEF e
  <2>4. Path(e.todo) /\ Here(e.todo) = Done
    BY <2>2, PathEmpty, Zenon
  <2>5. ~Writing(e) /\ Here(e.todo) # "spawn"
    BY <2>4, Distinct, Zenon DEF Writing
  <2>6. Here(proc[p].todo) # Done
    BY <1>1, WritingKnows, Zenon
  <2>7. Signs(p, e)
    BY <2>2, <2>5, <2>6, Before, Zenon DEF Signs
  <2>8. disturbed' \in BOOLEAN /\ disturbed'
    BY <2>3, Zenon
  <2> QED
    BY <2>3, <2>4, <2>5, <2>7, <2>8, OneMoves, Zenon
<1> QED
  BY <1>2, <1>3, Zenon

LEMMA CrashMatches ==
    ASSUME IInv, AuthorityInv, NEW p \in Processes, Crash(p)
    PROVE  AuthorityInv'
<1>1. /\ Leaves(p) /\ proc' = [proc EXCEPT ![p] = Off]
      /\ disturbed' = (disturbed \/ (At(p, "remove key") /\ KeyAlone))
  BY Zenon DEF Crash, Ends
<1>2. CASE At(p, "write cert") \/ At(p, "write key")
  <2>1. ~At(p, "remove key")
    <3>1. Here(proc[p].todo) # "remove key"
      BY <1>2, WritingKnows, Zenon
    <3> QED
      BY <3>1, Where, Zenon
  <2>2. disturbed' = disturbed
    BY <1>1, <2>1 DEF AuthorityInv, Controlled
  <2> QED
    BY <1>1, <1>2, <2>2, EndsWriting, Zenon
<1>3. CASE At(p, "remove key")
  <2>1. Here(proc[p].todo) = "remove key" /\ files' = files
    <3>1. Here(proc[p].todo) = "remove key"
      BY <1>3, Where, Zenon
    <3>2. ~At(p, "write cert") /\ ~At(p, "write key")
      BY <3>1, Where, Distinct, Zenon
    <3> QED
      BY <1>1, <3>1, <3>2, LeavesKey, Zenon
  <2>2. disturbed' \in BOOLEAN
    BY <1>1, Before DEF KeyAlone, At, Busy
  <2>3. ASSUME ~disturbed'
        PROVE  /\ \A q \in Processes \ {p} : Agrees(q, proc[q], files')
               /\ Readable(files'.key) => files'.cert = files'.key
    <3>1. ~disturbed /\ ~KeyAlone
      BY <1>1, <1>3, <2>3, Zenon
    <3>2. Matched /\ Agrees(p, proc[p], files)
      BY <3>1, Before, Zenon
    <3>3. Readable(files.key) => files.cert = files.key
      BY <2>1, <3>1, <3>2, Zenon DEF KeyAlone, Agrees, Readable
    <3> QED
      BY <2>1, <3>2, <3>3, Zenon DEF Matched
  <2> QED
    BY <1>1, <2>2, <2>3, OffIsQuiet, OneMoves, Zenon
<1>4. CASE ~(At(p, "write cert") \/ At(p, "write key")) /\ ~At(p, "remove key")
  <2>1. disturbed' = disturbed
    BY <1>1, <1>4 DEF AuthorityInv, Controlled
  <2>2. files' = files
    BY <1>1, <1>4, LeavesKey, Zenon
  <2>3. Here(proc[p].todo) # "remove key"
    <3>1. SUFFICES ASSUME Here(proc[p].todo) = "remove key" PROVE FALSE
      BY Zenon
    <3>2. proc[p].todo # <<>> /\ Head(proc[p].todo) = "remove key"
      BY <3>1, Zenon DEF Here, Done
    <3> QED
      BY <1>4, <3>2, Zenon DEF At, Busy
  <2> QED
    BY <1>1, <2>1, <2>2, <2>3, EndsQuietly, Zenon
<1> QED
  BY <1>2, <1>3, <1>4, Zenon
-----------------------------------------------------------------------------
\* The application makes a new authority.

LEMMA RegenerateMatches ==
    ASSUME IInv, AuthorityInv, Regenerate
    PROVE  AuthorityInv'
<1> DEFINE steps == IF proc["app"].proxy = None THEN <<"remove cert", "remove key", "load">>
                    ELSE <<"remove cert", "remove key", "load", "start proxy">>
           e == [proc["app"] EXCEPT !.proxy = None, !.todo = steps]
<1>1. "app" \in Processes /\ "app" # "pg"
  BY TwoProcesses, Distinct, Zenon
<1>2. Path(steps) /\ Here(steps) = "remove cert"
  BY Regenerations, Zenon
<1> HIDE DEF steps
<1>3. proc["app"] \in Process /\ proc \in [Processes -> Process]
  BY <1>1, AtStep, Zenon
<1>4. e.todo = steps /\ e.ca = proc["app"].ca /\ e.proxy = None
  BY <1>3 DEF Process
<1>5. /\ proc' = [proc EXCEPT !["app"].proxy = None, !["app"].todo = steps]
      /\ files' = files /\ disturbed' = disturbed /\ ~Busy("app")
  BY Zenon DEF Regenerate, Running, steps
<1>6. proc' = [proc EXCEPT !["app"] = e]
  BY <1>1, <1>3, <1>5
<1> HIDE DEF e
<1>7. Path(e.todo) /\ Here(e.todo) = "remove cert"
  BY <1>2, <1>4, Zenon
<1>8. ~Writing(e) /\ ~Unsettled(e) /\ Here(e.todo) # Done /\ Here(e.todo) # "start proxy"
      /\ Here(e.todo) # "write key" /\ Here(e.todo) # "remove key"
  BY <1>7, Distinct, Zenon DEF Writing, Unsettled
<1>9. Signs("app", e)
  BY <1>1, <1>4, Zenon DEF Signs
<1>10. ~disturbed => Agrees("app", e, files)
  <2>1. ~disturbed => Agrees("app", proc["app"], files)
    BY <1>1, <1>5, Before, Zenon
  <2>2. ~Relies("app", e)
    BY <1>1, <1>8, Zenon DEF Relies
  <2> QED
    BY <1>4, <1>8, <2>1, <2>2, Zenon DEF Agrees
<1>11. Here(proc["app"].todo) # "remove key"
  BY <1>1, <1>5, Where, Distinct, Zenon
<1> QED
  BY <1>1, <1>5, <1>6, <1>7, <1>8, <1>9, <1>10, <1>11, MovesQuietly, Zenon

LEMMA RemoveCertMatches ==
    ASSUME IInv, AuthorityInv, RemoveCert
    PROVE  AuthorityInv'
<1> DEFINE n == [proc["app"] EXCEPT !.todo = <<>> \o Tail(@)]
<1>1. /\ At("app", "remove cert") /\ proc' = [proc EXCEPT !["app"] = n] /\ Disturbs("app")
      /\ files' = [files EXCEPT !.cert = None] \/ files' = files
      /\ "app" \in Processes
  BY TwoProcesses, Zenon DEF RemoveCert, Then, Goes
<1>2. proc["app"] \in Process /\ files \in [cert : File, key : File]
  BY <1>1, AtStep, Zenon
<1>3. files'.cert = None \/ files' = files
  BY <1>1, <1>2
<1>4. Here(proc["app"].todo) = "remove cert" /\ proc["app"].todo # <<>>
  BY <1>1, Where, Zenon
<1>5. Path(proc["app"].todo) /\ Signs("app", proc["app"])
  BY <1>1, Before, Zenon
<1>6. /\ Path(n.todo) /\ Leads("remove cert", Here(n.todo))
      /\ n.ca = proc["app"].ca /\ n.proxy = proc["app"].proxy
  BY <1>2, <1>4, <1>5, Advances, Zenon
<1> HIDE DEF n
<1>7. Here(n.todo) = "remove key" /\ "app" # "pg"
  BY <1>6, LedTo, Distinct, Zenon
<1>8. ~Writing(n) /\ Here(n.todo) # "write key" /\ Here(n.todo) # Done /\ Here(n.todo) # "start proxy"
      /\ Here(proc["app"].todo) # Done
  BY <1>4, <1>7, Distinct, Zenon DEF Writing
<1>9. Signs("app", n)
  BY <1>5, <1>6, <1>7, <1>8, Zenon DEF Signs
<1>10. ASSUME ~disturbed'
       PROVE  /\ Agrees("app", n, files')
              /\ \A q \in Processes \ {"app"} : Agrees(q, proc[q], files') /\ ~Unsettled(proc[q])
  <2>1. /\ ~disturbed /\ Matched
        /\ \A q \in Processes \ {"app"} :
              Here(proc[q].todo) # "remove key" /\ ~Unsettled(proc[q]) /\ Agrees(q, proc[q], files)
    BY <1>1, <1>10, OthersIdle, Zenon
  <2>2. \A q \in Processes \ {"app"} : ~Relies(q, proc[q])
    BY <1>7, TwoProcesses, Zenon DEF Relies
  <2>3. \A q \in Processes \ {"app"} : Agrees(q, proc[q], files')
    BY <2>1, <2>2, IdleAgrees, Zenon
  <2>4. ~Relies("app", n)
    BY <1>7, <1>8, Zenon DEF Relies
  <2>6. Readable(files.key) => files.cert = files.key
    BY <1>4, <2>1, Distinct, Zenon DEF Matched
  <2>7. Agrees("app", proc["app"], files)
    BY <1>1, <2>1, Zenon DEF Matched
  <2>5. Agrees("app", n, files')
    BY <1>3, <1>6, <1>8, <2>4, <2>6, <2>7, Zenon DEF Agrees
  <2> QED
    BY <2>1, <2>3, <2>5, <2>6, Zenon
<1>11. disturbed' \in BOOLEAN
  BY <1>1, DisturbedIsBoolean, Zenon
<1> QED
  BY <1>1, <1>6, <1>7, <1>8, <1>9, <1>10, <1>11, OneMoves, Zenon

LEMMA RemoveKeyMatches ==
    ASSUME IInv, AuthorityInv, RemoveKey
    PROVE  AuthorityInv'
<1> DEFINE n == [proc["app"] EXCEPT !.todo = <<>> \o Tail(@)]
<1>1. /\ At("app", "remove key") /\ proc' = [proc EXCEPT !["app"] = n] /\ Disturbs("app")
      /\ files' = [files EXCEPT !.key = None] /\ "app" \in Processes
  BY TwoProcesses, Zenon DEF RemoveKey, Then, Goes
<1>2. proc["app"] \in Process /\ files \in [cert : File, key : File]
  BY <1>1, AtStep, Zenon
<1>3. files'.key = None
  BY <1>1, <1>2
<1>4. Here(proc["app"].todo) = "remove key" /\ proc["app"].todo # <<>>
  BY <1>1, Where, Zenon
<1>5. Path(proc["app"].todo) /\ Signs("app", proc["app"])
  BY <1>1, Before, Zenon
<1>6. /\ Path(n.todo) /\ Leads("remove key", Here(n.todo))
      /\ n.ca = proc["app"].ca /\ n.proxy = proc["app"].proxy
  BY <1>2, <1>4, <1>5, Advances, Zenon
<1> HIDE DEF n
<1>7. Here(n.todo) = "load" /\ "app" # "pg" /\ "remove key" # Done
  BY <1>6, LedTo, Distinct, Zenon
<1>8. ~Writing(n) /\ ~Unsettled(n) /\ Here(n.todo) # Done /\ Here(n.todo) # "start proxy"
      /\ Here(n.todo) # "write key" /\ Here(n.todo) # "remove key"
      /\ Here(proc["app"].todo) # Done
  BY <1>4, <1>7, Distinct, Zenon DEF Writing, Unsettled
<1>9. Signs("app", n)
  BY <1>5, <1>6, <1>7, <1>8, Zenon DEF Signs
<1>10. ASSUME ~disturbed'
       PROVE  /\ Agrees("app", n, files')
              /\ \A q \in Processes \ {"app"} : Agrees(q, proc[q], files')
              /\ ~Readable(files'.key)
  <2>1. /\ ~disturbed /\ Matched
        /\ \A q \in Processes \ {"app"} :
              Here(proc[q].todo) # "remove key" /\ ~Unsettled(proc[q]) /\ Agrees(q, proc[q], files)
    BY <1>1, <1>10, OthersIdle, Zenon
  <2>2. \A q \in Processes \ {"app"} : ~Relies(q, proc[q])
    BY <1>7, TwoProcesses, Zenon DEF Relies
  <2>3. \A q \in Processes \ {"app"} : Agrees(q, proc[q], files')
    BY <2>1, <2>2, IdleAgrees, Zenon
  <2>4. ~Relies("app", n)
    BY <1>7, <1>8, Zenon DEF Relies
  <2>5. Agrees("app", n, files')
    BY <1>1, <1>6, <1>8, <2>1, <2>4, Zenon DEF Agrees, Matched
  <2>6. ~Readable(files'.key)
    BY <1>3, Zenon DEF Readable
  <2> QED
    BY <2>3, <2>5, <2>6, Zenon
<1>11. disturbed' \in BOOLEAN
  BY <1>1, DisturbedIsBoolean, Zenon
<1> QED
  BY <1>1, <1>6, <1>8, <1>9, <1>10, <1>11, OneMoves, Zenon
LEMMA KeyStaysMatches ==
    ASSUME IInv, AuthorityInv, KeyStays
    PROVE  AuthorityInv'
<1> DEFINE n == [proc["app"] EXCEPT !.todo = <<>> \o Tail(@)]
<1>1. /\ At("app", "remove key") /\ proc' = [proc EXCEPT !["app"] = n]
      /\ disturbed' = (disturbed \/ KeyAlone \/ Works("pg"))
      /\ files' = files /\ "app" \in Processes
  BY TwoProcesses, Zenon DEF KeyStays, Then, Goes
<1>2. proc["app"] \in Process
  BY <1>1, AtStep, Zenon
<1>3. Here(proc["app"].todo) = "remove key" /\ proc["app"].todo # <<>>
  BY <1>1, Where, Zenon
<1>4. Path(proc["app"].todo) /\ Signs("app", proc["app"])
  BY <1>1, Before, Zenon
<1>5. /\ Path(n.todo) /\ Leads("remove key", Here(n.todo))
      /\ n.ca = proc["app"].ca /\ n.proxy = proc["app"].proxy
  BY <1>2, <1>3, <1>4, Advances, Zenon
<1> HIDE DEF n
<1>6. Here(n.todo) = "load"
  BY <1>5, LedTo, Zenon
<1>7. ~Writing(n) /\ ~Unsettled(n) /\ Here(n.todo) # Done /\ Here(n.todo) # "start proxy"
      /\ Here(n.todo) # "write key" /\ Here(n.todo) # "remove key"
      /\ Here(proc["app"].todo) # Done
  BY <1>3, <1>6, Distinct, Zenon DEF Writing, Unsettled
<1>8. Signs("app", n) /\ ~Relies("app", n)
  BY <1>4, <1>5, <1>7, Zenon DEF Signs, Relies
<1>9. ASSUME ~disturbed'
      PROVE  /\ Agrees("app", n, files')
             /\ \A q \in Processes \ {"app"} : Agrees(q, proc[q], files')
             /\ Readable(files'.key) => files'.cert = files'.key
  <2>1. ~disturbed /\ ~KeyAlone
    BY <1>1, <1>9, Zenon
  <2>2. Matched /\ Agrees("app", proc["app"], files)
    BY <1>1, <2>1, Before, Zenon
  <2>3. Readable(files.key) => files.cert = files.key
    BY <1>3, <2>1, <2>2, Zenon DEF KeyAlone, Agrees, Readable
  <2>4. Agrees("app", n, files)
    BY <1>5, <1>7, <1>8, <2>2, Zenon DEF Agrees
  <2> QED
    BY <1>1, <2>2, <2>3, <2>4, Zenon DEF Matched
<1>10. disturbed' \in BOOLEAN
  BY <1>1, Before DEF KeyAlone, Works, At, Busy
<1> QED
  BY <1>1, <1>5, <1>7, <1>8, <1>9, <1>10, OneMoves, Zenon
-----------------------------------------------------------------------------
\* The proxies, and the agent that pg starts.

LEMMA StartProxyMatches ==
    ASSUME IInv, AuthorityInv, StartProxy
    PROVE  AuthorityInv'
<1> DEFINE e == [proc["app"] EXCEPT !.proxy = proc["app"].ca, !.todo = <<>>, !.served = TRUE]
<1>1. "app" \in Processes /\ "app" # "pg"
  BY TwoProcesses, Distinct, Zenon
<1>2. /\ proc["app"].up /\ (~Busy("app") \/ At("app", "start proxy"))
      /\ proc' = [proc EXCEPT !["app"] = e]
      /\ files' = files /\ disturbed' = disturbed
  BY Zenon DEF StartProxy
<1>3. proc["app"] \in Process
  BY <1>1, AtStep, Zenon
<1>4. e.todo = <<>> /\ e.up = proc["app"].up /\ e.ca = proc["app"].ca /\ e.proxy = e.ca
  BY <1>3 DEF Process
<1> HIDE DEF e
<1>5. Path(e.todo) /\ Here(e.todo) = Done
  BY <1>4, PathEmpty, Zenon
<1>6. ~Writing(e) /\ ~Unsettled(e) /\ Here(e.todo) # "write key" /\ Here(e.todo) # "remove key"
  BY <1>5, Distinct, Zenon DEF Writing, Unsettled
<1>7. Signs("app", e)
  BY <1>1, <1>2, <1>4, <1>5, Zenon DEF Signs
<1>8. Here(proc["app"].todo) \in {Done, "start proxy"}
  BY <1>1, <1>2, Where, Zenon
<1>9. Here(proc["app"].todo) # "remove key"
  BY <1>8, Distinct, Zenon
<1>10. ~disturbed => Agrees("app", e, files)
  <2>1. ~disturbed => Agrees("app", proc["app"], files)
    BY <1>1, <1>2, Before, Zenon
  <2>2. Relies("app", proc["app"])
    BY <1>2, <1>8, Zenon DEF Relies
  <2> QED
    BY <1>4, <1>6, <2>1, <2>2, Zenon DEF Agrees
<1> QED
  BY <1>1, <1>2, <1>5, <1>6, <1>7, <1>9, <1>10, MovesQuietly, Zenon

LEMMA StopProxyMatches ==
    ASSUME IInv, AuthorityInv, StopProxy
    PROVE  AuthorityInv'
<1> DEFINE e == [proc["app"] EXCEPT !.proxy = None]
<1>1. "app" \in Processes /\ "app" # "pg"
  BY TwoProcesses, Distinct, Zenon
<1>2. /\ proc' = [proc EXCEPT !["app"].proxy = None] /\ ~Busy("app")
      /\ files' = files /\ disturbed' = disturbed
  BY Zenon DEF StopProxy, Running
<1>3. proc["app"] \in Process /\ proc' = [proc EXCEPT !["app"] = e]
  BY <1>1, <1>2, AtStep, Zenon
<1>4. e.todo = proc["app"].todo /\ e.up = proc["app"].up /\ e.ca = proc["app"].ca /\ e.proxy = None
  BY <1>3 DEF Process
<1> HIDE DEF e
<1>5. Path(e.todo) /\ Here(e.todo) = Done
  BY <1>1, <1>2, <1>4, Where, Before, Zenon
<1>6. ~Writing(e) /\ ~Unsettled(e) /\ Here(e.todo) # "write key" /\ Here(e.todo) # "remove key"
  BY <1>5, Distinct, Zenon DEF Writing, Unsettled
<1>7. Signs("app", e)
  BY <1>1, <1>4, Zenon DEF Signs
<1>8. Here(proc["app"].todo) # "remove key"
  BY <1>4, <1>6, Zenon
<1>9. ~disturbed => Agrees("app", e, files)
  <2>1. ~disturbed => Agrees("app", proc["app"], files)
    BY <1>1, <1>2, Before, Zenon
  <2>2. Relies("app", e) => Relies("app", proc["app"])
    BY <1>1, <1>4, Zenon DEF Relies
  <2> QED
    BY <1>4, <1>6, <2>1, <2>2, Zenon DEF Agrees
<1> QED
  BY <1>1, <1>2, <1>3, <1>5, <1>6, <1>7, <1>8, <1>9, MovesQuietly, Zenon

\* The steps of pg in launch and serve.
LEMMA LauncherMatches ==
    ASSUME IInv, AuthorityInv, NEW n, proc' = [proc EXCEPT !["pg"] = n],
           Here(proc["pg"].todo) = "launch" \/ Here(proc["pg"].todo) = "spawn",
           Path(n.todo), Here(n.todo) = "spawn" \/ Here(n.todo) = Done, n.ca = proc["pg"].ca,
           files' = files, disturbed' = disturbed
    PROVE  AuthorityInv'
<1>1. "pg" \in Processes /\ "app" # "pg"
  BY TwoProcesses, Distinct, Zenon
<1>2. ~Writing(n) /\ ~Unsettled(n) /\ Here(n.todo) # "write key" /\ Here(n.todo) # "remove key"
      /\ Here(proc["pg"].todo) # "remove key"
  BY Distinct, Zenon DEF Writing, Unsettled
<1>3. Signs("pg", n) /\ ~Relies("pg", n)
  BY <1>1, Zenon DEF Signs, Relies
<1>4. ~disturbed => Agrees("pg", n, files)
  <2>1. ~disturbed => Agrees("pg", proc["pg"], files)
    BY <1>1, Before, Zenon
  <2> QED
    BY <1>2, <1>3, <2>1, Zenon DEF Agrees
<1> QED
  BY <1>1, <1>2, <1>3, <1>4, MovesQuietly, Zenon

LEMMA ServeMatches ==
    ASSUME IInv, AuthorityInv, Serve
    PROVE  AuthorityInv'
<1> DEFINE e == [proc["pg"] EXCEPT !.proxy = proc["pg"].ca, !.served = TRUE]
           n == [e EXCEPT !.todo = <<>> \o Tail(@)]
<1>1. /\ At("pg", "launch") /\ proc' = [proc EXCEPT !["pg"] = n]
      /\ files' = files /\ disturbed' = disturbed
      /\ "pg" \in Processes /\ "app" # "pg"
  BY TwoProcesses, Distinct, Zenon DEF Serve, Then, Goes
<1>2. proc["pg"] \in Process /\ proc["pg"].ca \in Authority
  BY <1>1, AtStep, Zenon
<1>3. e \in Process /\ e.todo = proc["pg"].todo /\ e.ca = proc["pg"].ca
  BY <1>2 DEF Process
<1>4. Here(proc["pg"].todo) = "launch" /\ proc["pg"].todo # <<>> /\ Path(proc["pg"].todo)
  BY <1>1, Where, Before, Zenon
<1> HIDE DEF e
<1>5. Path(n.todo) /\ Leads("launch", Here(n.todo)) /\ n.ca = proc["pg"].ca
  BY <1>3, <1>4, Advances, Zenon
<1> HIDE DEF n
<1>6. Here(n.todo) = Done
  BY <1>5, LedTo, Zenon
<1> QED
  BY <1>1, <1>4, <1>5, <1>6, LauncherMatches, Zenon

LEMMA LaunchMatches ==
    ASSUME IInv, AuthorityInv, Launch
    PROVE  AuthorityInv'
<1> DEFINE n == [proc["pg"] EXCEPT !.reuse = Live, !.served = ~Live,
                                   !.proxy = IF Live THEN None ELSE proc["pg"].ca,
                                   !.todo = <<"spawn">> \o Tail(@)]
<1>1. /\ At("pg", "launch") /\ Goes("pg", [proc["pg"] EXCEPT !.reuse = Live, !.served = ~Live,
                                      !.proxy = IF Live THEN None ELSE proc["pg"].ca], <<"spawn">>)
      /\ files' = files /\ disturbed' = disturbed
      /\ "pg" \in Processes /\ "app" # "pg"
  BY TwoProcesses, Distinct, Zenon DEF Launch
<1>2. proc["pg"] \in Process
  BY <1>1, AtStep, Zenon
<1>3. proc' = [proc EXCEPT !["pg"] = n]
  BY <1>1 DEF Goes
<1>4. /\ n.todo = <<"spawn">> \o Tail(proc["pg"].todo) /\ n.ca = proc["pg"].ca
  BY <1>2 DEF Process
<1>5. /\ Here(proc["pg"].todo) = "launch" /\ proc["pg"].todo # <<>>
      /\ Path(proc["pg"].todo) /\ proc["pg"].todo \in Seq(Step)
  BY <1>1, Where, Before, Zenon
<1> HIDE DEF n
<1>6. Path(n.todo) /\ Here(n.todo) = "spawn"
  <2> DEFINE rest == Tail(proc["pg"].todo)
  <2>1. rest \in Seq(Step) /\ Path(rest) /\ Leads("launch", Here(rest))
    BY <1>5, PathTail, Zenon
  <2>2. Leads("spawn", Here(rest)) /\ "spawn" \in Step
    BY <2>1, LedTo, StepLeads, StepNames, Zenon
  <2> QED
    BY <1>4, <2>1, <2>2, PathBefore, Zenon
<1> QED
  BY <1>1, <1>3, <1>4, <1>5, <1>6, LauncherMatches, Zenon

LEMMA SpawnMatches ==
    ASSUME IInv, AuthorityInv, Spawn
    PROVE  AuthorityInv'
<1> DEFINE n == [proc["pg"] EXCEPT !.todo = <<>> \o Tail(@)]
<1>1. /\ At("pg", "spawn") /\ proc' = [proc EXCEPT !["pg"] = n]
      /\ files' = files /\ disturbed' = disturbed /\ "pg" \in Processes
  BY TwoProcesses, Zenon DEF Spawn, Then, Goes
<1>2. proc["pg"] \in Process
  BY <1>1, AtStep, Zenon
<1>3. Here(proc["pg"].todo) = "spawn" /\ proc["pg"].todo # <<>> /\ Path(proc["pg"].todo)
  BY <1>1, Where, Before, Zenon
<1>4. Path(n.todo) /\ Leads("spawn", Here(n.todo)) /\ n.ca = proc["pg"].ca
  BY <1>2, <1>3, Advances, Zenon
<1> HIDE DEF n
<1>5. Here(n.todo) = Done
  BY <1>4, LedTo, Zenon
<1> QED
  BY <1>1, <1>3, <1>4, <1>5, LauncherMatches, Zenon
-----------------------------------------------------------------------------
LEMMA BeginsMatched == Init => AuthorityInv
<1> SUFFICES ASSUME DirInit PROVE AuthorityInv
  BY DEF Init
<1>1. proc = [p \in Processes |-> Off] /\ disturbed = FALSE
      /\ files \in {[cert |-> None, key |-> None], [cert |-> 0, key |-> 0]}
  BY DEF DirInit
<1>2. files.cert = files.key
  BY <1>1
<1>3. \A p \in Processes : proc[p] = Off
  BY <1>1
<1>4. Controlled
  <2>1. disturbed \in BOOLEAN
    BY <1>1
  <2>2. \A p \in Processes : /\ Path(proc[p].todo) /\ Signs(p, proc[p])
                             /\ Writing(proc[p]) => proc[p].gen \in Nat
    BY <1>3, OffIsQuiet, Zenon
  <2> QED
    BY <2>1, <2>2, Zenon DEF Controlled
<1>5. Matched
  <2>1. \A p \in Processes : Agrees(p, proc[p], files) /\ ~Unsettled(proc[p])
    BY <1>3, OffIsQuiet, Zenon
  <2> QED
    BY <1>1, <1>2, <2>1, Zenon DEF Matched
<1> QED
  BY <1>4, <1>5, Zenon DEF AuthorityInv

LEMMA StaysMatched ==
    ASSUME AuthorityInv, UNCHANGED <<files, proc, disturbed>>
    PROVE  AuthorityInv'
<1>1. Controlled'
  <2>1. disturbed' \in BOOLEAN
        /\ \A p \in Processes : /\ Path(proc'[p].todo) /\ Signs(p, proc'[p])
                                /\ Writing(proc'[p]) => proc'[p].gen \in Nat
    BY Zenon DEF AuthorityInv, Controlled
  <2> QED
    BY <2>1 DEF Controlled, Path, After, Leads, Signs, Writing, Here, Done
<1>2. ASSUME Matched PROVE Matched'
  <2>1. /\ \A p \in Processes : Agrees(p, proc'[p], files')
        /\ Readable(files'.key) =>
              files'.cert = files'.key \/ \E p \in Processes : Here(proc'[p].todo) = "remove key"
        /\ \A p, q \in Processes : Unsettled(proc'[p]) /\ Unsettled(proc'[q]) => p = q
    BY <1>2, Zenon DEF Matched
  <2> QED
    BY <2>1 DEF Matched, Agrees, Relies, Writing, Unsettled, Here, Done, Readable
<1> QED
  BY <1>1, <1>2, Zenon DEF AuthorityInv

LEMMA KeepsMatched == IInv /\ AuthorityInv /\ [Next]_vars => AuthorityInv'
<1> SUFFICES ASSUME IInv, AuthorityInv, [Next]_vars PROVE AuthorityInv'
  OBVIOUS
<1>1. ASSUME NEW p \in Processes,
             \/ KeepLog(StartProcess(p)) \/ KeepLog(ReadVersion(p)) \/ KeepLog(AddColumn(p))
             \/ KeepLog(SetVersion(p)) \/ KeepLog(Opened(p)) \/ KeepLog(FailToOpen(p))
      PROVE  AuthorityInv'
  BY <1>1, StartMatches, ReadVersionMatches, AddColumnMatches, SetVersionMatches, OpenedMatches,
     FailToOpenMatches, Zenon DEF KeepLog
<1>2. ASSUME NEW p \in Processes,
             \/ KeepLog(Load(p)) \/ KeepLog(Generate(p)) \/ KeepLog(WriteCert(p))
             \/ KeepLog(WriteKey(p)) \/ KeepLog(WriteFails(p))
      PROVE  AuthorityInv'
  BY <1>2, LoadMatches, GenerateMatches, WriteCertMatches, WriteKeyMatches,
     WriteFailsMatches, Zenon DEF KeepLog
<1>3. ASSUME NEW p \in Processes, QuitWithLogs(p) \/ CrashWithLogs(p) PROVE AuthorityInv'
  BY <1>3, QuitMatches, CrashMatches, Zenon DEF QuitWithLogs, CrashWithLogs
<1>4. ASSUME NEW p \in Processes, RecordLog(p) \/ WriteFailsInDb(p) PROVE AuthorityInv'
  BY <1>4, StaysMatched DEF RecordLog, WriteFailsInDb, dirButBudget
<1>5. ASSUME NEW p \in Processes,
             KeepDir(Log!Begin(p)) \/ KeepDir(Log!Execute(p)) \/ KeepDir(Log!Commit(p))
      PROVE  AuthorityInv'
  BY <1>5, StaysMatched DEF KeepDir, dirVars
<1>6. ASSUME \/ KeepLog(Regenerate) \/ KeepLog(RemoveCert) \/ KeepLog(RemoveKey)
             \/ KeepLog(KeyStays) \/ KeepLog(StartProxy) \/ KeepLog(StopProxy)
             \/ KeepLog(Serve) \/ KeepLog(Launch) \/ KeepLog(Spawn)
      PROVE  AuthorityInv'
  BY <1>6, RegenerateMatches, RemoveCertMatches, RemoveKeyMatches, KeyStaysMatches,
     StartProxyMatches, StopProxyMatches, ServeMatches, LaunchMatches, SpawnMatches, Zenon DEF KeepLog
<1>7. ASSUME AppPurges \/ AppClears \/ KeepDir(Log!Tick) PROVE AuthorityInv'
  BY <1>7, StaysMatched DEF AppPurges, AppClears, KeepDir, dirVars
<1>8. CASE UNCHANGED vars
  BY <1>8, StaysMatched DEF vars, dirVars
<1> QED
  BY <1>1, <1>2, <1>3, <1>4, <1>5, <1>6, <1>7, <1>8, Zenon DEF Next
-----------------------------------------------------------------------------
\* What pg hands to its agent.  From the loading of the authority to the end of the agent pg has
\* it in memory, and the files are of it unless the application has changed them.
Loaded == {"read version", "migrate", "launch", "spawn"}
Holds(e, c) == Here(e.todo) \in Loaded \/ c # None

Settled(e, c) ==
    /\ Holds(e, c) => e.ca # None
    /\ c # None => e.up /\ Here(e.todo) = Done /\ c.via \in Processes
    /\ e.proxy # None => Here(e.todo) \in {"spawn", Done} /\ e.proxy = e.ca
Trusting(e, c, f) == (Holds(e, c) => e.ca = f) /\ (c # None => c.trusts = f.cert)

TrustInv ==
    /\ disturbed \in BOOLEAN /\ renewed \in BOOLEAN
    /\ Settled(proc["pg"], child)
    /\ disturbed \/ renewed \/ Trusting(proc["pg"], child, files)

LEMMA PgMoves ==
    ASSUME IInv, TrustInv, NEW e, proc' = [proc EXCEPT !["pg"] = e], Settled(e, child'),
           disturbed' \in BOOLEAN, renewed' \in BOOLEAN,
           disturbed' \/ renewed' \/ Trusting(e, child', files')
    PROVE  TrustInv'
<1>1. proc'["pg"] = e
  BY TwoProcesses DEF IInv, TypeOK
<1>2. Settled(proc'["pg"], child') /\ (disturbed' \/ renewed' \/ Trusting(proc'["pg"], child', files'))
  BY <1>1, Zenon
<1> QED
  BY <1>2 DEF TrustInv, Settled, Trusting, Holds, Here, Loaded, Done, Processes

LEMMA PgStays ==
    ASSUME TrustInv, proc'["pg"] = proc["pg"], child' = child,
           disturbed' \in BOOLEAN, disturbed => disturbed', renewed' \in BOOLEAN, renewed => renewed',
           files' = files \/ renewed' \/ proc["pg"].ca = None
    PROVE  TrustInv'
<1>1. Settled(proc'["pg"], child')
  BY Zenon DEF TrustInv
<1>2. ASSUME ~disturbed', ~renewed' PROVE Trusting(proc'["pg"], child', files')
  <2>1. Trusting(proc["pg"], child, files) /\ Settled(proc["pg"], child)
    BY <1>2, Zenon DEF TrustInv
  <2>2. CASE files' = files
    BY <2>1, <2>2, Zenon
  <2>3. CASE proc["pg"].ca = None
    <3>1. ~Holds(proc["pg"], child)
      BY <2>1, <2>3, Zenon DEF Settled
    <3> QED
      BY <3>1, Zenon DEF Trusting, Holds
  <2> QED
    BY <1>2, <2>2, <2>3, Zenon
<1> QED
  BY <1>1, <1>2 DEF TrustInv, Settled, Trusting, Holds, Here, Loaded, Done, Processes

LEMMA MarksBoolean ==
    ASSUME TrustInv
    PROVE  /\ \A p : Disturbs(p) => disturbed' \in BOOLEAN /\ (disturbed => disturbed')
           /\ \A p : Renews(p) => renewed' \in BOOLEAN /\ (renewed => renewed')
  BY DEF TrustInv, Disturbs, Renews

\* The steps of the application.
LEMMA AppRenews ==
    ASSUME Renews("app") PROVE files' = files \/ renewed' \/ proc["pg"].ca = None
  BY DEF Renews

LEMMA AppAlone ==
    ASSUME IInv
    PROVE  /\ \A e : proc' = [proc EXCEPT !["app"] = e] => proc'["pg"] = proc["pg"]
           /\ \A e, s : Goes("app", e, s) => proc'["pg"] = proc["pg"]
           /\ \A e : Then("app", e) => proc'["pg"] = proc["pg"]
<1>1. proc \in [Processes -> Process] /\ "app" # "pg" /\ "pg" \in Processes
  BY TwoProcesses, Distinct DEF IInv, TypeOK
<1>2. \A e : proc' = [proc EXCEPT !["app"] = e] => proc'["pg"] = proc["pg"]
  BY <1>1
<1> QED
  BY <1>2, Zenon DEF Goes, Then

LEMMA AppOpens ==
    ASSUME IInv, TrustInv,
           \/ StartProcess("app") \/ ReadVersion("app") \/ AddColumn("app") \/ SetVersion("app")
           \/ Opened("app") \/ FailToOpen("app")
    PROVE  TrustInv'
<1>1. files' = files /\ child' = child /\ disturbed' = disturbed
  BY Zenon DEF StartProcess, ReadVersion, AddColumn, SetVersion, Opened, FailToOpen
<1>2. renewed' = renewed
  BY DEF StartProcess, ReadVersion, AddColumn, SetVersion, Opened, FailToOpen, TrustInv
<1>3. proc'["pg"] = proc["pg"]
  <2>1. CASE StartProcess("app") \/ ReadVersion("app") \/ Opened("app") \/ FailToOpen("app")
    BY <2>1, AppAlone, Zenon DEF StartProcess, ReadVersion, Opened, FailToOpen
  <2>2. CASE AddColumn("app") \/ SetVersion("app")
    <3>1. proc \in [Processes -> Process] /\ "app" # "pg" /\ "pg" \in Processes
      BY TwoProcesses, Distinct DEF IInv, TypeOK
    <3> QED
      BY <2>2, <3>1 DEF AddColumn, SetVersion
  <2> QED
    BY <2>1, <2>2, Zenon
<1> QED
  BY <1>1, <1>2, <1>3, PgStays, Zenon DEF TrustInv

LEMMA AppMakes ==
    ASSUME IInv, TrustInv,
           \/ Load("app") \/ Generate("app") \/ WriteCert("app") \/ WriteKey("app")
           \/ RemoveCert \/ RemoveKey
    PROVE  TrustInv'
<1>1. proc'["pg"] = proc["pg"] /\ child' = child /\ Disturbs("app")
  BY AppAlone, Zenon DEF Load, Generate, WriteCert, WriteKey, RemoveCert, RemoveKey
<1>2. (files' = files /\ renewed' = renewed) \/ Renews("app")
  BY Zenon DEF Load, Generate, WriteCert, WriteKey, RemoveCert, RemoveKey
<1>3. renewed' \in BOOLEAN /\ (renewed => renewed')
  BY <1>2, MarksBoolean, Zenon DEF TrustInv
<1> QED
  BY <1>1, <1>2, <1>3, AppRenews, MarksBoolean, PgStays, Zenon

LEMMA AppEnds ==
    ASSUME IInv, TrustInv, WriteFails("app") \/ KeyStays \/ Quit("app") \/ Crash("app")
    PROVE  TrustInv'
<1>1. proc'["pg"] = proc["pg"]
  BY AppAlone, Zenon DEF WriteFails, KeyStays, Quit, Crash, Ends
<1>2. child' = child
  BY Distinct, Zenon DEF WriteFails, KeyStays, Quit, Crash, Ends
<1>3. disturbed' \in BOOLEAN /\ (disturbed => disturbed')
  BY DEF WriteFails, KeyStays, Quit, Crash, TrustInv, KeyAlone, Works, At, Busy
<1>4. (files' = files /\ renewed' = renewed) \/ Renews("app")
  BY Zenon DEF WriteFails, KeyStays, Quit, Crash
<1>5. renewed' \in BOOLEAN /\ (renewed => renewed')
  BY <1>4, MarksBoolean, Zenon DEF TrustInv
<1> QED
  BY <1>1, <1>2, <1>3, <1>4, <1>5, AppRenews, PgStays, Zenon

LEMMA AppServes ==
    ASSUME IInv, TrustInv, Regenerate \/ StartProxy \/ StopProxy
    PROVE  TrustInv'
<1>1. files' = files /\ child' = child /\ disturbed' = disturbed /\ renewed' = renewed
  BY Zenon DEF Regenerate, StartProxy, StopProxy
<1>2. proc \in [Processes -> Process] /\ "app" # "pg" /\ "pg" \in Processes
  BY TwoProcesses, Distinct DEF IInv, TypeOK
<1>3. proc'["pg"] = proc["pg"]
  BY <1>2 DEF Regenerate, StartProxy, StopProxy
<1> QED
  BY <1>1, <1>3, PgStays, Zenon DEF TrustInv

\* The steps of pg.  At none of them but the end does it have an agent.
LEMMA PgAtStep ==
    ASSUME IInv, TrustInv, NEW step, At("pg", step)
    PROVE  /\ proc["pg"] \in Process /\ proc["pg"].todo # <<>>
           /\ Here(proc["pg"].todo) = step /\ step # Done /\ child = None
           /\ disturbed \in BOOLEAN /\ renewed \in BOOLEAN
           /\ step # "spawn" => proc["pg"].proxy = None
           /\ step \in Loaded => proc["pg"].ca # None
           /\ step \in Loaded /\ ~disturbed /\ ~renewed => proc["pg"].ca = files
<1>1. /\ proc["pg"] \in Process /\ proc["pg"].todo # <<>> /\ Here(proc["pg"].todo) = step
      /\ step # Done
  BY TwoProcesses, Where, ZenonT(60) DEF At
<1>2. Settled(proc["pg"], child) /\ disturbed \in BOOLEAN /\ renewed \in BOOLEAN
  BY Zenon DEF TrustInv
<1>3. child = None /\ (step # "spawn" => proc["pg"].proxy = None)
  BY <1>1, <1>2, Zenon DEF Settled
<1>4. step \in Loaded => Holds(proc["pg"], child)
  BY <1>1, Zenon DEF Holds
<1>5. ~disturbed /\ ~renewed => Trusting(proc["pg"], child, files)
  BY Zenon DEF TrustInv
<1> QED
  BY <1>1, <1>2, <1>3, <1>4, <1>5, Zenon DEF Settled, Trusting

\* pg without an agent and without a proxy.
LEMMA PgEmpty ==
    ASSUME IInv, TrustInv, NEW e, proc' = [proc EXCEPT !["pg"] = e], child' = None,
           e.proxy = None, Here(e.todo) \notin Loaded,
           disturbed' \in BOOLEAN, renewed' \in BOOLEAN
    PROVE  TrustInv'
<1>1. Settled(e, child') /\ Trusting(e, child', files')
  BY Zenon DEF Settled, Trusting, Holds
<1> QED
  BY <1>1, PgMoves, Zenon

\* pg with the authority that is on disk, unless it was changed.
LEMMA PgHolds ==
    ASSUME IInv, TrustInv, NEW e, proc' = [proc EXCEPT !["pg"] = e], child' = None,
           Here(e.todo) \in Loaded => e.ca # None,
           e.proxy # None => Here(e.todo) \in {"spawn", Done} /\ e.proxy = e.ca,
           disturbed' \in BOOLEAN, renewed' \in BOOLEAN,
           disturbed' \/ renewed' \/ e.ca = files'
    PROVE  TrustInv'
<1>1. Settled(e, child')
  BY Zenon DEF Settled, Holds
<1>2. e.ca = files' => Trusting(e, child', files')
  BY Zenon DEF Trusting
<1> QED
  BY <1>1, <1>2, PgMoves, Zenon

LEMMA OffHolds == Off.proxy = None /\ Here(Off.todo) \notin Loaded
<1>1. Off.todo = <<>> /\ Off.proxy = None
  BY DEF Off
<1>2. Here(Off.todo) = Done
  BY <1>1, Zenon DEF Here
<1> QED
  BY <1>1, <1>2, Distinct, Zenon DEF Loaded

LEMMA PgStarts == ASSUME IInv, TrustInv, StartProcess("pg") PROVE TrustInv'
<1> DEFINE e == [Off EXCEPT !.up = TRUE, !.todo = Opening("pg")]
<1>1. e.todo = Opening("pg") /\ e.proxy = None
  BY DEF Off
<1>2. /\ proc' = [proc EXCEPT !["pg"] = e] /\ child' = child /\ disturbed' = disturbed
      /\ ~proc["pg"].up /\ renewed' \in BOOLEAN
  BY DEF StartProcess
<1> HIDE DEF e
<1>3. Here(e.todo) = "load"
  BY <1>1, Openings, Distinct, ZenonT(60)
<1>4. Here(e.todo) \notin Loaded
  BY <1>3, Distinct DEF Loaded
<1>5. child' = None /\ disturbed' \in BOOLEAN
  BY <1>2, Zenon DEF TrustInv, Settled
<1> QED
  BY <1>1, <1>2, <1>4, <1>5, PgEmpty, Zenon

LEMMA PgReads == ASSUME IInv, TrustInv, ReadVersion("pg") \/ Opened("pg") PROVE TrustInv'
<1> DEFINE e == IF ReadVersion("pg") THEN [proc["pg"] EXCEPT !.version = schema.version, !.column = 0]
                ELSE proc["pg"]
           n == [e EXCEPT !.todo = <<>> \o Tail(@)]
<1>1. PICK step \in {"read version", "migrate"} : At("pg", step)
  BY Zenon DEF ReadVersion, Opened
<1>2. /\ files' = files /\ child' = child /\ disturbed' = disturbed /\ renewed' = renewed
      /\ Then("pg", e)
  BY Zenon DEF ReadVersion, Opened
<1>3. /\ proc["pg"] \in Process /\ proc["pg"].todo # <<>> /\ Here(proc["pg"].todo) = step
      /\ child = None /\ disturbed \in BOOLEAN /\ renewed \in BOOLEAN
      /\ proc["pg"].proxy = None /\ proc["pg"].ca # None
      /\ ~disturbed /\ ~renewed => proc["pg"].ca = files
  <2>1. step \in Loaded /\ step # "spawn"
    BY <1>1 DEF Loaded
  <2> QED
    BY <1>1, <2>1, PgAtStep, Zenon
<1>4. n.ca = proc["pg"].ca /\ n.proxy = proc["pg"].proxy
  BY <1>3 DEF Process
<1>5. proc' = [proc EXCEPT !["pg"] = n]
  BY <1>2, Zenon DEF Then, Goes
<1> HIDE DEF e, n
<1> QED
  BY <1>2, <1>3, <1>4, <1>5, PgHolds, Zenon

LEMMA PgMigrates == ASSUME IInv, TrustInv, AddColumn("pg") \/ SetVersion("pg") PROVE TrustInv'
<1> DEFINE e == IF AddColumn("pg") THEN [proc["pg"] EXCEPT !.column = @ + 1]
                ELSE [proc["pg"] EXCEPT !.version = @ + 1]
<1>1. At("pg", "migrate")
  BY Zenon DEF AddColumn, SetVersion, Altering
<1>2. /\ proc["pg"] \in Process /\ Here(proc["pg"].todo) = "migrate"
      /\ child = None /\ disturbed \in BOOLEAN /\ renewed \in BOOLEAN
      /\ proc["pg"].proxy = None /\ proc["pg"].ca # None
      /\ ~disturbed /\ ~renewed => proc["pg"].ca = files
  <2>1. "migrate" \in Loaded /\ "migrate" # "spawn"
    BY DEF Loaded
  <2> QED
    BY <1>1, <2>1, PgAtStep, Zenon
<1>3. /\ files' = files /\ child' = child /\ disturbed' = disturbed /\ renewed' = renewed
  BY Zenon DEF AddColumn, SetVersion
<1>4. proc' = [proc EXCEPT !["pg"] = e]
  <2>1. proc \in [Processes -> Process] /\ "pg" \in Processes
    BY TwoProcesses DEF IInv, TypeOK
  <2>2. CASE AddColumn("pg")
    BY <2>1, <2>2 DEF AddColumn
  <2>3. CASE ~AddColumn("pg")
    <3>1. SetVersion("pg")
      BY <2>3
    <3>2. proc' = [proc EXCEPT !["pg"].version = @ + 1]
      BY <3>1, Zenon DEF SetVersion
    <3>3. e = [proc["pg"] EXCEPT !.version = @ + 1]
      BY <2>3, Zenon
    <3> HIDE DEF e
    <3> QED
      BY <2>1, <3>2, <3>3
  <2> QED
    BY <2>2, <2>3, Zenon
<1>5. e.ca = proc["pg"].ca /\ e.proxy = proc["pg"].proxy
  BY <1>2 DEF Process
<1> HIDE DEF e
<1> QED
  BY <1>2, <1>3, <1>4, <1>5, PgHolds, Zenon

LEMMA PgEnds ==
    ASSUME IInv, TrustInv, FailToOpen("pg") \/ Quit("pg") \/ Crash("pg")
    PROVE  TrustInv'
<1>1. proc' = [proc EXCEPT !["pg"] = Off]
  BY Zenon DEF FailToOpen, Quit, Crash, Ends
<1>2. child' = None
  <2>1. ASSUME FailToOpen("pg") PROVE child' = None
    <3>1. (At("pg", "read version") \/ At("pg", "migrate")) /\ child' = child
      BY <2>1, Zenon DEF FailToOpen, MigrationFails, Altering
    <3> QED
      BY <3>1, PgAtStep, Zenon
  <2> QED
    BY <2>1, Zenon DEF Quit, Crash, Ends
<1>3. disturbed' \in BOOLEAN /\ renewed' \in BOOLEAN
  BY DEF FailToOpen, Quit, Crash, Renews, TrustInv, KeyAlone, At, Busy
<1> QED
  BY <1>1, <1>2, <1>3, OffHolds, PgEmpty, Zenon

LEMMA RecordIsNotNone == None \notin [cert : File, key : File]
  BY DataDirAssumption DEF File

LEMMA PgLoads == ASSUME IInv, TrustInv, Load("pg") PROVE TrustInv'
<1> DEFINE e == [proc["pg"] EXCEPT !.ca = files]
           n == [e EXCEPT !.todo = <<>> \o Tail(@)]
<1>1. /\ At("pg", "load") /\ proc' = [proc EXCEPT !["pg"] = n] /\ files' = files /\ child' = child
      /\ Disturbs("pg") /\ renewed' = renewed
  BY Zenon DEF Load, Then, Goes
<1>2. /\ proc["pg"] \in Process /\ child = None /\ proc["pg"].proxy = None /\ renewed \in BOOLEAN
  BY <1>1, PgAtStep, Distinct, Zenon
<1>3. n.ca = files /\ n.proxy = None
  BY <1>2 DEF Process
<1>4. files # None
  <2>1. files \in [cert : File, key : File]
    BY AtStep, TwoProcesses, Zenon
  <2> QED
    BY <2>1, RecordIsNotNone, Zenon
<1>5. disturbed' \in BOOLEAN
  BY <1>1, MarksBoolean, Zenon
<1> HIDE DEF n
<1> QED
  BY <1>1, <1>2, <1>3, <1>4, <1>5, PgHolds, Zenon

LEMMA PgGenerates == ASSUME IInv, TrustInv, AuthorityInv, Generate("pg") PROVE TrustInv'
<1> DEFINE e == [proc["pg"] EXCEPT !.gen = made + 1]
           n == [e EXCEPT !.todo = <<"write cert", "write key">> \o Tail(@)]
<1>1. /\ At("pg", "load") /\ proc' = [proc EXCEPT !["pg"] = n] /\ child' = child
      /\ Disturbs("pg") /\ renewed' = renewed
  BY Zenon DEF Generate, Goes
<1>2. /\ proc["pg"] \in Process /\ child = None /\ proc["pg"].proxy = None /\ renewed \in BOOLEAN
      /\ proc["pg"].todo # <<>> /\ Here(proc["pg"].todo) = "load"
  BY <1>1, PgAtStep, Distinct, Zenon
<1>3. n.proxy = None /\ n.todo = <<"write cert", "write key">> \o Tail(proc["pg"].todo)
  BY <1>2 DEF Process
<1>4. Here(n.todo) = "write cert"
  <2> HIDE DEF n
  <2>1. proc["pg"].todo \in Seq(Step) /\ Path(proc["pg"].todo)
    BY Where, Before, TwoProcesses, Zenon
  <2> QED
    BY <1>2, <1>3, <2>1, GeneratesPath, Zenon
<1>5. Here(n.todo) \notin Loaded
  BY <1>4 DEF Loaded
<1>6. disturbed' \in BOOLEAN
  BY <1>1, MarksBoolean, Zenon
<1> HIDE DEF n
<1> QED
  BY <1>1, <1>2, <1>3, <1>5, <1>6, PgEmpty, Zenon

LEMMA PgWritesCert == ASSUME IInv, TrustInv, AuthorityInv, WriteCert("pg") PROVE TrustInv'
<1> DEFINE n == [proc["pg"] EXCEPT !.todo = <<>> \o Tail(@)]
<1>1. /\ At("pg", "write cert") /\ proc' = [proc EXCEPT !["pg"] = n] /\ child' = child
      /\ Disturbs("pg") /\ Renews("pg")
  BY Zenon DEF WriteCert, Then, Goes
<1>2. /\ proc["pg"] \in Process /\ child = None /\ proc["pg"].proxy = None
      /\ proc["pg"].todo # <<>> /\ Here(proc["pg"].todo) = "write cert" /\ Path(proc["pg"].todo)
  BY <1>1, PgAtStep, Before, Distinct, TwoProcesses, Zenon
<1>3. n.proxy = None /\ Leads("write cert", Here(n.todo))
  BY <1>2, Advances, Zenon
<1> HIDE DEF n
<1>4. Here(n.todo) = "write key"
  BY <1>3, LedTo, Zenon
<1>5. Here(n.todo) \notin Loaded
  BY <1>4 DEF Loaded
<1>6. disturbed' \in BOOLEAN /\ renewed' \in BOOLEAN
  BY <1>1, MarksBoolean, Zenon
<1> QED
  BY <1>1, <1>2, <1>3, <1>5, <1>6, PgEmpty, Zenon

LEMMA PgWritesKey == ASSUME IInv, TrustInv, AuthorityInv, WriteKey("pg") PROVE TrustInv'
<1> DEFINE gen == proc["pg"].gen
           e == [proc["pg"] EXCEPT !.ca = [cert |-> gen, key |-> gen]]
           n == [e EXCEPT !.todo = <<>> \o Tail(@)]
<1>1. /\ At("pg", "write key") /\ proc' = [proc EXCEPT !["pg"] = n] /\ child' = child
      /\ Disturbs("pg") /\ Renews("pg") /\ files' = [files EXCEPT !.key = gen]
  BY Zenon DEF WriteKey, Then, Goes
<1>2. /\ proc["pg"] \in Process /\ child = None /\ proc["pg"].proxy = None
      /\ Here(proc["pg"].todo) = "write key" /\ gen \in Nat
      /\ files \in [cert : File, key : File]
  BY <1>1, PgAtStep, WritingKnows, AtStep, Distinct, TwoProcesses, Zenon
<1>3. n.ca = [cert |-> gen, key |-> gen] /\ n.proxy = None
  BY <1>2 DEF Process
<1>4. n.ca # None
  <2>1. [cert |-> gen, key |-> gen] \in [cert : File, key : File]
    BY <1>2 DEF File
  <2> QED
    BY <1>3, <2>1, RecordIsNotNone, Zenon
<1>5. ASSUME ~disturbed' PROVE n.ca = files'
  <2>1. ~disturbed
    BY <1>1, <1>5, MarksBoolean, Zenon
  <2>2. files.cert = gen
    BY <1>2, <2>1, Before, TwoProcesses, Zenon DEF Agrees
  <2>3. files' = [files EXCEPT !.key = gen]
    BY <1>1, Zenon
  <2> HIDE DEF gen, n
  <2>4. files' = [cert |-> gen, key |-> gen]
    BY <1>2, <2>2, <2>3
  <2> QED
    BY <1>3, <2>4, Zenon
<1>6. disturbed' \in BOOLEAN /\ renewed' \in BOOLEAN
  BY <1>1, MarksBoolean, Zenon
<1> HIDE DEF n, gen
<1> QED
  BY <1>1, <1>2, <1>3, <1>4, <1>5, <1>6, PgHolds, Zenon

LEMMA PgFailsToWrite == ASSUME IInv, TrustInv, AuthorityInv, WriteFails("pg") PROVE TrustInv'
<1> DEFINE e == IF proc["pg"].ca = None THEN Off ELSE [proc["pg"] EXCEPT !.todo = <<>>]
<1>1. /\ At("pg", "write cert") \/ At("pg", "write key")
      /\ proc' = [proc EXCEPT !["pg"] = e] /\ child' = child
      /\ disturbed' = (disturbed \/ proc["pg"].ca # None) /\ Renews("pg")
  BY Zenon DEF WriteFails
<1>2. proc["pg"] \in Process /\ child = None /\ proc["pg"].proxy = None
  BY <1>1, PgAtStep, Distinct, Zenon
<1>3. e.proxy = None /\ Here(e.todo) \notin Loaded
  <2>1. [proc["pg"] EXCEPT !.todo = <<>>].todo = <<>> /\ [proc["pg"] EXCEPT !.todo = <<>>].proxy = None
    BY <1>2 DEF Process
  <2>2. Here(<<>>) = Done /\ Done \notin Loaded
    BY PathEmpty, Distinct, Zenon DEF Loaded
  <2> QED
    BY <2>1, <2>2, OffHolds, Zenon
<1>4. disturbed' \in BOOLEAN /\ renewed' \in BOOLEAN
  BY <1>1, MarksBoolean DEF TrustInv
<1> HIDE DEF e
<1> QED
  BY <1>1, <1>2, <1>3, <1>4, PgEmpty, Zenon

\* Serve and Launch sign with the authority in memory.
LEMMA PgServes == ASSUME IInv, TrustInv, AuthorityInv, Serve PROVE TrustInv'
<1> DEFINE e == [proc["pg"] EXCEPT !.proxy = proc["pg"].ca, !.served = TRUE]
           n == [e EXCEPT !.todo = <<>> \o Tail(@)]
<1>1. /\ At("pg", "launch") /\ proc' = [proc EXCEPT !["pg"] = n]
      /\ files' = files /\ child' = child /\ disturbed' = disturbed /\ renewed' = renewed
  BY Zenon DEF Serve, Then, Goes
<1>2. /\ proc["pg"] \in Process /\ proc["pg"].todo # <<>> /\ Here(proc["pg"].todo) = "launch"
      /\ proc["pg"].ca \in Authority /\ Path(proc["pg"].todo)
      /\ child = None /\ disturbed \in BOOLEAN /\ renewed \in BOOLEAN /\ proc["pg"].ca # None
      /\ ~disturbed /\ ~renewed => proc["pg"].ca = files
  <2>1. "launch" \in Loaded
    BY DEF Loaded
  <2> QED
    BY <1>1, <2>1, PgAtStep, AtStep, Before, TwoProcesses, ZenonT(60)
<1>3. e \in Process /\ e.todo = proc["pg"].todo /\ e.ca = proc["pg"].ca /\ e.proxy = proc["pg"].ca
  BY <1>2 DEF Process
<1> HIDE DEF e
<1>4. Leads("launch", Here(n.todo)) /\ n.ca = proc["pg"].ca /\ n.proxy = n.ca
  BY <1>2, <1>3, Advances, Zenon
<1> HIDE DEF n
<1>5. Here(n.todo) = Done
  BY <1>4, LedTo, Zenon
<1> QED
  BY <1>1, <1>2, <1>4, <1>5, PgHolds, Zenon

LEMMA PgLaunches == ASSUME IInv, TrustInv, AuthorityInv, Launch PROVE TrustInv'
<1> DEFINE n == [proc["pg"] EXCEPT !.reuse = Live, !.served = ~Live,
                                   !.proxy = IF Live THEN None ELSE proc["pg"].ca,
                                   !.todo = <<"spawn">> \o Tail(@)]
<1>1. /\ At("pg", "launch") /\ Goes("pg", [proc["pg"] EXCEPT !.reuse = Live, !.served = ~Live,
                                      !.proxy = IF Live THEN None ELSE proc["pg"].ca], <<"spawn">>)
      /\ files' = files /\ child' = child /\ disturbed' = disturbed /\ renewed' = renewed
  BY Zenon DEF Launch
<1>2. /\ proc["pg"] \in Process /\ proc["pg"].todo # <<>> /\ proc["pg"].todo \in Seq(Step)
      /\ Path(proc["pg"].todo) /\ Here(proc["pg"].todo) = "launch"
      /\ child = None /\ disturbed \in BOOLEAN /\ renewed \in BOOLEAN /\ proc["pg"].ca # None
      /\ ~disturbed /\ ~renewed => proc["pg"].ca = files
  <2>1. "launch" \in Loaded
    BY DEF Loaded
  <2> QED
    BY <1>1, <2>1, PgAtStep, Where, Before, TwoProcesses, Zenon
<1>3. proc' = [proc EXCEPT !["pg"] = n]
  BY <1>1 DEF Goes
<1>4. /\ n.todo = <<"spawn">> \o Tail(proc["pg"].todo) /\ n.ca = proc["pg"].ca
      /\ n.proxy = IF Live THEN None ELSE proc["pg"].ca
  BY <1>2 DEF Process
<1> HIDE DEF n
<1>5. Here(n.todo) = "spawn"
  <2> DEFINE rest == Tail(proc["pg"].todo)
  <2>1. rest \in Seq(Step) /\ Path(rest) /\ Leads("launch", Here(rest))
    BY <1>2, PathTail, Zenon
  <2>2. Leads("spawn", Here(rest)) /\ "spawn" \in Step
    BY <2>1, LedTo, StepLeads, StepNames, Zenon
  <2> QED
    BY <1>4, <2>1, <2>2, PathBefore, Zenon
<1>6. n.proxy # None => n.proxy = n.ca
  BY <1>4, Zenon
<1> QED
  BY <1>1, <1>2, <1>3, <1>4, <1>5, <1>6, PgHolds, Zenon

\* The agent reads the certificate of the authority that pg has.
LEMMA PgSpawns == ASSUME IInv, TrustInv, AuthorityInv, Spawn PROVE TrustInv'
<1> DEFINE n == [proc["pg"] EXCEPT !.todo = <<>> \o Tail(@)]
           c == [trusts |-> files.cert, via |-> IF proc["pg"].reuse THEN "app" ELSE "pg"]
<1>1. /\ At("pg", "spawn") /\ proc' = [proc EXCEPT !["pg"] = n] /\ child' = c
      /\ files' = files /\ disturbed' = disturbed /\ renewed' = renewed
  BY Zenon DEF Spawn, Then, Goes
<1>2. /\ proc["pg"] \in Process /\ proc["pg"].todo # <<>> /\ Here(proc["pg"].todo) = "spawn"
      /\ Path(proc["pg"].todo) /\ disturbed \in BOOLEAN /\ renewed \in BOOLEAN
      /\ proc["pg"].ca # None /\ proc["pg"].up
      /\ ~disturbed /\ ~renewed => proc["pg"].ca = files
  <2>1. "spawn" \in Loaded
    BY DEF Loaded
  <2> QED
    BY <1>1, <2>1, PgAtStep, Where, Before, TwoProcesses, Zenon
<1>3. /\ Leads("spawn", Here(n.todo)) /\ n.up = proc["pg"].up /\ n.ca = proc["pg"].ca
      /\ n.proxy = proc["pg"].proxy
  BY <1>2, Advances, Zenon
<1> HIDE DEF n
<1>4. Here(n.todo) = Done
  BY <1>3, LedTo, Zenon
<1>5. c.trusts = files.cert /\ c.via \in Processes
  BY DEF Processes
<1> HIDE DEF c
<1>6. Settled(n, child')
  <2>1. n.proxy # None => n.proxy = n.ca
    BY <1>3, Zenon DEF TrustInv, Settled
  <2> QED
    BY <1>1, <1>2, <1>3, <1>4, <1>5, <2>1, Zenon DEF Settled
<1>7. disturbed' \/ renewed' \/ Trusting(n, child', files')
  BY <1>1, <1>2, <1>3, <1>5, Zenon DEF Trusting
<1> QED
  BY <1>1, <1>2, <1>6, <1>7, PgMoves, Zenon

LEMMA TrustBegins == Init => TrustInv
<1> SUFFICES ASSUME DirInit PROVE TrustInv
  BY DEF Init
<1>1. proc["pg"] = Off /\ child = None /\ disturbed = FALSE /\ renewed = FALSE
  BY TwoProcesses DEF DirInit
<1> QED
  BY <1>1, OffHolds, Zenon DEF TrustInv, Settled, Trusting, Holds

LEMMA TrustStays ==
    ASSUME TrustInv, UNCHANGED <<files, proc, child, disturbed, renewed>>
    PROVE  TrustInv'
  BY PgStays DEF TrustInv

LEMMA AppKeepsTrust ==
    ASSUME IInv, TrustInv,
           \/ StartProcess("app") \/ ReadVersion("app") \/ AddColumn("app") \/ SetVersion("app")
           \/ Opened("app") \/ FailToOpen("app") \/ Load("app") \/ Generate("app")
           \/ WriteCert("app") \/ WriteKey("app") \/ WriteFails("app")
           \/ Quit("app") \/ Crash("app")
    PROVE  TrustInv'
  BY AppOpens, AppMakes, AppEnds, Zenon

LEMMA PgKeepsTrust ==
    ASSUME IInv, AuthorityInv, TrustInv,
           \/ StartProcess("pg") \/ ReadVersion("pg") \/ AddColumn("pg") \/ SetVersion("pg")
           \/ Opened("pg") \/ FailToOpen("pg") \/ Load("pg") \/ Generate("pg")
           \/ WriteCert("pg") \/ WriteKey("pg") \/ WriteFails("pg")
           \/ Quit("pg") \/ Crash("pg")
    PROVE  TrustInv'
  BY PgStarts, PgReads, PgMigrates, PgEnds, PgLoads, PgGenerates, PgWritesCert, PgWritesKey,
     PgFailsToWrite, Zenon

LEMMA KeepsTrust == IInv /\ AuthorityInv /\ TrustInv /\ [Next]_vars => TrustInv'
<1> SUFFICES ASSUME IInv, AuthorityInv, TrustInv, [Next]_vars PROVE TrustInv'
  OBVIOUS
<1>1. ASSUME NEW p \in Processes,
             \/ KeepLog(StartProcess(p)) \/ KeepLog(ReadVersion(p)) \/ KeepLog(AddColumn(p))
             \/ KeepLog(SetVersion(p)) \/ KeepLog(Opened(p)) \/ KeepLog(FailToOpen(p))
             \/ KeepLog(Load(p)) \/ KeepLog(Generate(p)) \/ KeepLog(WriteCert(p))
             \/ KeepLog(WriteKey(p)) \/ KeepLog(WriteFails(p))
             \/ QuitWithLogs(p) \/ CrashWithLogs(p)
      PROVE  TrustInv'
  <2>1. \/ StartProcess(p) \/ ReadVersion(p) \/ AddColumn(p) \/ SetVersion(p)
        \/ Opened(p) \/ FailToOpen(p) \/ Load(p) \/ Generate(p)
        \/ WriteCert(p) \/ WriteKey(p) \/ WriteFails(p) \/ Quit(p) \/ Crash(p)
    BY <1>1, Zenon DEF KeepLog, QuitWithLogs, CrashWithLogs
  <2>2. CASE p = "app"
    BY <2>1, <2>2, AppKeepsTrust, Zenon
  <2>3. CASE p = "pg"
    BY <2>1, <2>3, PgKeepsTrust, Zenon
  <2> QED
    BY <2>2, <2>3, TwoProcesses, Zenon
<1>2. ASSUME NEW p \in Processes,
             \/ RecordLog(p) \/ WriteFailsInDb(p)
             \/ KeepDir(Log!Begin(p)) \/ KeepDir(Log!Execute(p)) \/ KeepDir(Log!Commit(p))
      PROVE  TrustInv'
  BY <1>2, TrustStays DEF RecordLog, WriteFailsInDb, dirButBudget, KeepDir, dirVars
<1>3. ASSUME \/ KeepLog(Regenerate) \/ KeepLog(RemoveCert) \/ KeepLog(RemoveKey)
             \/ KeepLog(KeyStays) \/ KeepLog(StartProxy) \/ KeepLog(StopProxy)
             \/ KeepLog(Serve) \/ KeepLog(Launch) \/ KeepLog(Spawn)
      PROVE  TrustInv'
  BY <1>3, AppServes, AppMakes, AppEnds, PgServes, PgLaunches, PgSpawns, Zenon DEF KeepLog
<1>4. ASSUME AppPurges \/ AppClears \/ KeepDir(Log!Tick) PROVE TrustInv'
  BY <1>4, TrustStays DEF AppPurges, AppClears, KeepDir, dirVars
<1>5. CASE UNCHANGED vars
  BY <1>5, TrustStays DEF vars, dirVars
<1> QED
  BY <1>1, <1>2, <1>3, <1>4, <1>5, Zenon DEF Next

\* A proxy signs with the key of the certificate its clients are given, however often the two
\* programs start, end, die and make new authorities, as long as the files were not disturbed;
\* and the agent that pg starts trusts the proxy that listens where it is pointed, also when
\* that is another one than at the start, until the application changes the authority that pg
\* has loaded (load_or_create, regenerate_ca, launch).
THEOREM AuthorityIsOne == Spec => []AuthorityMatches
<1>1. IInv /\ AuthorityInv /\ TrustInv => AuthorityMatches
  <2> SUFFICES ASSUME IInv, AuthorityInv, TrustInv, ~disturbed
               PROVE  /\ \A p \in Processes : proc[p].ca # None => proc[p].ca.cert = proc[p].ca.key
                      /\ Running("app") => proc["app"].ca = files
                      /\ ~renewed => AgentTrusts
    BY Zenon DEF AuthorityMatches
  <2>1. \A p \in Processes : proc[p].ca # None => proc[p].ca.cert = proc[p].ca.key
    BY Before, Zenon DEF Agrees
  <2>2. proc["app"].up /\ Here(proc["app"].todo) = Done => proc["app"].ca = files
    BY TwoProcesses, Before, Zenon DEF Agrees, Relies
  <2>3. Running("app") => proc["app"].ca = files
    BY <2>2, TwoProcesses, Where, Zenon DEF Running
  <2>4. ASSUME ~renewed, child # None, proc[child.via].proxy # None
        PROVE  child.trusts = proc[child.via].proxy.cert
    <3>1. /\ child.via \in Processes /\ child.trusts = files.cert /\ proc["pg"].ca = files
          /\ proc["pg"].proxy # None => proc["pg"].proxy = proc["pg"].ca
      BY <2>4, Zenon DEF TrustInv, Settled, Trusting, Holds
    <3>2. CASE child.via = "pg"
      BY <2>4, <3>1, <3>2, Zenon
    <3>3. CASE child.via = "app"
      <4>1. Signs("app", proc["app"])
        BY TwoProcesses, Before, Zenon
      <4>2. proc["app"].proxy = files
        BY <2>2, <2>4, <3>3, <4>1, Zenon DEF Signs
      <4> QED
        BY <3>1, <3>3, <4>2, Zenon
    <3> QED
      BY <3>1, <3>2, <3>3, TwoProcesses, Zenon
  <2> QED
    BY <2>1, <2>3, <2>4, Zenon DEF AgentTrusts
<1> QED
  BY <1>1, Begins, Keeps, BeginsMatched, KeepsMatched, TrustBegins, KeepsTrust, PTL DEF Spec
-----------------------------------------------------------------------------
LEMMA StepMaps == [Next]_vars => [Log!LedgerNext]_(Log!ledgerVars)
<1> SUFFICES ASSUME [Next]_vars PROVE Log!LedgerNext \/ UNCHANGED logVars
  BY DEF logVars, Log!ledgerVars
<1>1. ASSUME NEW p \in Processes, QuitWithLogs(p) \/ CrashWithLogs(p) PROVE Log!LedgerNext
  BY <1>1 DEF QuitWithLogs, CrashWithLogs, Log!LedgerNext
<1>2. ASSUME NEW p \in Processes, RecordLog(p) \/ WriteFailsInDb(p) PROVE Log!LedgerNext
  BY <1>2 DEF RecordLog, WriteFailsInDb, Log!LedgerNext
<1>3. ASSUME NEW p \in Processes,
             KeepDir(Log!Begin(p)) \/ KeepDir(Log!Execute(p)) \/ KeepDir(Log!Commit(p))
      PROVE  Log!LedgerNext
  BY <1>3 DEF KeepDir, Log!LedgerNext
<1>4. ASSUME AppPurges \/ AppClears \/ KeepDir(Log!Tick) PROVE Log!LedgerNext
  BY <1>4 DEF AppPurges, AppClears, KeepDir, Log!LedgerNext
<1> QED
  BY <1>1, <1>2, <1>3, <1>4 DEF Next, KeepLog, vars

\* The two programs and the data directory implement the log on its own: a log is recorded,
\* written, lost, purged and cleared by its steps only (Store, and the writer thread).
THEOREM StorageRefinesLedger == Spec => Log!LedgerSpec
<1>1. Init => Log!LedgerInit
  BY DEF Init
<1> QED
  BY <1>1, StepMaps, PTL DEF Spec, Log!LedgerSpec

-----------------------------------------------------------------------------
\* The log on its own: its tables are determined by the set of the requests in them, and those
\* of a transaction by its statements that are done.

Statements ==
    {<<"request", "call", "events", "body">>, <<"call", "events", "body">>, <<"events", "body">>,
     <<"body">>, <<>>}

Recorded == {Log!Joined(content, [started |-> time]) : content \in Contents, time \in Nat}

LogTypeOK ==
    /\ now \in Nat
    /\ logs \in Seq(Recorded)
    /\ queue \in [Processes -> Seq(Nat)]
    /\ \A p \in Processes : \A i \in 1 .. Len(queue[p]) : queue[p][i] \in DOMAIN logs

\* The rows of the logs with these ids, in the four tables.
RequestsOf(ids) == [i \in ids |-> Log!RequestRow(logs[i])]
CallsOf(ids) == [i \in {j \in ids : logs[j].call # None} |-> logs[i].call]
EventsOf(ids) == UNION {Log!EventRows(i, logs[i]) : i \in ids}
BodiesOf(ids) == [i \in {j \in ids : logs[j].body # None} |-> logs[i].body]

Tables(ids1, ids2, ids3, ids4) ==
    [requests |-> RequestsOf(ids1), calls |-> CallsOf(ids2), events |-> EventsOf(ids3),
     bodies |-> BodiesOf(ids4)]
Whole(ids) == Tables(ids, ids, ids, ids)

\* The tables of a transaction that has still to execute these statements.
Built(ids, id, todo) ==
    LET done(n) == IF Len(todo) < n THEN ids \cup {id} ELSE ids
    IN  Tables(done(4), done(3), done(2), done(1))

Transaction(p, ids, id, todo) ==
    [by |-> p, id |-> id, todo |-> todo, tables |-> Built(ids, id, todo)]

Committed == \E ids \in SUBSET DOMAIN logs : db = Whole(ids)

InProgress ==
    \/ tx = None
    \/ \E p \in Processes, ids \in SUBSET DOMAIN logs, id \in DOMAIN logs, todo \in Statements :
          tx = Transaction(p, ids, id, todo)

LogInv == LogTypeOK /\ Committed /\ InProgress
-----------------------------------------------------------------------------
\* What a statement adds is in the tables of the logs with one id more.
LEMMA InsertAdds ==
    ASSUME NEW ids \in SUBSET DOMAIN logs, NEW id \in DOMAIN logs, NEW todo \in Statements \ {<<>>}
    PROVE  /\ Log!Insert(Built(ids, id, todo), Head(todo), id, logs[id]) = Built(ids, id, Tail(todo))
           /\ Tail(todo) \in Statements
<1> DEFINE all == ids \cup {id}
<1>1. Log!With(RequestsOf(ids), id, Log!RequestRow(logs[id])) = RequestsOf(all)
  BY DEF Log!With, RequestsOf
<1>2. logs[id].call # None => Log!With(CallsOf(ids), id, logs[id].call) = CallsOf(all)
  BY DEF Log!With, CallsOf
<1>3. logs[id].call = None => CallsOf(ids) = CallsOf(all)
  BY DEF CallsOf
<1>4. EventsOf(ids) \cup Log!EventRows(id, logs[id]) = EventsOf(all)
  BY DEF EventsOf
<1>5. logs[id].body # None => Log!With(BodiesOf(ids), id, logs[id].body) = BodiesOf(all)
  BY DEF Log!With, BodiesOf
<1>6. logs[id].body = None => BodiesOf(ids) = BodiesOf(all)
  BY DEF BodiesOf
<1>7. CASE todo = <<"request", "call", "events", "body">>
  <2>0. Len(todo) = 4 /\ Len(Tail(todo)) = 3
    BY <1>7
  <2>1. Head(todo) = "request" /\ Tail(todo) = <<"call", "events", "body">>
    BY <1>7
  <2>2. Built(ids, id, todo) = Tables(ids, ids, ids, ids)
    <3>1. PICK n : n = Len(todo)
      OBVIOUS
    <3>2. n = 4
      BY <2>0, <3>1, Zenon
    <3>3. ~(n < 4) /\ ~(n < 3) /\ ~(n < 2) /\ ~(n < 1)
      BY <3>2
    <3> QED
      BY <3>1, <3>3, Zenon DEF Built
  <2>3. Built(ids, id, Tail(todo)) = Tables(all, ids, ids, ids)
    <3>1. PICK n : n = Len(Tail(todo))
      OBVIOUS
    <3>2. n = 3
      BY <2>0, <3>1, Zenon
    <3>3. n < 4 /\ ~(n < 3) /\ ~(n < 2) /\ ~(n < 1)
      BY <3>2
    <3> QED
      BY <3>1, <3>3, Zenon DEF Built
  <2>4. Log!Insert(Tables(ids, ids, ids, ids), "request", id, logs[id]) = Tables(all, ids, ids, ids)
    BY <1>1 DEF Log!Insert, Tables
  <2> QED
    BY <2>1, <2>2, <2>3, <2>4 DEF Statements
<1>8. CASE todo = <<"call", "events", "body">>
  <2>0. Len(todo) = 3 /\ Len(Tail(todo)) = 2
    BY <1>8
  <2>1. Head(todo) = "call" /\ Tail(todo) = <<"events", "body">>
    BY <1>8
  <2>2. Built(ids, id, todo) = Tables(all, ids, ids, ids)
    <3>1. PICK n : n = Len(todo)
      OBVIOUS
    <3>2. n = 3
      BY <2>0, <3>1, Zenon
    <3>3. n < 4 /\ ~(n < 3) /\ ~(n < 2) /\ ~(n < 1)
      BY <3>2
    <3> QED
      BY <3>1, <3>3, Zenon DEF Built
  <2>3. Built(ids, id, Tail(todo)) = Tables(all, all, ids, ids)
    <3>1. PICK n : n = Len(Tail(todo))
      OBVIOUS
    <3>2. n = 2
      BY <2>0, <3>1, Zenon
    <3>3. n < 4 /\ n < 3 /\ ~(n < 2) /\ ~(n < 1)
      BY <3>2
    <3> QED
      BY <3>1, <3>3, Zenon DEF Built
  <2>4. Log!Insert(Tables(all, ids, ids, ids), "call", id, logs[id]) = Tables(all, all, ids, ids)
    BY <1>2, <1>3 DEF Log!Insert, Tables
  <2> QED
    BY <2>1, <2>2, <2>3, <2>4 DEF Statements
<1>9. CASE todo = <<"events", "body">>
  <2>0. Len(todo) = 2 /\ Len(Tail(todo)) = 1
    BY <1>9
  <2>1. Head(todo) = "events" /\ Tail(todo) = <<"body">>
    BY <1>9
  <2>2. Built(ids, id, todo) = Tables(all, all, ids, ids)
    <3>1. PICK n : n = Len(todo)
      OBVIOUS
    <3>2. n = 2
      BY <2>0, <3>1, Zenon
    <3>3. n < 4 /\ n < 3 /\ ~(n < 2) /\ ~(n < 1)
      BY <3>2
    <3> QED
      BY <3>1, <3>3, Zenon DEF Built
  <2>3. Built(ids, id, Tail(todo)) = Tables(all, all, all, ids)
    <3>1. PICK n : n = Len(Tail(todo))
      OBVIOUS
    <3>2. n = 1
      BY <2>0, <3>1, Zenon
    <3>3. n < 4 /\ n < 3 /\ n < 2 /\ ~(n < 1)
      BY <3>2
    <3> QED
      BY <3>1, <3>3, Zenon DEF Built
  <2>4. Log!Insert(Tables(all, all, ids, ids), "events", id, logs[id]) = Tables(all, all, all, ids)
    BY <1>4 DEF Log!Insert, Tables
  <2> QED
    BY <2>1, <2>2, <2>3, <2>4 DEF Statements
<1>10. CASE todo = <<"body">>
  <2>0. Len(todo) = 1 /\ Len(Tail(todo)) = 0
    BY <1>10
  <2>1. Head(todo) = "body" /\ Tail(todo) = <<>>
    BY <1>10
  <2>2. Built(ids, id, todo) = Tables(all, all, all, ids)
    <3>1. PICK n : n = Len(todo)
      OBVIOUS
    <3>2. n = 1
      BY <2>0, <3>1, Zenon
    <3>3. n < 4 /\ n < 3 /\ n < 2 /\ ~(n < 1)
      BY <3>2
    <3> QED
      BY <3>1, <3>3, Zenon DEF Built
  <2>3. Built(ids, id, Tail(todo)) = Tables(all, all, all, all)
    <3>1. PICK n : n = Len(Tail(todo))
      OBVIOUS
    <3>2. n = 0
      BY <2>0, <3>1, Zenon
    <3>3. n < 4 /\ n < 3 /\ n < 2 /\ n < 1
      BY <3>2
    <3> QED
      BY <3>1, <3>3, Zenon DEF Built
  <2>4. Log!Insert(Tables(all, all, all, ids), "body", id, logs[id]) = Tables(all, all, all, all)
    BY <1>5, <1>6 DEF Log!Insert, Tables
  <2> QED
    BY <2>1, <2>2, <2>3, <2>4 DEF Statements
<1> QED
  BY <1>7, <1>8, <1>9, <1>10 DEF Statements

\* Deleting requests leaves the rows of the others.
LEMMA DeleteLeaves ==
    ASSUME NEW ids \in SUBSET DOMAIN logs, NEW gone
    PROVE  Log!Delete(Whole(ids), gone) = Whole(ids \ gone)
<1>1. Log!Without(RequestsOf(ids), gone) = RequestsOf(ids \ gone)
  BY DEF Log!Without, RequestsOf
<1>2. Log!Without(CallsOf(ids), gone) = CallsOf(ids \ gone)
  BY DEF Log!Without, CallsOf
<1>3. Log!Without(BodiesOf(ids), gone) = BodiesOf(ids \ gone)
  BY DEF Log!Without, BodiesOf
<1>4. \A i \in ids : \A e \in Log!EventRows(i, logs[i]) : e.id = i
  BY DEF Log!EventRows
<1>5. {e \in EventsOf(ids) : e.id \notin gone} = EventsOf(ids \ gone)
  BY <1>4 DEF EventsOf
<1> QED
  BY <1>1, <1>2, <1>3, <1>5 DEF Log!Delete, Whole, Tables

\* The rows of logs that were recorded stay the same when another log is.
LEMMA RowsStay ==
    ASSUME NEW ids \in SUBSET DOMAIN logs, DOMAIN logs \subseteq DOMAIN logs',
           \A i \in DOMAIN logs : logs'[i] = logs[i]
    PROVE  /\ RequestsOf(ids)' = RequestsOf(ids) /\ CallsOf(ids)' = CallsOf(ids)
           /\ EventsOf(ids)' = EventsOf(ids) /\ BodiesOf(ids)' = BodiesOf(ids)
<1>1. \A i \in ids : logs'[i] = logs[i]
  OBVIOUS
<1>2. RequestsOf(ids)' = RequestsOf(ids)
  BY <1>1 DEF RequestsOf
<1>3. CallsOf(ids)' = CallsOf(ids)
  <2>1. {j \in ids : logs'[j].call # None} = {j \in ids : logs[j].call # None}
    BY <1>1
  <2> QED
    BY <1>1, <2>1 DEF CallsOf
<1>4. EventsOf(ids)' = EventsOf(ids)
  BY <1>1 DEF EventsOf
<1>5. BodiesOf(ids)' = BodiesOf(ids)
  <2>1. {j \in ids : logs'[j].body # None} = {j \in ids : logs[j].body # None}
    BY <1>1
  <2> QED
    BY <1>1, <2>1 DEF BodiesOf
<1> QED
  BY <1>2, <1>3, <1>4, <1>5

LEMMA WholeStays ==
    ASSUME NEW ids \in SUBSET DOMAIN logs, DOMAIN logs \subseteq DOMAIN logs',
           \A i \in DOMAIN logs : logs'[i] = logs[i]
    PROVE  /\ Whole(ids)' = Whole(ids) /\ ids \in SUBSET DOMAIN logs'
           /\ \A id \in DOMAIN logs : \A todo : Built(ids, id, todo)' = Built(ids, id, todo)
<1>1. Whole(ids)' = Whole(ids) /\ ids \in SUBSET DOMAIN logs'
  BY RowsStay DEF Whole, Tables
<1>2. ASSUME NEW id \in DOMAIN logs, NEW todo PROVE Built(ids, id, todo)' = Built(ids, id, todo)
  <2> DEFINE all == ids \cup {id}
  <2>1. all \in SUBSET DOMAIN logs
    OBVIOUS
  <2>2. /\ RequestsOf(all)' = RequestsOf(all) /\ CallsOf(all)' = CallsOf(all)
        /\ EventsOf(all)' = EventsOf(all) /\ BodiesOf(all)' = BodiesOf(all)
    BY <2>1, RowsStay
  <2> QED
    BY <2>2, RowsStay DEF Built, Tables
<1> QED
  BY <1>1, <1>2

LEMMA CommittedStays ==
    ASSUME DOMAIN logs \subseteq DOMAIN logs', \A i \in DOMAIN logs : logs'[i] = logs[i],
           Committed, db' = db
    PROVE  Committed'
<1>1. PICK ids \in SUBSET DOMAIN logs : db = Whole(ids)
  BY DEF Committed
<1> QED
  BY <1>1, WholeStays DEF Committed

LEMMA InProgressStays ==
    ASSUME DOMAIN logs \subseteq DOMAIN logs', \A i \in DOMAIN logs : logs'[i] = logs[i],
           InProgress, tx' = tx
    PROVE  InProgress'
<1>1. CASE tx = None
  BY <1>1 DEF InProgress
<1>2. CASE tx # None
  <2>1. PICK p \in Processes, ids \in SUBSET DOMAIN logs, id \in DOMAIN logs, todo \in Statements :
          tx = Transaction(p, ids, id, todo)
    BY <1>2 DEF InProgress
  <2>2. Transaction(p, ids, id, todo)' = Transaction(p, ids, id, todo)
    BY WholeStays DEF Transaction
  <2>3. ids \in SUBSET DOMAIN logs' /\ id \in DOMAIN logs'
    OBVIOUS
  <2> QED
    BY <2>1, <2>2, <2>3 DEF InProgress
<1> QED
  BY <1>1, <1>2

LEMMA LogInit == Log!LedgerInit => LogInv
<1> SUFFICES ASSUME Log!LedgerInit PROVE LogInv
  OBVIOUS
<1>1. LogTypeOK
  BY DEF Log!LedgerInit, LogTypeOK
<1>2. Committed
  <2>1. RequestsOf({}) = <<>>
    BY DEF RequestsOf
  <2>2. CallsOf({}) = <<>> /\ BodiesOf({}) = <<>>
    BY DEF CallsOf, BodiesOf
  <2>3. EventsOf({}) = {}
    BY DEF EventsOf
  <2>4. db = Whole({})
    BY <2>1, <2>2, <2>3 DEF Log!LedgerInit, Log!Empty, Whole, Tables
  <2> QED
    BY <2>4 DEF Committed
<1>3. InProgress
  BY DEF Log!LedgerInit, InProgress
<1> QED
  BY <1>1, <1>2, <1>3 DEF LogInv

LEMMA LogNext == LogInv /\ [Log!LedgerNext]_(Log!ledgerVars) => LogInv'
<1> SUFFICES ASSUME LogInv, [Log!LedgerNext]_(Log!ledgerVars) PROVE LogInv'
  OBVIOUS
<1> USE DEF LogInv
<1>1. ASSUME NEW p \in Processes, NEW content \in Contents, Log!Record(p, content) PROVE LogInv'
  <2> DEFINE time == now - content.duration
  <2>1. content.duration \in Nat /\ content.duration <= now /\ now \in Nat
    BY <1>1, LogAssumption DEF Log!Record, Log!IsContent, LogTypeOK
  <2>2. time \in Nat
    BY <2>1
  <2>0. PICK log \in Recorded : log = Log!Joined(content, [started |-> time])
    BY <2>2 DEF Recorded
  <2>3. /\ logs \in Seq(Recorded) /\ logs' = Append(logs, log)
        /\ queue' = [queue EXCEPT ![p] = Append(@, Len(logs'))]
    BY <1>1, <2>0 DEF Log!Record, LogTypeOK
  <2>4. DOMAIN logs = 1 .. Len(logs) /\ DOMAIN logs' = 1 .. Len(logs) + 1 /\ Len(logs) \in Nat
    BY <2>3
  <2>5. DOMAIN logs \subseteq DOMAIN logs' /\ \A i \in DOMAIN logs : logs'[i] = logs[i]
    BY <2>3, <2>4
  <2>6. now' = now /\ db' = db /\ tx' = tx
    BY <1>1 DEF Log!Record
  <2>7. LogTypeOK'
    <3>0. logs' \in Seq(Recorded) /\ Len(logs') = Len(logs) + 1
      BY <2>3
    <3>1. queue' \in [Processes -> Seq(Nat)]
      BY <2>3, <2>4, <3>0 DEF LogTypeOK
    <3>2. ASSUME NEW q \in Processes, NEW i \in 1 .. Len(queue'[q]) PROVE queue'[q][i] \in DOMAIN logs'
      BY <2>3, <2>4, <3>0, SMTT(60) DEF LogTypeOK
    <3> QED
      BY <2>6, <3>0, <3>1, <3>2 DEF LogTypeOK
  <2> QED
    BY <2>5, <2>6, <2>7, CommittedStays, InProgressStays
<1>2. ASSUME NEW p \in Processes, Log!Begin(p) PROVE LogInv'
  <2>1. logs' = logs /\ db' = db /\ now' = now /\ queue' = [queue EXCEPT ![p] = Tail(@)] /\ queue[p] # <<>>
    BY <1>2 DEF Log!Begin
  <2>2. PICK id \in DOMAIN logs : id = Head(queue[p])
    BY <2>1 DEF LogTypeOK
  <2>3. LogTypeOK'
    <3>1. queue' \in [Processes -> Seq(Nat)]
      BY <2>1 DEF LogTypeOK
    <3>2. ASSUME NEW q \in Processes, NEW i \in 1 .. Len(queue'[q]) PROVE queue'[q][i] \in DOMAIN logs'
      BY <2>1 DEF LogTypeOK
    <3> QED
      BY <2>1, <3>1, <3>2 DEF LogTypeOK
  <2>4. Committed'
    BY <2>1, CommittedStays
  <2>5. PICK ids \in SUBSET DOMAIN logs : db = Whole(ids)
    BY DEF Committed
  <2>6. PICK todo \in Statements : todo = <<"request", "call", "events", "body">>
    BY DEF Statements
  <2>7. Built(ids, id, todo) = Whole(ids)
    BY <2>6 DEF Built, Whole
  <2>8. tx' = Transaction(p, ids, id, todo)
    BY <1>2, <2>2, <2>5, <2>6, <2>7 DEF Log!Begin, Transaction
  <2>9. Transaction(p, ids, id, todo)' = Transaction(p, ids, id, todo)
    BY <2>1, WholeStays DEF Transaction
  <2>10. InProgress'
    BY <2>1, <2>8, <2>9 DEF InProgress
  <2> QED
    BY <2>3, <2>4, <2>10
<1>3. ASSUME NEW p \in Processes, Log!Execute(p) PROVE LogInv'
  <2>1. logs' = logs /\ db' = db /\ now' = now /\ queue' = queue /\ tx # None /\ tx.todo # <<>>
    BY <1>3 DEF Log!Execute, Log!Writes
  <2>2. PICK q \in Processes, ids \in SUBSET DOMAIN logs, id \in DOMAIN logs, todo \in Statements :
          tx = Transaction(q, ids, id, todo)
    BY <2>1 DEF InProgress
  <2>3. todo \in Statements \ {<<>>}
    BY <2>1, <2>2 DEF Transaction
  <2>4. PICK left \in Statements : left = Tail(todo)
    BY <2>3, InsertAdds
  <2>5. tx' = [by |-> q, id |-> id, todo |-> Tail(todo),
               tables |-> Log!Insert(Built(ids, id, todo), Head(todo), id, logs[id])]
    BY <1>3, <2>2 DEF Log!Execute, Transaction
  <2>6. tx' = Transaction(q, ids, id, left)
    BY <2>3, <2>4, <2>5, InsertAdds DEF Transaction
  <2>7. Transaction(q, ids, id, left)' = Transaction(q, ids, id, left)
    BY <2>1, WholeStays DEF Transaction
  <2>8. InProgress'
    BY <2>1, <2>6, <2>7 DEF InProgress
  <2> QED
    BY <2>1, <2>8, CommittedStays DEF LogTypeOK
<1>4. ASSUME NEW p \in Processes, Log!Commit(p) PROVE LogInv'
  <2>1. /\ logs' = logs /\ now' = now /\ queue' = queue /\ tx # None /\ tx.todo = <<>>
        /\ tx' = None /\ db' = tx.tables
    BY <1>4 DEF Log!Commit, Log!Writes
  <2>2. PICK q \in Processes, ids \in SUBSET DOMAIN logs, id \in DOMAIN logs, todo \in Statements :
          tx = Transaction(q, ids, id, todo)
    BY <2>1 DEF InProgress
  <2>3. todo = <<>> /\ db' = Built(ids, id, todo)
    BY <2>1, <2>2 DEF Transaction
  <2>4. PICK all \in SUBSET DOMAIN logs : all = ids \cup {id}
    OBVIOUS
  <2>5. db' = Whole(all)
    BY <2>3, <2>4 DEF Built, Whole
  <2>6. Whole(all)' = Whole(all)
    BY <2>1, WholeStays
  <2>7. Committed'
    BY <2>1, <2>5, <2>6 DEF Committed
  <2> QED
    BY <2>1, <2>7 DEF LogTypeOK, InProgress
<1>5. ASSUME NEW p \in Processes, Log!InsertFails(p) \/ Log!Lose(p) PROVE LogInv'
  <2>1. /\ logs' = logs /\ db' = db /\ now' = now /\ (tx' = None \/ tx' = tx)
        /\ queue' = queue \/ queue' = [queue EXCEPT ![p] = <<>>]
    BY <1>5 DEF Log!InsertFails, Log!Lose
  <2>2. LogTypeOK'
    <3>1. CASE queue' = queue
      BY <2>1, <3>1 DEF LogTypeOK
    <3>2. CASE queue' = [queue EXCEPT ![p] = <<>>]
      <4>1. queue' \in [Processes -> Seq(Nat)]
        BY <3>2 DEF LogTypeOK
      <4>2. ASSUME NEW q \in Processes, NEW i \in 1 .. Len(queue'[q])
            PROVE  queue'[q][i] \in DOMAIN logs'
        BY <2>1, <3>2 DEF LogTypeOK
      <4> QED
        BY <2>1, <4>1, <4>2 DEF LogTypeOK
    <3> QED
      BY <2>1, <3>1, <3>2
  <2>3. InProgress'
    BY <2>1, InProgressStays DEF InProgress
  <2> QED
    BY <2>1, <2>2, <2>3, CommittedStays
<1>6. ASSUME Log!Purge \/ Log!ClearLogs PROVE LogInv'
  <2>1. PICK gone : db' = Log!Delete(db, gone)
    BY <1>6 DEF Log!Purge, Log!ClearLogs
  <2>2. PICK ids \in SUBSET DOMAIN logs : db = Whole(ids)
    BY DEF Committed
  <2>3. PICK left \in SUBSET DOMAIN logs : left = ids \ gone
    OBVIOUS
  <2>4. db' = Whole(left)
    BY <2>1, <2>2, <2>3, DeleteLeaves
  <2>5. logs' = logs /\ now' = now /\ queue' = queue /\ tx' = tx /\ tx = None
    BY <1>6 DEF Log!Purge, Log!ClearLogs
  <2>6. Whole(left)' = Whole(left)
    BY <2>5, WholeStays
  <2>7. Committed'
    BY <2>4, <2>5, <2>6 DEF Committed
  <2> QED
    BY <2>5, <2>7 DEF LogTypeOK, InProgress
<1>7. ASSUME Log!Tick \/ UNCHANGED (Log!ledgerVars) PROVE LogInv'
  <2>1. logs' = logs /\ queue' = queue /\ db' = db /\ tx' = tx /\ now' \in Nat
    BY <1>7 DEF Log!Tick, Log!ledgerVars, LogTypeOK
  <2> QED
    BY <2>1, CommittedStays, InProgressStays DEF LogTypeOK
<1> QED
  BY <1>1, <1>2, <1>3, <1>4, <1>5, <1>6, <1>7 DEF Log!LedgerNext

\* Tables of whole logs have exactly the rows of each of their requests.
LEMMA WholeIsWhole == LogInv => Log!RowsWhole
<1> SUFFICES ASSUME LogInv PROVE Log!RowsWhole
  OBVIOUS
<1>1. PICK ids \in SUBSET DOMAIN logs : db = Whole(ids)
  BY DEF LogInv, Committed
<1>2. /\ db.requests = RequestsOf(ids) /\ db.calls = CallsOf(ids)
      /\ db.events = EventsOf(ids) /\ db.bodies = BodiesOf(ids)
  BY <1>1 DEF Whole, Tables
<1>3. DOMAIN db.requests = ids
  BY <1>2 DEF RequestsOf
<1>4. DOMAIN db.calls \subseteq ids /\ DOMAIN db.bodies \subseteq ids
  BY <1>2 DEF CallsOf, BodiesOf
<1>5. \A i \in ids : \A e \in Log!EventRows(i, logs[i]) : e.id = i
  BY DEF Log!EventRows
<1>6. {e.id : e \in db.events} \subseteq ids
  BY <1>2, <1>5 DEF EventsOf
<1>7. ASSUME NEW id \in ids
      PROVE  Log!RequestDetail(id) = [request |-> Log!RequestRow(logs[id]), call |-> logs[id].call,
                                  redactions |-> Log!EventRows(id, logs[id]), body |-> logs[id].body]
  <2>1. db.requests[id] = Log!RequestRow(logs[id])
    BY <1>2, <1>7 DEF RequestsOf
  <2>2. (IF id \in DOMAIN db.calls THEN db.calls[id] ELSE None) = logs[id].call
    BY <1>2, <1>7 DEF CallsOf
  <2>3. {e \in db.events : e.id = id} = Log!EventRows(id, logs[id])
    BY <1>2, <1>5, <1>7 DEF EventsOf
  <2>4. (IF id \in DOMAIN db.bodies THEN db.bodies[id] ELSE None) = logs[id].body
    BY <1>2, <1>7 DEF BodiesOf
  <2> QED
    BY <1>3, <2>1, <2>2, <2>3, <2>4 DEF Log!RequestDetail
<1> QED
  BY <1>3, <1>4, <1>6, <1>7 DEF Log!RowsWhole

\* A request in the database has exactly the rows of its log (insert_log and its
\* transaction, ON DELETE CASCADE), whatever fails, is deleted or dies.
THEOREM LedgerRowsWhole == Log!LedgerSpec => []Log!RowsWhole
<1>1. Log!LedgerSpec => []LogInv
  BY LogInit, LogNext, PTL DEF Log!LedgerSpec
<1> QED
  BY <1>1, WholeIsWhole, PTL

\* A request in the database has exactly the rows of its log, whatever fails, is deleted or
\* dies of either program (insert_log, purge_before, clear_logs, the writer thread).
THEOREM StorageRowsWhole == Spec => []RowsWhole
<1>1. Log!RowsWhole => RowsWhole
  BY DEF RowsWhole
<1> QED
  BY <1>1, StorageRefinesLedger, LedgerRowsWhole, PTL
-----------------------------------------------------------------------------
\* Sums over finite sets: SumFunctionOnSet adds the values in the order that CHOOSE takes them;
\* the order does not matter.

Pick(S) == CHOOSE x \in S : TRUE
Sum(F, S) == Log!SumFunctionOnSet(F, S)

\* The function that SumFunctionOnSet applies to S is given by a recursive equation.
SumStep(g, F, s) == IF s = {} THEN 0 ELSE F[Pick(s)] + g[s \ {Pick(s)}]
Sums(g, F, S) == g = [s \in SUBSET S |-> SumStep(g, F, s)]
SumsOf(F, S) == CHOOSE g : Sums(g, F, S)

LEMMA SumIs == ASSUME NEW F, NEW S PROVE Sum(F, S) = SumsOf(F, S)[S]
  BY DEF Sum, SumsOf, Sums, SumStep, Pick, Log!SumFunctionOnSet, Log!FoldFunctionOnSet, Log!MapThenFoldSet

LEMMA PickIn == ASSUME NEW S, S # {} PROVE Pick(S) \in S
  BY DEF Pick

\* What holds of a set when it holds of its strict subsets holds of all subsets of a finite one.
LEMMA SubsetInduction ==
    ASSUME NEW S, IsFiniteSet(S), NEW P,
           \A T \in SUBSET S : (\A U \in SUBSET T : U # T => U \in P) => T \in P
    PROVE  \A T \in SUBSET S : T \in P
<1> DEFINE R == StrictSubsetOrdering(S)
           bad == {T \in SUBSET S : T \notin P}
<1>1. IsWellFoundedOn(R, FiniteSubsetsOf(S))
  BY FS_StrictSubsetOrderingWellFounded
<1>2. bad \subseteq FiniteSubsetsOf(S)
  BY FS_Subset DEF FiniteSubsetsOf
<1>3. SUFFICES ASSUME bad # {} PROVE FALSE
  OBVIOUS
<1>4. PICK T \in bad : \A U \in bad : <<U, T>> \notin R
  <2> HIDE DEF R, bad
  <2> QED
    BY <1>1, <1>2, <1>3, WFMin
<1>5. ASSUME NEW U \in SUBSET T, U # T PROVE U \in P
  <2>1. <<U, T>> \in R
    BY <1>4, <1>5 DEF StrictSubsetOrdering
  <2> QED
    BY <1>4, <2>1
<1> QED
  BY <1>4, <1>5

\* What holds of the empty set, and of a set when it holds without one of its elements.
LEMMA RemoveInduction ==
    ASSUME NEW S, IsFiniteSet(S), NEW P, {} \in P,
           \A T \in SUBSET S : \A x \in T : T \ {x} \in P => T \in P
    PROVE  S \in P
<1>1. ASSUME NEW T \in SUBSET S, \A U \in SUBSET T : U # T => U \in P PROVE T \in P
  <2>1. CASE T = {}
    BY <2>1
  <2>2. CASE T # {}
    <3>1. PICK x \in T : TRUE
      BY <2>2
    <3>2. T \ {x} \in SUBSET T /\ T \ {x} # T
      BY <3>1
    <3> QED
      BY <1>1, <3>1, <3>2
  <2> QED
    BY <2>1, <2>2
<1> QED
  BY <1>1, SubsetInduction

LEMMA SumsValue ==
    ASSUME NEW g, NEW F, NEW S, Sums(g, F, S), NEW s \in SUBSET S
    PROVE  g[s] = SumStep(g, F, s)
  BY DEF Sums

LEMMA SumsUnique ==
    ASSUME NEW F, NEW S, NEW T \in SUBSET S, IsFiniteSet(S), NEW g, NEW h, Sums(g, F, S), Sums(h, F, T)
    PROVE  \A s \in SUBSET T : g[s] = h[s]
<1> DEFINE P == {s \in SUBSET T : g[s] = h[s]}
<1>1. IsFiniteSet(T)
  BY FS_Subset
<1>2. ASSUME NEW s \in SUBSET T, \A u \in SUBSET s : u # s => u \in P PROVE s \in P
  <2>1. g[s] = SumStep(g, F, s) /\ h[s] = SumStep(h, F, s)
    BY SumsValue
  <2>2. CASE s = {}
    BY <2>1, <2>2 DEF SumStep
  <2>3. CASE s # {}
    <3>1. PICK x \in s : x = Pick(s)
      BY <2>3, PickIn
    <3>2. s \ {x} \in SUBSET s /\ s \ {x} # s
      BY <3>1
    <3>3. g[s \ {x}] = h[s \ {x}]
      BY <1>2, <3>2
    <3> QED
      BY <2>1, <2>3, <3>1, <3>3 DEF SumStep
  <2> QED
    BY <2>2, <2>3
<1> HIDE DEF P
<1>3. \A s \in SUBSET T : s \in P
  BY <1>1, <1>2, SubsetInduction
<1> QED
  BY <1>3 DEF P

LEMMA SumsExist ==
    ASSUME NEW F, NEW S, IsFiniteSet(S)
    PROVE  Sums(SumsOf(F, S), F, S)
<1> DEFINE P == {T \in SUBSET S : \E g : Sums(g, F, T)}
<1>1. ASSUME NEW T \in SUBSET S, \A U \in SUBSET T : U # T => U \in P PROVE T \in P
  <2>1. ASSUME NEW U \in SUBSET T, U # T PROVE Sums(SumsOf(F, U), F, U)
    BY <1>1, <2>1 DEF SumsOf
  <2> DEFINE last(s) == s \ {Pick(s)}
             g == [s \in SUBSET T |-> IF s = {} THEN 0 ELSE F[Pick(s)] + SumsOf(F, last(s))[last(s)]]
  <2>2. ASSUME NEW U \in SUBSET T, U # T PROVE g[U] = SumsOf(F, U)[U]
    <3>1. SumsOf(F, U)[U] = SumStep(SumsOf(F, U), F, U)
      BY <2>1, <2>2, SumsValue
    <3>2. CASE U = {}
      BY <3>1, <3>2 DEF SumStep
    <3>3. CASE U # {}
      <4>1. PICK V : V = last(U)
        OBVIOUS
      <4>2. V \in SUBSET U /\ V \in SUBSET T /\ V # T
        BY <2>2, <4>1
      <4>3. IsFiniteSet(U)
        BY FS_Subset
      <4>4. SumsOf(F, U)[V] = SumsOf(F, V)[V]
        BY <2>1, <2>2, <4>2, <4>3, SumsUnique
      <4>5. g[U] = F[Pick(U)] + SumsOf(F, V)[V]
        BY <3>3, <4>1
      <4>6. SumStep(SumsOf(F, U), F, U) = F[Pick(U)] + SumsOf(F, U)[V]
        BY <3>3, <4>1 DEF SumStep
      <4> QED
        BY <3>1, <4>4, <4>5, <4>6
    <3> QED
      BY <3>2, <3>3
  <2>3. ASSUME NEW s \in SUBSET T PROVE g[s] = SumStep(g, F, s)
    <3>1. CASE s = {}
      BY <3>1 DEF SumStep
    <3>2. CASE s # {}
      <4>1. PICK V : V = last(s)
        OBVIOUS
      <4>2. V \in SUBSET T /\ V # T
        BY <3>2, <4>1, PickIn
      <4>3. g[V] = SumsOf(F, V)[V]
        BY <2>2, <4>2
      <4>4. g[s] = F[Pick(s)] + SumsOf(F, V)[V]
        BY <3>2, <4>1
      <4>5. SumStep(g, F, s) = F[Pick(s)] + g[V]
        BY <3>2, <4>1 DEF SumStep
      <4> QED
        BY <4>3, <4>4, <4>5
    <3> QED
      BY <3>1, <3>2
  <2>4. \E h : h = g
    OBVIOUS
  <2>5. g = [s \in SUBSET T |-> g[s]]
    OBVIOUS
  <2> HIDE DEF g
  <2>6. g = [s \in SUBSET T |-> SumStep(g, F, s)]
    BY <2>3, <2>5
  <2> QED
    BY <2>6 DEF Sums
<1> HIDE DEF P
<1>2. S \in P
  BY <1>1, SubsetInduction
<1> QED
  BY <1>2 DEF P, SumsOf

LEMMA SumEmpty == ASSUME NEW F PROVE Sum(F, {}) = 0
<1>1. Sums(SumsOf(F, {}), F, {})
  BY SumsExist, FS_EmptySet
<1> QED
  BY <1>1, SumIs, SumsValue DEF SumStep

LEMMA SumPicked ==
    ASSUME NEW F, NEW S, IsFiniteSet(S), S # {}
    PROVE  Sum(F, S) = F[Pick(S)] + Sum(F, S \ {Pick(S)})
<1>1. PICK T \in SUBSET S : T = S \ {Pick(S)}
  OBVIOUS
<1>2. IsFiniteSet(T)
  BY FS_Subset
<1>3. Sums(SumsOf(F, S), F, S) /\ Sums(SumsOf(F, T), F, T)
  BY <1>2, SumsExist
<1>4. SumsOf(F, S)[S] = F[Pick(S)] + SumsOf(F, S)[T]
  BY <1>1, <1>3, SumsValue DEF SumStep
<1>5. SumsOf(F, S)[T] = SumsOf(F, T)[T]
  BY <1>3, SumsUnique
<1> QED
  BY <1>1, <1>4, <1>5, SumIs

\* F gives a number for each element of S.
Numbers(F, S) == \A x \in S : F[x] \in Int

LEMMA SumInt ==
    ASSUME NEW F, NEW S, IsFiniteSet(S), Numbers(F, S)
    PROVE  Sum(F, S) \in Int
<1> DEFINE P == {T \in SUBSET S : Sum(F, T) \in Int}
<1>1. ASSUME NEW T \in SUBSET S, \A U \in SUBSET T : U # T => U \in P PROVE T \in P
  <2>1. CASE T = {}
    BY <2>1, SumEmpty
  <2>2. CASE T # {}
    <3>1. Pick(T) \in T /\ IsFiniteSet(T)
      BY <2>2, PickIn, FS_Subset
    <3>2. PICK U : U = T \ {Pick(T)}
      OBVIOUS
    <3>3. U \in SUBSET T /\ U # T
      BY <3>1, <3>2
    <3>4. Sum(F, U) \in Int /\ F[Pick(T)] \in Int
      BY <1>1, <3>1, <3>3 DEF Numbers
    <3> QED
      BY <2>2, <3>1, <3>2, <3>4, SumPicked
  <2> QED
    BY <2>1, <2>2
<1> HIDE DEF P
<1>2. S \in P
  BY <1>1, SubsetInduction
<1> QED
  BY <1>2 DEF P

LEMMA NumbersOfSubset ==
    ASSUME NEW F, NEW S, Numbers(F, S), IsFiniteSet(S), NEW T \in SUBSET S
    PROVE  Numbers(F, T) /\ IsFiniteSet(T) /\ Sum(F, T) \in Int
<1>1. Numbers(F, T) /\ IsFiniteSet(T)
  BY FS_Subset DEF Numbers
<1> QED
  BY <1>1, SumInt

\* Any element may be taken out of a sum.
LEMMA SumRemove ==
    ASSUME NEW F, NEW S, IsFiniteSet(S), Numbers(F, S)
    PROVE  \A x \in S : Sum(F, S) = Sum(F, S \ {x}) + F[x]
<1> DEFINE P == {T \in SUBSET S : \A x \in T : Sum(F, T) = Sum(F, T \ {x}) + F[x]}
<1>1. ASSUME NEW T \in SUBSET S, \A U \in SUBSET T : U # T => U \in P PROVE T \in P
  <2> SUFFICES ASSUME NEW x \in T PROVE Sum(F, T) = Sum(F, T \ {x}) + F[x]
    OBVIOUS
  <2>1. IsFiniteSet(T)
    BY FS_Subset
  <2>2. PICK p \in T : p = Pick(T)
    BY PickIn
  <2>3. Sum(F, T) = F[p] + Sum(F, T \ {p})
    BY <2>1, <2>2, SumPicked
  <2>4. F[x] \in Int /\ F[p] \in Int
    BY DEF Numbers
  <2>5. \A U \in SUBSET T : Sum(F, U) \in Int
    BY NumbersOfSubset
  <2>6. CASE p = x
    BY <2>3, <2>4, <2>5, <2>6
  <2>7. CASE p # x
    <3>1. PICK A \in SUBSET T : A = T \ {p}
      OBVIOUS
    <3>2. PICK B \in SUBSET T : B = T \ {x}
      OBVIOUS
    <3>3. PICK C \in SUBSET T : C = A \ {x} /\ C = B \ {p}
      BY <3>1, <3>2
    <3>4. A # T /\ B # T /\ x \in A /\ p \in B
      BY <2>7, <3>1, <3>2
    <3>5. Sum(F, A) = Sum(F, C) + F[x]
      BY <1>1, <3>3, <3>4
    <3>6. Sum(F, B) = Sum(F, C) + F[p]
      BY <1>1, <3>3, <3>4
    <3>7. Sum(F, A) \in Int /\ Sum(F, B) \in Int /\ Sum(F, C) \in Int
      BY <2>5
    <3> QED
      BY <2>3, <2>4, <3>1, <3>2, <3>5, <3>6, <3>7
  <2> QED
    BY <2>6, <2>7
<1> HIDE DEF P
<1>2. S \in P
  BY <1>1, SubsetInduction
<1> QED
  BY <1>2 DEF P

\* The same for the subsets, for use in inductions.
LEMMA SumRemoves ==
    ASSUME NEW F, NEW S, IsFiniteSet(S), Numbers(F, S), NEW T \in SUBSET S, NEW x \in T
    PROVE  /\ Sum(F, T) = Sum(F, T \ {x}) + F[x]
           /\ F[x] \in Int /\ Sum(F, T) \in Int /\ Sum(F, T \ {x}) \in Int
<1>1. T \ {x} \in SUBSET S
  OBVIOUS
<1>2. IsFiniteSet(T) /\ Numbers(F, T) /\ Sum(F, T) \in Int /\ Sum(F, T \ {x}) \in Int
  BY <1>1, NumbersOfSubset
<1> QED
  BY <1>2, SumRemove DEF Numbers

LEMMA SumSame ==
    ASSUME NEW F, NEW G, NEW S, IsFiniteSet(S), Numbers(F, S), \A x \in S : F[x] = G[x]
    PROVE  Sum(F, S) = Sum(G, S)
<1> DEFINE P == {T \in SUBSET S : Sum(F, T) = Sum(G, T)}
<1>1. {} \in P
  BY SumEmpty
<1>2. ASSUME NEW T \in SUBSET S, NEW x \in T, T \ {x} \in P PROVE T \in P
  <2>1. Numbers(G, S)
    BY DEF Numbers
  <2>2. Sum(F, T) = Sum(F, T \ {x}) + F[x] /\ Sum(G, T) = Sum(G, T \ {x}) + G[x]
    BY <2>1, SumRemoves
  <2> QED
    BY <1>2, <2>2
<1> HIDE DEF P
<1>3. S \in P
  BY <1>1, <1>2, RemoveInduction, Zenon
<1> QED
  BY <1>3 DEF P

LEMMA SumPlus ==
    ASSUME NEW F, NEW G, NEW H, NEW S, IsFiniteSet(S), Numbers(F, S), Numbers(G, S),
           \A x \in S : H[x] = F[x] + G[x]
    PROVE  Sum(H, S) = Sum(F, S) + Sum(G, S)
<1> DEFINE P == {T \in SUBSET S : Sum(H, T) = Sum(F, T) + Sum(G, T)}
<1>1. {} \in P
  BY SumEmpty
<1>2. ASSUME NEW T \in SUBSET S, NEW x \in T, T \ {x} \in P PROVE T \in P
  <2>1. Numbers(H, S)
    BY DEF Numbers
  <2>2. Sum(H, T) = Sum(H, T \ {x}) + H[x] /\ H[x] = F[x] + G[x]
    BY <2>1, SumRemoves
  <2>3. /\ Sum(F, T) = Sum(F, T \ {x}) + F[x] /\ Sum(G, T) = Sum(G, T \ {x}) + G[x]
        /\ F[x] \in Int /\ G[x] \in Int /\ Sum(F, T \ {x}) \in Int /\ Sum(G, T \ {x}) \in Int
    BY SumRemoves
  <2>4. Sum(H, T \ {x}) = Sum(F, T \ {x}) + Sum(G, T \ {x})
    BY <1>2
  <2> QED
    BY <2>2, <2>3, <2>4
<1> HIDE DEF P
<1>3. S \in P
  BY <1>1, <1>2, RemoveInduction, Zenon
<1> QED
  BY <1>3 DEF P

LEMMA SumZero ==
    ASSUME NEW F, NEW S, IsFiniteSet(S), \A x \in S : F[x] = 0
    PROVE  Sum(F, S) = 0
<1> DEFINE P == {T \in SUBSET S : Sum(F, T) = 0}
<1>1. {} \in P
  BY SumEmpty
<1>2. ASSUME NEW T \in SUBSET S, NEW x \in T, T \ {x} \in P PROVE T \in P
  <2>1. Numbers(F, S)
    BY DEF Numbers
  <2>2. Sum(F, T) = Sum(F, T \ {x}) + F[x] /\ F[x] = 0
    BY <2>1, SumRemoves
  <2> QED
    BY <1>2, <2>2
<1> HIDE DEF P
<1>3. S \in P
  BY <1>1, <1>2, RemoveInduction, Zenon
<1> QED
  BY <1>3 DEF P

\* Elements for which F is zero do not count.
LEMMA SumWithout ==
    ASSUME NEW F, NEW S, IsFiniteSet(S), Numbers(F, S), NEW Z \in SUBSET S, \A x \in S \ Z : F[x] = 0
    PROVE  Sum(F, S) = Sum(F, Z)
<1> DEFINE P == {T \in SUBSET S : Sum(F, T) = Sum(F, T \cap Z)}
<1>1. {} \in P
  OBVIOUS
<1>2. ASSUME NEW T \in SUBSET S, NEW x \in T, T \ {x} \in P PROVE T \in P
  <2>1. PICK A : A = T \cap Z
    OBVIOUS
  <2>2. PICK B : B = (T \ {x}) \cap Z
    OBVIOUS
  <2>3. Sum(F, T \ {x}) = Sum(F, B)
    BY <1>2, <2>2
  <2>4. Sum(F, T) = Sum(F, T \ {x}) + F[x] /\ Sum(F, T \ {x}) \in Int
    BY SumRemoves
  <2>5. CASE x \in Z
    <3>1. x \in A /\ A \in SUBSET S /\ A \ {x} = B
      BY <2>1, <2>2, <2>5
    <3>2. Sum(F, A) = Sum(F, B) + F[x]
      BY <3>1, SumRemoves
    <3>3. Sum(F, T) = Sum(F, A)
      BY <2>3, <2>4, <3>2
    <3> QED
      BY <2>1, <3>3, Zenon
  <2>6. CASE x \notin Z
    <3>1. A = B /\ F[x] = 0
      BY <2>1, <2>2, <2>6
    <3>2. Sum(F, T) = Sum(F, A)
      BY <2>3, <2>4, <3>1
    <3> QED
      BY <2>1, <3>2, Zenon
  <2> QED
    BY <2>5, <2>6
<1> HIDE DEF P
<1>3. S \in P
  BY <1>1, <1>2, RemoveInduction, Zenon
<1>4. S \cap Z = Z
  OBVIOUS
<1> QED
  BY <1>3, <1>4 DEF P

\* A sum of ones counts.
LEMMA SumOnes ==
    ASSUME NEW F, NEW S, IsFiniteSet(S), \A x \in S : F[x] = 1
    PROVE  Sum(F, S) = Cardinality(S)
<1> DEFINE P == {T \in SUBSET S : Sum(F, T) = Cardinality(T)}
<1>1. {} \in P
  BY SumEmpty, FS_EmptySet
<1>2. ASSUME NEW T \in SUBSET S, NEW x \in T, T \ {x} \in P PROVE T \in P
  <2>1. Numbers(F, S)
    BY DEF Numbers
  <2>2. Sum(F, T) = Sum(F, T \ {x}) + 1
    BY <2>1, SumRemoves
  <2>3. IsFiniteSet(T)
    BY FS_Subset
  <2>4. Cardinality(T \ {x}) = Cardinality(T) - 1 /\ Cardinality(T) \in Nat
    BY <2>3, FS_RemoveElement, FS_CardinalityType
  <2>5. Sum(F, T \ {x}) = Cardinality(T \ {x})
    BY <1>2
  <2>6. Sum(F, T) = Cardinality(T)
    BY <2>2, <2>4, <2>5
  <2> QED
    BY <2>6, Zenon
<1> HIDE DEF P
<1>3. S \in P
  BY <1>1, <1>2, RemoveInduction, Zenon
<1> QED
  BY <1>3 DEF P

\* A sum over groups of elements is the sum over the elements.
Fiber(key, k, T) == {x \in T : key[x] = k}

LEMMA SumFibers ==
    ASSUME NEW F, NEW S, IsFiniteSet(S), Numbers(F, S), NEW K, IsFiniteSet(K),
           NEW key, \A x \in S : key[x] \in K,
           NEW G, \A k \in K : G[k] = Sum(F, Fiber(key, k, S))
    PROVE  Sum(G, K) = Sum(F, S)
<1> DEFINE by(T) == [k \in K |-> Sum(F, Fiber(key, k, T))]
           P == {T \in SUBSET S : Sum(by(T), K) = Sum(F, T)}
<1>1. \A T \in SUBSET S : \A k \in K : Fiber(key, k, T) \in SUBSET S
  BY DEF Fiber
<1>2. ASSUME NEW T \in SUBSET S PROVE Numbers(by(T), K)
  BY <1>1, NumbersOfSubset DEF Numbers
<1>3. {} \in P
  <2>1. \A k \in K : by({})[k] = 0
    BY SumEmpty DEF Fiber
  <2> HIDE DEF by
  <2>2. Sum(by({}), K) = 0
    BY <2>1, SumZero
  <2> QED
    BY <2>2, SumEmpty
<1>4. ASSUME NEW T \in SUBSET S, NEW x \in T, T \ {x} \in P PROVE T \in P
  <2> DEFINE H == [k \in K |-> IF k = key[x] THEN F[x] ELSE 0]
             U == T \ {x}
  <2>1. Sum(F, T) = Sum(F, U) + F[x] /\ F[x] \in Int /\ Sum(F, U) \in Int
    BY SumRemoves
  <2>2. ASSUME NEW k \in K PROVE by(T)[k] = by(U)[k] + H[k]
    <3>1. by(U)[k] \in Int /\ Sum(F, Fiber(key, k, U)) \in Int
      BY <1>1, NumbersOfSubset
    <3>2. CASE k = key[x]
      <4>1. x \in Fiber(key, k, T) /\ Fiber(key, k, T) \in SUBSET S
        BY <3>2, <1>1 DEF Fiber
      <4>2. Fiber(key, k, T) \ {x} = Fiber(key, k, U)
        BY DEF Fiber
      <4>0. PICK V \in SUBSET S : V = Fiber(key, k, T)
        BY <4>1
      <4>3. Sum(F, V) = Sum(F, V \ {x}) + F[x]
        BY <4>0, <4>1, SumRemoves
      <4> QED
        BY <3>2, <4>0, <4>2, <4>3
    <3>3. CASE k # key[x]
      <4>1. Fiber(key, k, T) = Fiber(key, k, U)
        BY <3>3 DEF Fiber
      <4> QED
        BY <3>1, <3>3, <4>1
    <3> QED
      BY <3>2, <3>3
  <2>3. Numbers(H, K) /\ key[x] \in K /\ H[key[x]] = F[x] /\ \A k \in K \ {key[x]} : H[k] = 0
    BY <2>1 DEF Numbers
  <2>4. U \in SUBSET S /\ Numbers(by(U), K) /\ Sum(by(U), K) = Sum(F, U)
    BY <1>2, <1>4
  <2> HIDE DEF by, H, U
  <2>5. Sum(by(T), K) = Sum(by(U), K) + Sum(H, K)
    BY <2>2, <2>3, <2>4, SumPlus
  <2>6. Sum(H, K) = Sum(H, K \ {key[x]}) + F[x]
    BY <2>3, SumRemove
  <2>7. Sum(H, K \ {key[x]}) = 0
    <3>1. IsFiniteSet(K \ {key[x]})
      BY FS_RemoveElement
    <3> QED
      BY <2>3, <3>1, SumZero
  <2>8. Sum(by(T), K) = Sum(F, T)
    BY <2>1, <2>4, <2>5, <2>6, <2>7
  <2> QED
    BY <2>8
<1>5. S \in P
  <2> HIDE DEF P
  <2> QED
    BY <1>3, <1>4, RemoveInduction, Zenon
<1>6. Sum(by(S), K) = Sum(F, S)
  BY <1>5
<1>7. \A k \in K : by(S)[k] = G[k]
  OBVIOUS
<1>8. Numbers(by(S), K)
  BY <1>2
<1> HIDE DEF by, P
<1> QED
  BY <1>6, <1>7, <1>8, SumSame

\* A sum over the images of elements, when the images differ.
Reads(G, F, b, S) == \A x \in S : G[x] = F[b[x]]
Image(b, S) == {b[x] : x \in S}
OneToOne(b, S) == \A x, y \in S : b[x] = b[y] => x = y

LEMMA SumImage ==
    ASSUME NEW F, NEW S, IsFiniteSet(S), NEW b, OneToOne(b, S), NEW G, Numbers(G, S),
           Reads(G, F, b, S)
    PROVE  /\ Sum(F, Image(b, S)) = Sum(G, S)
           /\ IsFiniteSet(Image(b, S)) /\ Numbers(F, Image(b, S))
<1> USE DEF Reads, OneToOne, Image
<1> DEFINE im(T) == {b[x] : x \in T}
           P == {T \in SUBSET S : IsFiniteSet(im(T)) /\ Sum(F, im(T)) = Sum(G, T)}
<1>1. {} \in P
  <2>1. im({}) = {}
    OBVIOUS
  <2> QED
    BY <2>1, SumEmpty, FS_EmptySet
<1>2. Numbers(F, im(S))
  BY DEF Numbers
<1>3. ASSUME NEW T \in SUBSET S, NEW x \in T, T \ {x} \in P PROVE T \in P
  <2> DEFINE U == T \ {x}
  <2>1. Sum(G, T) = Sum(G, U) + G[x]
    BY SumRemoves
  <2>2. im(U) = im(T) \ {b[x]} /\ im(T) = im(U) \cup {b[x]} /\ b[x] \in im(T)
    OBVIOUS
  <2>3. IsFiniteSet(im(U)) /\ Sum(F, im(U)) = Sum(G, U)
    BY <1>3
  <2>4. im(T) \subseteq im(S)
    OBVIOUS
  <2> HIDE DEF im, U
  <2>5. IsFiniteSet(im(T))
    BY <2>2, <2>3, FS_AddElement, SMTT(60)
  <2>6. Numbers(F, im(T))
    BY <1>2, <2>4 DEF Numbers
  <2>7. Sum(F, im(T)) = Sum(F, im(U)) + F[b[x]]
    BY <2>2, <2>5, <2>6, SumRemove
  <2>8. Sum(F, im(T)) = Sum(G, T)
    BY <2>1, <2>3, <2>7
  <2> QED
    BY <2>5, <2>8
<1>4. S \in P
  <2> HIDE DEF P
  <2> QED
    BY <1>1, <1>3, RemoveInduction, Zenon
<1> QED
  BY <1>2, <1>4
-----------------------------------------------------------------------------
\* What the tables hold, as the report reads them.

RequestFields ==
    {"started", "duration", "ttft", "agent", "provider", "api", "status", "error", "streamed",
     "redactions", "session"}

LEMMA JoinedFields ==
    ASSUME NEW f, NEW g
    PROVE  /\ DOMAIN Log!Joined(f, g) = DOMAIN f \cup DOMAIN g
           /\ \A x \in DOMAIN f : Log!Joined(f, g)[x] = f[x]
           /\ \A x \in DOMAIN g : x \notin DOMAIN f => Log!Joined(f, g)[x] = g[x]
  BY DEF Log!Joined

\* The ledger's finite sets and cardinalities are those of every module.
LEMMA LogFinite == ASSUME NEW S PROVE Log!IsFiniteSet(S) <=> IsFiniteSet(S)
  BY DEF Log!IsFiniteSet, IsFiniteSet

LEMMA LogCardinality == ASSUME NEW S PROVE Log!Cardinality(S) = Cardinality(S)
  BY DEF Log!Cardinality, Cardinality

LEMMA ContentIs ==
    ASSUME NEW content, Log!IsContent(content)
    PROVE  /\ IsFiniteSet(content.events) /\ content.status \in Nat \cup {None}
           /\ \A e \in content.events : e.count \in Nat /\ e = [entity |-> e.entity, count |-> e.count]
           /\ content.call = None \/ Log!IsCall(content.call)
<1>1. content.call = None \/ Log!IsCall(content.call)
  BY Zenon DEF Log!IsContent
<1>2. IsFiniteSet(content.events)
  BY LogFinite, Zenon DEF Log!IsContent
<1>3. content.status \in Nat \cup {None}
  BY Zenon DEF Log!IsContent
<1>4. content.events \subseteq [entity : {e.entity : e \in content.events}, count : Nat]
  BY Zenon DEF Log!IsContent
<1>5. PICK names : content.events \subseteq [entity : names, count : Nat]
  BY <1>4
<1>6. \A e \in content.events : e.count \in Nat /\ e = [entity |-> e.entity, count |-> e.count]
  BY <1>5
<1> QED
  BY <1>1, <1>2, <1>3, <1>6, Zenon

LEMMA RecordedLog ==
    ASSUME NEW log \in Recorded
    PROVE  /\ log.started \in Nat /\ log.status \in Nat \cup {None}
           /\ IsFiniteSet(log.events) /\ \A e \in log.events : e.count \in Nat
           /\ \A d, e \in log.events : d.entity = e.entity /\ d.count = e.count => d = e
           /\ log.call = None \/ Log!IsCall(log.call)
<1>1. PICK content \in Contents, time \in Nat : log = Log!Joined(content, [started |-> time])
  BY DEF Recorded
<1>2. Log!IsContent(content)
  BY LogAssumption, Zenon
<1>3. DOMAIN content = {"duration", "agent", "provider", "api", "status", "error", "streamed",
                        "ttft", "session", "events", "body", "call"}
  BY <1>2, Zenon DEF Log!IsContent
<1>4. PICK fields : fields = DOMAIN content
  OBVIOUS
<1>5. "events" \in fields /\ "call" \in fields /\ "status" \in fields /\ "started" \notin fields
  BY <1>3, <1>4
<1>6. PICK added : added = [started |-> time]
  OBVIOUS
<1>7. DOMAIN added = {"started"} /\ added["started"] = time
  BY <1>6
<1>8. log = Log!Joined(content, added)
  BY <1>1, <1>6, Zenon
<1>9. \A x \in fields : log[x] = content[x]
  <2>1. \A x \in DOMAIN content : Log!Joined(content, added)[x] = content[x]
    BY JoinedFields
  <2> QED
    BY <1>4, <1>8, <2>1, Zenon
<1>10. "started" \in DOMAIN added
  BY <1>7
<1>11. log["started"] = added["started"]
  <2>1. \A x \in DOMAIN added : x \notin DOMAIN content => Log!Joined(content, added)[x] = added[x]
    BY JoinedFields
  <2> QED
    BY <1>4, <1>5, <1>8, <1>10, <2>1, Zenon
<1>12. log["events"] = content["events"] /\ log["call"] = content["call"]
       /\ log["status"] = content["status"]
  BY <1>5, <1>9, Zenon
<1>13. \A d, e \in content.events : d.entity = e.entity /\ d.count = e.count => d = e
  <2> SUFFICES ASSUME NEW d \in content.events, NEW e \in content.events,
                      d.entity = e.entity, d.count = e.count PROVE d = e
    OBVIOUS
  <2>1. d = [entity |-> d.entity, count |-> d.count] /\ e = [entity |-> e.entity, count |-> e.count]
    BY <1>2, ContentIs, Zenon
  <2> QED
    BY <2>1, Zenon
<1> QED
  BY <1>2, <1>7, <1>11, <1>12, <1>13, ContentIs

LEMMA SumFunctionIs ==
    ASSUME NEW F, NEW S, DOMAIN F = S
    PROVE  Log!SumFunction(F) = Sum(F, S)
  BY DEF Log!SumFunction, Sum

Counts(S) == [e \in S |-> e.count]
EventsWith(id) == {e \in db.events : e.id = id}

\* The rows of redaction_events of a log add up to what its row of requests says.
LEMMA RedactionsAdd ==
    ASSUME NEW id, NEW log \in Recorded
    PROVE  /\ IsFiniteSet(Log!EventRows(id, log))
           /\ \A e \in Log!EventRows(id, log) : e.id = id /\ e.count \in Nat
           /\ Log!Redactions(log) = Sum(Counts(Log!EventRows(id, log)), Log!EventRows(id, log))
           /\ Log!Redactions(log) \in Int
<1> DEFINE S == log.events
           b == [e \in S |-> [id |-> id, entity |-> e.entity, count |-> e.count]]
           rows == Log!EventRows(id, log)
<1>1. IsFiniteSet(S) /\ \A e \in S : e.count \in Nat
  BY RecordedLog
<1>2. rows = {b[e] : e \in S}
  BY DEF Log!EventRows
<1>3. Log!Redactions(log) = Sum(Counts(S), S)
  <2>1. Log!Redactions(log) = Log!SumFunction(Counts(S))
    BY Zenon DEF Log!Redactions, Log!SumOver, Counts
  <2>2. DOMAIN Counts(S) = S
    BY DEF Counts
  <2> QED
    BY <2>1, <2>2, SumFunctionIs
<1>4. Numbers(Counts(S), S)
  BY <1>1 DEF Numbers, Counts
<1>5. \A d, e \in S : b[d] = b[e] => d = e
  <2> SUFFICES ASSUME NEW d \in S, NEW e \in S, b[d] = b[e] PROVE d = e
    OBVIOUS
  <2>1. d.entity = e.entity /\ d.count = e.count
    OBVIOUS
  <2> QED
    BY <2>1, RecordedLog
<1>6. \A e \in S : b[e].id = id /\ b[e].count = e.count
  OBVIOUS
<1>7. \A e \in S : Counts(S)[e] = Counts(rows)[b[e]]
  BY <1>2, <1>6 DEF Counts
<1>8. \A r \in rows : r.id = id /\ r.count \in Nat
  BY <1>1, <1>2, <1>6, ZenonT(60)
<1> HIDE DEF S, b, rows
<1>9. Sum(Counts(rows), rows) = Sum(Counts(S), S) /\ IsFiniteSet(rows)
  <2>1. PICK F, G : F = Counts(rows) /\ G = Counts(S)
    OBVIOUS
  <2>2. Numbers(G, S) /\ \A e \in S : G[e] = F[b[e]]
    BY <1>4, <1>7, <2>1
  <2>3. OneToOne(b, S) /\ Reads(G, F, b, S)
    BY <1>5, <2>2 DEF OneToOne, Reads
  <2>4. rows = Image(b, S)
    BY <1>2 DEF Image
  <2>5. Sum(F, rows) = Sum(G, S) /\ IsFiniteSet(rows)
    BY <1>1, <2>2, <2>3, <2>4, SumImage
  <2> QED
    BY <2>1, <2>5
<1>10. Sum(Counts(S), S) \in Int
  BY <1>1, <1>4, SumInt
<1> QED
  BY <1>3, <1>8, <1>9, <1>10 DEF rows

DbShape ==
    /\ now \in Nat
    /\ IsFiniteSet(DOMAIN db.requests) /\ IsFiniteSet(db.events)
    /\ DOMAIN db.calls \subseteq DOMAIN db.requests
    /\ \A id \in DOMAIN db.requests :
        /\ DOMAIN db.requests[id] = RequestFields
        /\ db.requests[id].started \in Nat /\ db.requests[id].status \in Nat \cup {None}
        /\ db.requests[id].redactions \in Int
        /\ db.requests[id].redactions = Sum(Counts(EventsWith(id)), EventsWith(id))
    /\ \A id \in DOMAIN db.calls : Log!IsCall(db.calls[id])
    /\ \A e \in db.events : e.id \in DOMAIN db.requests /\ e.count \in Nat

LEMMA TablesHaveShape == LogInv => DbShape
<1> SUFFICES ASSUME LogInv PROVE DbShape
  OBVIOUS
<1>1. PICK ids \in SUBSET DOMAIN logs : db = Whole(ids)
  BY DEF LogInv, Committed
<1>2. db.requests = RequestsOf(ids) /\ db.calls = CallsOf(ids) /\ db.events = EventsOf(ids)
  BY <1>1 DEF Whole, Tables
<1>3. DOMAIN db.requests = ids
  BY <1>2 DEF RequestsOf
<1>4. now \in Nat /\ logs \in Seq(Recorded)
  BY DEF LogInv, LogTypeOK
<1>5. IsFiniteSet(ids)
  <2>1. PICK n \in Nat : DOMAIN logs = 1 .. n
    BY <1>4
  <2>2. IsFiniteSet(1 .. n)
    BY FS_Interval
  <2>3. ids \in SUBSET (1 .. n)
    BY <2>1
  <2> QED
    BY <2>2, <2>3, FS_Subset
<1>6. \A id \in ids : logs[id] \in Recorded
  BY <1>4
<1>7. ASSUME NEW id \in ids
      PROVE  EventsWith(id) = Log!EventRows(id, logs[id])
  <2>1. \A i \in ids : \A e \in Log!EventRows(i, logs[i]) : e.id = i
    BY <1>6, RedactionsAdd
  <2> QED
    BY <1>2, <2>1 DEF EventsWith, EventsOf
<1>8. IsFiniteSet(db.events)
  <2> DEFINE b == [i \in ids |-> Log!EventRows(i, logs[i])]
             parts == {b[i] : i \in ids}
  <2>1. \A T \in parts : IsFiniteSet(T)
    BY <1>6, RedactionsAdd
  <2>2. IsFiniteSet(parts)
    <3>1. b \in Surjection(ids, parts)
      BY DEF Surjection
    <3> QED
      BY <1>5, <3>1, FS_Surjection
  <2>3. db.events = UNION parts
    BY <1>2 DEF EventsOf
  <2> HIDE DEF parts
  <2> QED
    BY <2>1, <2>2, <2>3, FS_UNION
<1>9. ASSUME NEW id \in ids
      PROVE  /\ DOMAIN db.requests[id] = RequestFields
             /\ db.requests[id].started \in Nat /\ db.requests[id].status \in Nat \cup {None}
             /\ db.requests[id].redactions \in Int
             /\ db.requests[id].redactions = Sum(Counts(EventsWith(id)), EventsWith(id))
  <2>1. db.requests[id] = Log!RequestRow(logs[id])
    BY <1>2 DEF RequestsOf
  <2>2. DOMAIN Log!RequestRow(logs[id]) = RequestFields
    BY DEF Log!RequestRow, RequestFields
  <2>3. /\ Log!RequestRow(logs[id]).started = logs[id].started
        /\ Log!RequestRow(logs[id]).status = logs[id].status
        /\ Log!RequestRow(logs[id]).redactions = Log!Redactions(logs[id])
    BY DEF Log!RequestRow
  <2>4. /\ logs[id].started \in Nat /\ logs[id].status \in Nat \cup {None}
        /\ Log!Redactions(logs[id]) \in Int
    BY <1>6, RecordedLog, RedactionsAdd
  <2>5. Log!Redactions(logs[id]) = Sum(Counts(EventsWith(id)), EventsWith(id))
    <3>1. PICK rows : rows = Log!EventRows(id, logs[id])
      OBVIOUS
    <3>2. Log!Redactions(logs[id]) = Sum(Counts(rows), rows)
      BY <1>6, <3>1, RedactionsAdd
    <3>3. EventsWith(id) = rows
      BY <1>7, <3>1
    <3> QED
      BY <3>2, <3>3, Zenon
  <2> QED
    BY <2>1, <2>2, <2>3, <2>4, <2>5, Zenon
<1>10. ASSUME NEW id \in DOMAIN db.calls PROVE id \in ids /\ Log!IsCall(db.calls[id])
  <2>1. id \in ids /\ logs[id].call # None /\ db.calls[id] = logs[id].call
    BY <1>2 DEF CallsOf
  <2> QED
    BY <1>6, <2>1, RecordedLog
<1>11. ASSUME NEW e \in db.events PROVE e.id \in ids /\ e.count \in Nat
  <2>1. PICK i \in ids : e \in Log!EventRows(i, logs[i])
    BY <1>2 DEF EventsOf
  <2>2. e.id = i /\ e.count \in Nat
    BY <1>6, <2>1, RedactionsAdd
  <2> QED
    BY <2>2, Zenon
<1> QED
  BY <1>3, <1>4, <1>5, <1>8, <1>9, <1>10, <1>11, Zenon DEF DbShape
-----------------------------------------------------------------------------
\* A row of the report.

\* Of a finite set that is not empty, some element has the greatest number.
LEMMA GreatestExists ==
    ASSUME NEW S, IsFiniteSet(S), S # {}, NEW F, Numbers(F, S)
    PROVE  \E x \in S : \A y \in S : F[y] <= F[x]
<1> DEFINE P == {T \in SUBSET S : T = {} \/ \E x \in T : \A y \in T : F[y] <= F[x]}
<1>1. {} \in P
  OBVIOUS
<1>2. ASSUME NEW T \in SUBSET S, NEW x \in T, T \ {x} \in P PROVE T \in P
  <2>1. \A y \in T : F[y] \in Int
    BY DEF Numbers
  <2>2. CASE T \ {x} = {}
    BY <2>1, <2>2
  <2>3. CASE T \ {x} # {}
    <3>1. PICK z \in T \ {x} : \A y \in T \ {x} : F[y] <= F[z]
      BY <1>2, <2>3
    <3>2. F[z] <= F[x] => \A y \in T : F[y] <= F[x]
      BY <2>1, <3>1
    <3>3. F[x] <= F[z] => \A y \in T : F[y] <= F[z]
      BY <2>1, <3>1
    <3> QED
      BY <2>1, <3>2, <3>3
  <2> QED
    BY <2>2, <2>3
<1> HIDE DEF P
<1>3. S \in P
  BY <1>1, <1>2, RemoveInduction, Zenon
<1> QED
  BY <1>3 DEF P

LEMMA MaxIn ==
    ASSUME NEW S, IsFiniteSet(S), S # {}, S \subseteq Nat
    PROVE  Log!Max(S) \in S
<1> DEFINE F == [x \in S |-> x]
<1>1. Numbers(F, S)
  BY DEF Numbers
<1>2. \A x \in S : F[x] = x
  OBVIOUS
<1> HIDE DEF F
<1>3. PICK x \in S : \A y \in S : F[y] <= F[x]
  BY <1>1, GreatestExists
<1>4. \A y \in S : x >= y
  BY <1>2, <1>3
<1> QED
  BY <1>4 DEF Log!Max

LEMMA PriceIsOne ==
    ASSUME NEW model
    PROVE  Log!PriceFor(model) = None \/ Log!IsPrice(Log!PriceFor(model))
<1> DEFINE fits == {i \in DOMAIN Prices : Prices[i].prefix # <<>> /\ Log!IsPrefix(Prices[i].prefix, model)}
           longest == {i \in fits : \A j \in fits : Len(Prices[j].prefix) <= Len(Prices[i].prefix)}
<1>1. Log!PriceFor(model) = IF fits = {} THEN None ELSE Prices[Log!Max(longest)]
  BY Zenon DEF Log!PriceFor
<1>2. ASSUME fits # {} PROVE Log!IsPrice(Prices[Log!Max(longest)])
  <2> DEFINE F == [i \in fits |-> Len(Prices[i].prefix)]
  <2>1. PICK n \in Nat : DOMAIN Prices = 1 .. n
    BY LogAssumption
  <2>2. \A i \in DOMAIN Prices : Prices[i] \in Range(Prices)
    BY DEF Range
  <2>3. \A i \in DOMAIN Prices : Len(Prices[i].prefix) \in Nat
    <3>1. \A i \in DOMAIN Prices : Log!IsPrice(Prices[i])
      BY <2>2, LogAssumption, Zenon
    <3> QED
      BY <3>1 DEF Log!IsPrice
  <2>4. IsFiniteSet(fits) /\ fits \subseteq 1 .. n
    <3>1. IsFiniteSet(1 .. n)
      BY FS_Interval
    <3>2. fits \in SUBSET (1 .. n)
      BY <2>1
    <3> QED
      BY <3>1, <3>2, FS_Subset
  <2>5. Numbers(F, fits)
    BY <2>3 DEF Numbers
  <2>6. \A i \in fits : F[i] = Len(Prices[i].prefix)
    OBVIOUS
  <2>7. PICK i \in fits : \A j \in fits : F[j] <= F[i]
    <3> HIDE DEF F, fits
    <3> QED
      BY <1>2, <2>4, <2>5, GreatestExists
  <2>8. \A j \in fits : Len(Prices[j].prefix) <= Len(Prices[i].prefix)
    <3> HIDE DEF F, fits
    <3> QED
      BY <2>6, <2>7, Zenon
  <2>9. longest # {} /\ longest \in SUBSET fits
    <3> HIDE DEF fits
    <3> QED
      BY <2>8
  <2>10. longest \subseteq Nat /\ longest \subseteq DOMAIN Prices /\ IsFiniteSet(longest)
    BY <2>4, <2>9, FS_Subset
  <2>11. Log!Max(longest) \in DOMAIN Prices
    <3> HIDE DEF longest
    <3> QED
      BY <2>9, <2>10, MaxIn
  <2> HIDE DEF longest
  <2> QED
    BY <2>2, <2>11, LogAssumption, Zenon
<1> HIDE DEF fits, longest
<1> QED
  BY <1>1, <1>2

LEMMA ProductIsNumber == ASSUME NEW a \in Int, NEW b \in Int PROVE a * b \in Int
  OBVIOUS

LEMMA CostIsNumber ==
    ASSUME NEW provider, NEW model, NEW c, \A t \in Log!Tokens : c[t] \in Nat
    PROVE  Log!EstimateCost(provider, model, c) \in Int \cup {None}
<1>1. PICK price : price = Log!PriceFor(model)
  OBVIOUS
<1> DEFINE uncached == IF provider # "openai" THEN c.input
                       ELSE IF c.input > c.cacheRead THEN c.input - c.cacheRead ELSE 0
<1>2. Log!EstimateCost(provider, model, c) =
        IF price = None THEN None
        ELSE uncached * price.input + c.output * price.output
             + c.cacheRead * price.cacheRead + c.cacheWrite * price.cacheWrite
  BY <1>1, Zenon DEF Log!EstimateCost
<1>3. c.input \in Nat /\ c.output \in Nat /\ c.cacheRead \in Nat /\ c.cacheWrite \in Nat
  BY DEF Log!Tokens
<1>4. uncached \in Int
  BY <1>3
<1>5. ASSUME price # None
      PROVE  price.input \in Nat /\ price.output \in Nat /\ price.cacheRead \in Nat /\ price.cacheWrite \in Nat
  <2>1. Log!IsPrice(price)
    BY <1>1, <1>5, PriceIsOne
  <2>2. \A rate \in {"input", "output", "cacheRead", "cacheWrite"} : price[rate] \in Nat
    BY <2>1, Zenon DEF Log!IsPrice
  <2> QED
    BY <2>2
<1> HIDE DEF uncached
<1>6. CASE price = None
  BY <1>2, <1>6
<1>7. CASE price # None
  <2>0. /\ c.output \in Int /\ c.cacheRead \in Int /\ c.cacheWrite \in Int
        /\ price.input \in Int /\ price.output \in Int
        /\ price.cacheRead \in Int /\ price.cacheWrite \in Int
    BY <1>3, <1>5, <1>7
  <2>1. PICK a \in Int, b \in Int, e \in Int, g \in Int :
          a = uncached * price.input /\ b = c.output * price.output
          /\ e = c.cacheRead * price.cacheRead /\ g = c.cacheWrite * price.cacheWrite
    BY <1>4, <2>0, ProductIsNumber, Zenon
  <2>2. a + b + e + g \in Int
    BY <2>1
  <2> QED
    BY <1>2, <1>7, <2>1, <2>2
<1> QED
  BY <1>6, <1>7

RowFields ==
    {"id", "model", "tools", "stop", "requests", "calls", "errors", "streams", "toolCalls", "cost",
     "priced"}

LEMMA JoinedThree ==
    ASSUME NEW r, NEW u, NEW x, DOMAIN r = RequestFields, DOMAIN u = Log!Tokens, DOMAIN x = RowFields,
           NEW j, j = Log!Joined(Log!Joined(r, u), x)
    PROVE  /\ \A f \in RequestFields : j[f] = r[f]
           /\ \A f \in Log!Tokens : j[f] = u[f]
           /\ \A f \in RowFields : j[f] = x[f]
<1>1. PICK h : h = Log!Joined(r, u)
  OBVIOUS
<1>2. /\ DOMAIN h = DOMAIN r \cup DOMAIN u
      /\ \A f \in DOMAIN r : h[f] = r[f]
      /\ \A f \in DOMAIN u : f \notin DOMAIN r => h[f] = u[f]
  <2>1. /\ DOMAIN Log!Joined(r, u) = DOMAIN r \cup DOMAIN u
        /\ \A f \in DOMAIN r : Log!Joined(r, u)[f] = r[f]
        /\ \A f \in DOMAIN u : f \notin DOMAIN r => Log!Joined(r, u)[f] = u[f]
    BY JoinedFields
  <2> QED
    BY <1>1, <2>1
<1>3. j = Log!Joined(h, x)
  BY <1>1
<1>4. /\ \A f \in DOMAIN h : j[f] = h[f]
      /\ \A f \in DOMAIN x : f \notin DOMAIN h => j[f] = x[f]
  <2>1. /\ \A f \in DOMAIN h : Log!Joined(h, x)[f] = h[f]
        /\ \A f \in DOMAIN x : f \notin DOMAIN h => Log!Joined(h, x)[f] = x[f]
    BY JoinedFields
  <2> QED
    BY <1>3, <2>1
<1>5. \A f \in Log!Tokens : f \notin RequestFields
  BY DEF Log!Tokens, RequestFields
<1>6. \A f \in RowFields : f \notin RequestFields /\ f \notin Log!Tokens
  BY DEF Log!Tokens, RequestFields, RowFields
<1> QED
  BY <1>2, <1>4, <1>5, <1>6, Zenon

Called(id) == id \in DOMAIN db.calls

\* What a row says of its request and of its call; of no call, nothing.
LEMMA RowSays ==
    ASSUME DbShape, NEW id \in DOMAIN db.requests, NEW row, row = Log!Row(id)
    PROVE  /\ \A f \in RequestFields : row[f] = db.requests[id][f]
           /\ \A t \in Log!Tokens : row[t] = IF Called(id) THEN Log!OrElse(db.calls[id][t], 0) ELSE 0
           /\ row.id = id /\ row.requests = 1
           /\ row.calls = IF Called(id) THEN 1 ELSE 0
           /\ row.errors = IF Log!IsError(db.requests[id]) THEN 1 ELSE 0
           /\ row.tools = IF Called(id) THEN db.calls[id].tools ELSE <<>>
           /\ row.toolCalls = Len(row.tools)
           /\ row.cost \in Int /\ row.priced \in Int
           /\ ~Called(id) => row.cost = 0 /\ row.priced = 0
<1> DEFINE r == db.requests[id]
           called == id \in DOMAIN db.calls
           call == IF called THEN db.calls[id] ELSE None
           model == IF called THEN Log!OrElse(Log!OrElse(call.response, call.model), <<"(unknown)">>)
                    ELSE <<"(unknown)">>
           used == [t \in Log!Tokens |-> IF called THEN Log!OrElse(call[t], 0) ELSE 0]
           tools == IF called THEN call.tools ELSE <<>>
           cost == IF called THEN Log!EstimateCost(r.provider, model, used) ELSE None
           extra == [id |-> id, model |-> model, tools |-> tools,
                     stop |-> IF called THEN call.stop ELSE None,
                     requests |-> 1, calls |-> IF called THEN 1 ELSE 0,
                     errors |-> IF Log!IsError(r) THEN 1 ELSE 0,
                     streams |-> IF r.streamed THEN 1 ELSE 0, toolCalls |-> Len(tools),
                     cost |-> Log!OrElse(cost, 0), priced |-> IF cost = None THEN 0 ELSE 1]
<1>1. row = Log!Joined(Log!Joined(r, used), extra)
  BY Zenon DEF Log!Row
<1>2. DOMAIN r = RequestFields
  BY DEF DbShape
<1>3. DOMAIN used = Log!Tokens
  OBVIOUS
<1>4. DOMAIN extra = RowFields
  BY Zenon DEF RowFields
<1>5. \A t \in Log!Tokens : used[t] = IF Called(id) THEN Log!OrElse(db.calls[id][t], 0) ELSE 0
  BY DEF Called
<1>6. \A t \in Log!Tokens : used[t] \in Nat
  <2>1. called => \A t \in Log!Tokens : db.calls[id][t] \in Nat \cup {None}
    BY Zenon DEF DbShape, Log!IsCall
  <2> QED
    BY <2>1 DEF Log!OrElse
<1>7. cost \in Int \cup {None} /\ (~called => cost = None)
  <2> HIDE DEF used, model, r
  <2> QED
    BY <1>6, CostIsNumber
<1>8. /\ extra.id = id /\ extra.requests = 1 /\ extra.calls = (IF called THEN 1 ELSE 0)
      /\ extra.errors = (IF Log!IsError(r) THEN 1 ELSE 0)
      /\ extra.tools = tools /\ extra.toolCalls = Len(tools)
      /\ extra.cost = Log!OrElse(cost, 0) /\ extra.priced = (IF cost = None THEN 0 ELSE 1)
  <2> HIDE DEF used, model, r, cost, tools, called
  <2> QED
    OBVIOUS
<1>9. tools = IF Called(id) THEN db.calls[id].tools ELSE <<>>
  BY DEF Called
<1>10. Log!OrElse(cost, 0) \in Int /\ (~called => Log!OrElse(cost, 0) = 0)
  <2> HIDE DEF cost
  <2> QED
    BY <1>7 DEF Log!OrElse
<1>11. called <=> Called(id)
  BY DEF Called
<1>12. \E R, U, X : R = r /\ U = used /\ X = extra
  <2> HIDE DEF r, used, extra
  <2> QED
    OBVIOUS
<1> HIDE DEF r, used, extra
<1>22. PICK R, U, X : R = r /\ U = used /\ X = extra
  BY <1>12
<1>13. DOMAIN R = RequestFields /\ DOMAIN U = Log!Tokens /\ DOMAIN X = RowFields
  BY <1>2, <1>3, <1>4, <1>22, Zenon
<1>14. row = Log!Joined(Log!Joined(R, U), X)
  BY <1>1, <1>22, Zenon
<1>15. /\ \A f \in RequestFields : row[f] = R[f]
       /\ \A f \in Log!Tokens : row[f] = U[f]
       /\ \A f \in RowFields : row[f] = X[f]
  BY <1>13, <1>14, JoinedThree
<1>16. {"id", "requests", "calls", "errors", "tools", "toolCalls", "cost", "priced"} \subseteq RowFields
  BY DEF RowFields
<1>17. /\ row["id"] = X["id"] /\ row["requests"] = X["requests"] /\ row["calls"] = X["calls"]
       /\ row["errors"] = X["errors"] /\ row["tools"] = X["tools"]
       /\ row["toolCalls"] = X["toolCalls"] /\ row["cost"] = X["cost"] /\ row["priced"] = X["priced"]
  BY <1>15, <1>16
<1>18. \A f \in RequestFields : row[f] = db.requests[id][f]
  BY <1>22, <1>15, Zenon DEF r
<1>19. \A t \in Log!Tokens : row[t] = IF Called(id) THEN Log!OrElse(db.calls[id][t], 0) ELSE 0
  BY <1>5, <1>22, <1>15, Zenon
<1>20. /\ row.id = id /\ row.requests = 1
       /\ row.calls = (IF Called(id) THEN 1 ELSE 0)
       /\ row.errors = (IF Log!IsError(db.requests[id]) THEN 1 ELSE 0)
       /\ row.tools = tools /\ row.toolCalls = Len(tools)
       /\ row.cost = Log!OrElse(cost, 0) /\ row.priced = (IF cost = None THEN 0 ELSE 1)
  <2> HIDE DEF cost, tools, called
  <2>1. Log!IsError(r) <=> Log!IsError(db.requests[id])
    BY DEF r
  <2> QED
    BY <1>8, <1>11, <1>22, <1>17, <2>1
<1> HIDE DEF cost, tools, called
<1>21. row.cost \in Int /\ row.priced \in Int /\ (~Called(id) => row.cost = 0 /\ row.priced = 0)
  BY <1>7, <1>10, <1>11, <1>20
<1> QED
  BY <1>9, <1>18, <1>19, <1>20, <1>21, Zenon
-----------------------------------------------------------------------------
\* The list of requests.

Started(id) == db.requests[id].started

Enumerates(s, T, n) ==
    /\ s \in [1 .. n -> T]
    /\ \A i, j \in 1 .. n : i # j => s[i] # s[j]
Descends(s, n) == \A i, j \in 1 .. n : i < j => Started(s[i]) >= Started(s[j])

\* The newest first of a set, then the oldest one.
LEMMA OldestLast ==
    ASSUME NEW T, NEW x \in T, \A y \in T : Started(y) \in Int /\ Started(x) <= Started(y),
           NEW n \in Nat, NEW s, Enumerates(s, T \ {x}, n), Descends(s, n)
    PROVE  \E r : Enumerates(r, T, n + 1) /\ Descends(r, n + 1)
<1> DEFINE r == [i \in 1 .. n + 1 |-> IF i = n + 1 THEN x ELSE s[i]]
<1>1. \A i \in 1 .. n : s[i] \in T /\ s[i] # x /\ i \in 1 .. n + 1 /\ i # n + 1 /\ r[i] = s[i]
  BY DEF Enumerates
<1>2. \A i \in 1 .. n + 1 : i \in 1 .. n \/ i = n + 1
  OBVIOUS
<1>3. r[n + 1] = x /\ n + 1 \in 1 .. n + 1
  OBVIOUS
<1>4. r \in [1 .. n + 1 -> T]
  BY <1>1, <1>2
<1> HIDE DEF r
<1>5. \A i, j \in 1 .. n + 1 : i # j => r[i] # r[j]
  BY <1>1, <1>2, <1>3 DEF Enumerates
<1>6. ASSUME NEW i \in 1 .. n + 1, NEW j \in 1 .. n + 1, i < j PROVE Started(r[i]) >= Started(r[j])
  <2>1. i \in 1 .. n
    BY <1>6
  <2>2. CASE j \in 1 .. n
    BY <1>1, <1>6, <2>1, <2>2 DEF Descends
  <2>3. CASE j = n + 1
    <3>1. r[i] \in T /\ r[j] = x
      BY <1>1, <1>3, <2>1, <2>3
    <3>2. Started(r[i]) \in Int /\ Started(x) \in Int /\ Started(x) <= Started(r[i])
      BY <3>1
    <3> QED
      BY <3>1, <3>2
  <2> QED
    BY <1>2, <2>2, <2>3
<1> QED
  BY <1>4, <1>5, <1>6 DEF Enumerates, Descends

LEMMA OldestExists ==
    ASSUME NEW T, IsFiniteSet(T), T # {}, \A y \in T : Started(y) \in Int
    PROVE  \E x \in T : \A y \in T : Started(x) <= Started(y)
<1> DEFINE F == [y \in T |-> 0 - Started(y)]
<1>1. Numbers(F, T) /\ \A y \in T : F[y] = 0 - Started(y)
  BY DEF Numbers
<1> HIDE DEF F
<1>2. PICK x \in T : \A y \in T : F[y] <= F[x]
  BY <1>1, GreatestExists
<1>3. \A y \in T : Started(x) <= Started(y)
  BY <1>1, <1>2
<1> QED
  BY <1>3

LEMMA NewestFirstExists ==
    ASSUME NEW S, IsFiniteSet(S), \A y \in S : Started(y) \in Int
    PROVE  \E s : Enumerates(s, S, Cardinality(S)) /\ Descends(s, Cardinality(S))
<1> DEFINE P == {T \in SUBSET S : \E s : Enumerates(s, T, Cardinality(T)) /\ Descends(s, Cardinality(T))}
<1>1. ASSUME NEW T \in SUBSET S, \A U \in SUBSET T : U # T => U \in P PROVE T \in P
  <2>0. IsFiniteSet(T)
    BY FS_Subset
  <2>1. CASE T = {}
    <3>1. Cardinality(T) = 0
      BY <2>1, FS_EmptySet
    <3>2. \A i : i \notin 1 .. 0
      OBVIOUS
    <3> DEFINE s == [i \in 1 .. 0 |-> i]
    <3>3. Enumerates(s, T, 0) /\ Descends(s, 0)
      BY <3>2 DEF Enumerates, Descends
    <3> QED
      BY <3>1, <3>3, Zenon
  <2>2. CASE T # {}
    <3>1. PICK x \in T : \A y \in T : Started(x) <= Started(y)
      BY <2>0, <2>2, OldestExists
    <3>2. PICK U \in SUBSET T : U = T \ {x}
      OBVIOUS
    <3>3. U # T
      BY <3>2
    <3>4. PICK n : n = Cardinality(U)
      OBVIOUS
    <3>5. n \in Nat /\ Cardinality(T) = n + 1
      <4>1. Cardinality(T \ {x}) = Cardinality(T) - 1 /\ Cardinality(T) \in Nat
        BY <2>0, FS_RemoveElement, FS_CardinalityType
      <4>2. IsFiniteSet(U)
        BY <2>0, FS_Subset
      <4>3. n \in Nat
        BY <3>4, <4>2, FS_CardinalityType
      <4> QED
        BY <3>2, <3>4, <4>1, <4>3
    <3>6. PICK s : Enumerates(s, U, n) /\ Descends(s, n)
      BY <1>1, <3>3, <3>4
    <3>7. Enumerates(s, T \ {x}, n) /\ Descends(s, n)
      BY <3>2, <3>6
    <3>8. \E r : Enumerates(r, T, n + 1) /\ Descends(r, n + 1)
      BY <3>1, <3>5, <3>7, OldestLast
    <3> QED
      BY <3>5, <3>8
  <2> QED
    BY <2>1, <2>2
<1> HIDE DEF P
<1>2. S \in P
  BY <1>1, SubsetInduction
<1> QED
  BY <1>2 DEF P

\* The list of a set of requests has each of them once.
LEMMA NewestFirstLists ==
    ASSUME NEW S, IsFiniteSet(S), \A y \in S : Started(y) \in Int
    PROVE  Log!NewestFirst(S) \in [1 .. Cardinality(S) -> S]
<1>1. PICK n : n = Cardinality(S)
  OBVIOUS
<1>2. Log!Cardinality(S) = n
  BY <1>1, LogCardinality, Zenon
<1>3. PICK s : Enumerates(s, S, n) /\ Descends(s, n)
  BY <1>1, NewestFirstExists
<1>4. Log!SetToSeqs(S) = {f \in [1 .. n -> S] : \A i, j \in 1 .. n : i # j => f[i] # f[j]}
  BY <1>2 DEF Log!SetToSeqs
<1>5. s \in Log!SetToSeqs(S) /\ DOMAIN s = 1 .. n
  BY <1>3, <1>4 DEF Enumerates
<1>6. \A i, j \in DOMAIN s : i < j => db.requests[s[i]].started >= db.requests[s[j]].started
  BY <1>3, <1>5 DEF Descends, Started
<1>7. Log!NewestFirst(S) \in Log!SetToSeqs(S)
  BY <1>5, <1>6, Zenon DEF Log!NewestFirst
<1> QED
  BY <1>1, <1>4, <1>7

Filtered(since, outcome) == [Log!AnyFilter EXCEPT !.since = since, !.outcome = outcome]

\* What is listed is the first page of what is selected.
LEMMA ListIsPage ==
    ASSUME DbShape, NEW since, NEW outcome
    PROVE  Len(Log!ListRequests(Filtered(since, outcome))) =
             Log!Page(Cardinality(Log!Selected(Filtered(since, outcome))))
<1>1. PICK f : f = Filtered(since, outcome)
  OBVIOUS
<1>2. f.offset = 0 /\ f.limit = 0
  BY <1>1 DEF Filtered, Log!AnyFilter
<1>3. PICK S : S = Log!Selected(f)
  OBVIOUS
<1>4. S \in SUBSET DOMAIN db.requests
  BY <1>3 DEF Log!Selected
<1>5. IsFiniteSet(S) /\ \A y \in S : Started(y) \in Int
  <2>1. IsFiniteSet(DOMAIN db.requests) /\ \A y \in DOMAIN db.requests : Started(y) \in Nat
    BY DEF DbShape, Started
  <2> QED
    BY <1>4, <2>1, FS_Subset
<1>6. PICK n \in Nat : n = Cardinality(S)
  BY <1>5, FS_CardinalityType
<1>7. PICK all \in [1 .. n -> S] : all = Log!NewestFirst(S)
  BY <1>5, <1>6, NewestFirstLists
<1>8. Len(all) = n
  OBVIOUS
<1>9. Log!PageLimit(0) = 100
  BY DEF Log!PageLimit
<1>10. PICK last : last = IF 100 < n THEN 100 ELSE n
  OBVIOUS
<1>11. last \in Nat /\ \A i \in 1 .. last : all[i] \in S
  BY <1>10
<1>12. Log!ListRequests(f) = SubSeq(all, 1, last)
  <2>1. Log!ListRequests(f) = SubSeq(all, f.offset + 1, IF f.offset + Log!PageLimit(f.limit) < Len(all)
                                                      THEN f.offset + Log!PageLimit(f.limit) ELSE Len(all))
    BY <1>3, <1>7, Zenon DEF Log!ListRequests
  <2>2. f.offset + 1 = 1 /\ f.offset + Log!PageLimit(f.limit) = 100
    BY <1>2, <1>9
  <2> QED
    BY <1>8, <1>10, <2>1, <2>2, ZenonT(60)
<1>13. Len(SubSeq(all, 1, last)) = last
  <2>1. Len(SubSeq(all, 1, last)) = IF 1 <= last THEN last - 1 + 1 ELSE 0
    BY <1>11, SubSeqProperties
  <2> QED
    BY <1>11, <2>1
<1>14. Log!Page(n) = last
  BY <1>9, <1>10 DEF Log!Page
<1> QED
  BY <1>1, <1>3, <1>6, <1>12, <1>13, <1>14, Zenon
-----------------------------------------------------------------------------
\* Groups of rows.

Column(S, f) == [r \in S |-> r[f]]

LEMMA FiniteImage ==
    ASSUME NEW S, IsFiniteSet(S), NEW b, NEW B, B = {b[x] : x \in S}
    PROVE  IsFiniteSet(B)
<1> DEFINE c == [x \in S |-> b[x]]
<1>1. c \in Surjection(S, B)
  BY DEF Surjection
<1> HIDE DEF c
<1> QED
  BY <1>1, FS_Surjection

LEMMA TotalIs ==
    ASSUME NEW S, NEW f
    PROVE  Log!Total(S, f) = Sum(Column(S, f), S)
<1>1. Log!Total(S, f) = Log!SumFunction(Column(S, f))
  BY Zenon DEF Log!Total, Log!SumOver, Column
<1>2. DOMAIN Column(S, f) = S
  BY DEF Column
<1> QED
  BY <1>1, <1>2, SumFunctionIs

LEMMA TotalOfPart ==
    ASSUME NEW S, IsFiniteSet(S), NEW f, Numbers(Column(S, f), S), NEW T \in SUBSET S
    PROVE  Log!Total(T, f) = Sum(Column(S, f), T)
<1>1. PICK F, G : F = Column(S, f) /\ G = Column(T, f)
  OBVIOUS
<1>2. \A r \in T : F[r] = G[r]
  BY <1>1 DEF Column
<1>3. IsFiniteSet(T) /\ Numbers(F, T)
  BY <1>1, NumbersOfSubset
<1>4. Sum(F, T) = Sum(G, T)
  BY <1>2, <1>3, SumSame
<1> QED
  BY <1>1, <1>4, TotalIs

LEMMA SumOfIs ==
    ASSUME NEW groups, NEW K, K = DOMAIN groups, NEW f, NEW G, G = [k \in K |-> groups[k][f]]
    PROVE  Log!SumOf(groups, f) = Sum(G, K)
<1>1. Log!SumOf(groups, f) = Log!SumFunction(G)
  BY Zenon DEF Log!SumOf, Log!SumOver
<1>2. DOMAIN G = K
  OBVIOUS
<1> QED
  BY <1>1, <1>2, SumFunctionIs

LEMMA SumOfCountsIs ==
    ASSUME NEW counts, NEW K, K = DOMAIN counts, NEW G, G = [k \in K |-> counts[k]]
    PROVE  Log!SumOfCounts(counts) = Sum(G, K)
<1>1. Log!SumOfCounts(counts) = Log!SumFunction(G)
  BY Zenon DEF Log!SumOfCounts, Log!SumOver
<1>2. DOMAIN G = K
  OBVIOUS
<1> QED
  BY <1>1, <1>2, SumFunctionIs

\* What the groups of rows total adds up to the total of all rows.
LEMMA GroupsAddUp ==
    ASSUME NEW S, IsFiniteSet(S), NEW f, Numbers(Column(S, f), S),
           NEW key, NEW K, IsFiniteSet(K), \A r \in S : key[r] \in K,
           NEW groups, DOMAIN groups = K, \A k \in K : groups[k][f] = Log!Total(Fiber(key, k, S), f)
    PROVE  Log!SumOf(groups, f) = Log!Total(S, f)
<1>1. PICK F : F = Column(S, f)
  OBVIOUS
<1>2. PICK G : G = [k \in K |-> groups[k][f]]
  OBVIOUS
<1>3. \A k \in K : Fiber(key, k, S) \in SUBSET S
  BY DEF Fiber
<1>4. ASSUME NEW k \in K PROVE G[k] = Sum(F, Fiber(key, k, S))
  <2>1. PICK T \in SUBSET S : T = Fiber(key, k, S)
    BY <1>3
  <2>2. Log!Total(T, f) = Sum(F, T)
    BY <1>1, TotalOfPart
  <2>3. G[k] = groups[k][f]
    BY <1>2
  <2> QED
    BY <2>1, <2>2, <2>3
<1>5. Numbers(F, S)
  BY <1>1
<1>6. Sum(G, K) = Sum(F, S)
  BY <1>4, <1>5, SumFibers
<1>7. Log!SumOf(groups, f) = Sum(G, K)
  <2>1. K = DOMAIN groups
    OBVIOUS
  <2> QED
    BY <1>2, <2>1, SumOfIs
<1>8. Log!Total(S, f) = Sum(F, S)
  BY <1>1, TotalIs, Zenon
<1> QED
  BY <1>6, <1>7, <1>8

\* How many are in the groups adds up to how many there are.
LEMMA CountsAddUp ==
    ASSUME NEW S, IsFiniteSet(S), NEW key, NEW K, IsFiniteSet(K), \A r \in S : key[r] \in K,
           NEW counts, DOMAIN counts = K, \A k \in K : counts[k] = Cardinality(Fiber(key, k, S))
    PROVE  Log!SumOfCounts(counts) = Cardinality(S)
<1>1. PICK F : F = [x \in S |-> 1]
  OBVIOUS
<1>2. PICK G : G = [k \in K |-> counts[k]]
  OBVIOUS
<1>3. Numbers(F, S) /\ \A x \in S : F[x] = 1
  BY <1>1 DEF Numbers
<1>4. ASSUME NEW k \in K PROVE G[k] = Sum(F, Fiber(key, k, S))
  <2>1. PICK T \in SUBSET S : T = Fiber(key, k, S)
    BY DEF Fiber
  <2>2. IsFiniteSet(T)
    BY FS_Subset
  <2>3. Sum(F, T) = Cardinality(T)
    BY <1>3, <2>2, SumOnes
  <2> QED
    BY <1>2, <2>1, <2>3
<1>5. Sum(G, K) = Sum(F, S)
  BY <1>3, <1>4, SumFibers
<1>6. Sum(F, S) = Cardinality(S)
  BY <1>3, SumOnes
<1>7. Log!SumOfCounts(counts) = Sum(G, K)
  BY <1>2, SumOfCountsIs, Zenon
<1> QED
  BY <1>5, <1>6, <1>7

LEMMA TallyHas == ASSUME NEW S, NEW fields, NEW f \in fields PROVE Log!Tally(S, fields)[f] = Log!Total(S, f)
  BY DEF Log!Tally

LEMMA GroupedAddsUp ==
    ASSUME NEW S, IsFiniteSet(S), NEW key, NEW fields, NEW f \in fields, Numbers(Column(S, f), S)
    PROVE  Log!SumOf(Log!GroupedBy(S, key, fields), f) = Log!Total(S, f)
<1>1. PICK b : b = Column(S, key)
  OBVIOUS
<1>2. PICK K : K = {b[r] : r \in S}
  OBVIOUS
<1>3. \A r \in S : b[r] = r[key]
  BY <1>1 DEF Column
<1>4. IsFiniteSet(K) /\ \A r \in S : b[r] \in K
  BY <1>2, FiniteImage
<1>5. PICK groups : groups = Log!GroupedBy(S, key, fields)
  OBVIOUS
<1>6. K = {r[key] : r \in S}
  BY <1>2, <1>3
<1>7. groups = [k \in K |-> Log!Tally({r \in S : r[key] = k}, fields)]
  BY <1>5, <1>6, Zenon DEF Log!GroupedBy
<1>8. ASSUME NEW k \in K PROVE groups[k][f] = Log!Total(Fiber(b, k, S), f)
  <2>1. Fiber(b, k, S) = {r \in S : r[key] = k}
    BY <1>3 DEF Fiber
  <2>2. groups[k] = Log!Tally(Fiber(b, k, S), fields)
    BY <1>7, <2>1
  <2> QED
    BY <2>2, TallyHas
<1>9. DOMAIN groups = K
  BY <1>7
<1>10. Log!SumOf(groups, f) = Log!Total(S, f)
  BY <1>4, <1>8, <1>9, GroupsAddUp
<1> QED
  BY <1>5, <1>10

LEMMA SeriesAddsUp ==
    ASSUME NEW S, IsFiniteSet(S), NEW since \in Nat, now \in Nat,
           NEW f \in Log!BucketFields, Numbers(Column(S, f), S)
    PROVE  Log!SumOf(Log!Series(S, since), f) = Log!Total(S, f)
<1>1. PICK b : b = [r \in S |-> Log!BucketOf(r.started)]
  OBVIOUS
<1>2. PICK B : B = {b[r] : r \in S}
  OBVIOUS
<1>3. PICK c : c = [t \in since .. now |-> Log!BucketOf(t)]
  OBVIOUS
<1>4. PICK C : C = {c[t] : t \in since .. now}
  OBVIOUS
<1>5. PICK K : K = C \cup B
  OBVIOUS
<1>6. \A r \in S : b[r] = Log!BucketOf(r.started)
  BY <1>1
<1>7. \A t \in since .. now : c[t] = Log!BucketOf(t)
  BY <1>3
<1>8. IsFiniteSet(K) /\ \A r \in S : b[r] \in K
  <2>1. IsFiniteSet(since .. now)
    BY FS_Interval
  <2>2. IsFiniteSet(B) /\ IsFiniteSet(C)
    BY <1>2, <1>4, <2>1, FiniteImage
  <2> QED
    BY <1>2, <1>5, <2>2, FS_Union
<1>9. PICK groups : groups = Log!Series(S, since)
  OBVIOUS
<1>10. K = {Log!BucketOf(t) : t \in since .. now} \cup {Log!BucketOf(r.started) : r \in S}
  BY <1>2, <1>4, <1>5, <1>6, <1>7
<1>11. groups = [k \in K |-> Log!Tally({r \in S : Log!BucketOf(r.started) = k}, Log!BucketFields)]
  BY <1>9, <1>10, Zenon DEF Log!Series
<1>12. ASSUME NEW k \in K PROVE groups[k][f] = Log!Total(Fiber(b, k, S), f)
  <2>1. Fiber(b, k, S) = {r \in S : Log!BucketOf(r.started) = k}
    BY <1>6 DEF Fiber
  <2>2. groups[k] = Log!Tally(Fiber(b, k, S), Log!BucketFields)
    BY <1>11, <2>1
  <2> QED
    BY <2>2, TallyHas
<1>13. DOMAIN groups = K
  BY <1>11
<1>14. Log!SumOf(groups, f) = Log!Total(S, f)
  BY <1>8, <1>12, <1>13, GroupsAddUp
<1> QED
  BY <1>9, <1>14

\* A model's rows: ModelUsage has the sums of its tally.
LEMMA ModelsAddUp ==
    ASSUME NEW S, IsFiniteSet(S), NEW f \in Log!ModelFields, Numbers(Column(S, f), S),
           NEW groups, groups = [x \in {r.model : r \in S} |-> Log!ModelUsage({r \in S : r.model = x})]
    PROVE  Log!SumOf(groups, f) = Log!Total(S, f)
<1>1. PICK b : b = Column(S, "model")
  OBVIOUS
<1>2. PICK K : K = {b[r] : r \in S}
  OBVIOUS
<1>3. \A r \in S : b[r] = r.model
  BY <1>1 DEF Column
<1>4. IsFiniteSet(K) /\ \A r \in S : b[r] \in K
  BY <1>2, FiniteImage
<1>5. K = {r.model : r \in S}
  BY <1>2, <1>3
<1>6. ASSUME NEW rows PROVE Log!ModelUsage(rows)[f] = Log!Total(rows, f)
  <2>1. PICK sums : sums = Log!Tally(rows, Log!ModelFields)
    OBVIOUS
  <2>2. f \in DOMAIN sums
    BY <2>1 DEF Log!Tally
  <2>3. \E more : Log!ModelUsage(rows) = Log!Joined(sums, more)
    BY <2>1, Zenon DEF Log!ModelUsage
  <2>4. PICK more : Log!ModelUsage(rows) = Log!Joined(sums, more)
    BY <2>3
  <2>5. \A x \in DOMAIN sums : Log!Joined(sums, more)[x] = sums[x]
    BY JoinedFields
  <2>6. sums[f] = Log!Total(rows, f)
    BY <2>1, TallyHas
  <2> QED
    BY <2>2, <2>4, <2>5, <2>6, Zenon
<1>7. ASSUME NEW k \in K PROVE groups[k][f] = Log!Total(Fiber(b, k, S), f)
  <2>1. Fiber(b, k, S) = {r \in S : r.model = k}
    BY <1>3 DEF Fiber
  <2>2. groups[k] = Log!ModelUsage(Fiber(b, k, S))
    BY <1>5, <2>1
  <2> QED
    BY <1>6, <2>2
<1>8. PICK g : g = groups
  OBVIOUS
<1>9. DOMAIN g = K /\ \A k \in K : g[k][f] = Log!Total(Fiber(b, k, S), f)
  BY <1>5, <1>7, <1>8
<1>10. Log!SumOf(g, f) = Log!Total(S, f)
  BY <1>4, <1>9, GroupsAddUp
<1> QED
  BY <1>8, <1>10, Zenon

\* The sessions together have the rows that name one.
LEMMA SessionsAddUp ==
    ASSUME NEW S, IsFiniteSet(S), NEW f \in Log!SessionFields, Numbers(Column(S, f), S),
           NEW T, T = {r \in S : r.session # None}
    PROVE  Log!SumOf(Log!Sessions(S), f) = Log!Total(T, f)
<1>1. PICK b : b = Column(T, "session")
  OBVIOUS
<1>2. PICK K : K = {b[r] : r \in T}
  OBVIOUS
<1>3. \A r \in T : b[r] = r.session
  BY <1>1 DEF Column
<1>0. T \in SUBSET S /\ IsFiniteSet(T)
  BY FS_Subset
<1>4. IsFiniteSet(K) /\ \A r \in T : b[r] \in K
  BY <1>0, <1>2, FiniteImage
<1>5. K = {r.session : r \in S} \ {None}
  BY <1>2, <1>3
<1>6. ASSUME NEW rows PROVE Log!SessionUsage(rows)[f] = Log!Total(rows, f)
  <2>1. PICK sums : sums = Log!Tally(rows, Log!SessionFields)
    OBVIOUS
  <2>2. f \in DOMAIN sums
    BY <2>1 DEF Log!Tally
  <2>3. \E more : Log!SessionUsage(rows) = Log!Joined(sums, more)
    BY <2>1, Zenon DEF Log!SessionUsage
  <2>4. PICK more : Log!SessionUsage(rows) = Log!Joined(sums, more)
    BY <2>3
  <2>5. \A x \in DOMAIN sums : Log!Joined(sums, more)[x] = sums[x]
    BY JoinedFields
  <2>6. sums[f] = Log!Total(rows, f)
    BY <2>1, TallyHas
  <2> QED
    BY <2>2, <2>4, <2>5, <2>6, Zenon
<1>7. PICK groups : groups = Log!Sessions(S)
  OBVIOUS
<1>8. groups = [k \in K |-> Log!SessionUsage({r \in S : r.session = k})]
  BY <1>5, <1>7, Zenon DEF Log!Sessions
<1>9. ASSUME NEW k \in K PROVE groups[k][f] = Log!Total(Fiber(b, k, T), f)
  <2>1. k # None
    BY <1>5
  <2>2. Fiber(b, k, T) = {r \in S : r.session = k}
    BY <1>3, <2>1 DEF Fiber
  <2>3. groups[k] = Log!SessionUsage(Fiber(b, k, T))
    BY <1>8, <2>2
  <2> QED
    BY <1>6, <2>3
<1>10. DOMAIN groups = K
  BY <1>8
<1>11. Numbers(Column(T, f), T)
  <2>1. \A r \in T : Column(T, f)[r] = Column(S, f)[r]
    BY DEF Column
  <2> QED
    BY <2>1 DEF Numbers
<1>12. Log!SumOf(groups, f) = Log!Total(T, f)
  BY <1>0, <1>4, <1>9, <1>10, <1>11, GroupsAddUp
<1> QED
  BY <1>7, <1>12

NumberTable(C, S, K) == \A x \in S : Numbers(C[x], K)
Transposed(D, C, S, K) == \A k \in K : \A x \in S : D[k][x] = C[x][k]
SumsRows(H, C, S, K) == \A x \in S : H[x] = Sum(C[x], K)

\* A sum of sums over two sets is the same either way round.
LEMMA SumsSwap ==
    ASSUME NEW K, IsFiniteSet(K), NEW S, IsFiniteSet(S),
           NEW C, NumberTable(C, S, K), NEW D, Transposed(D, C, S, K),
           NEW G, SumsRows(G, D, K, S), NEW H, SumsRows(H, C, S, K)
    PROVE  Sum(G, K) = Sum(H, S)
<1> USE DEF NumberTable, Transposed, SumsRows
<1> DEFINE cell(k) == [x \in S |-> C[x][k]]
           across(T) == [k \in K |-> Sum(cell(k), T)]
           P == {T \in SUBSET S : Sum(across(T), K) = Sum(H, T)}
<1>1. \A k \in K : Numbers(cell(k), S)
  BY DEF Numbers
<1>2. Numbers(H, S)
  BY SumInt DEF Numbers
<1>3. ASSUME NEW T \in SUBSET S PROVE Numbers(across(T), K)
  <2>1. ASSUME NEW k \in K PROVE Sum(cell(k), T) \in Int
    <3>1. Numbers(cell(k), S)
      BY <1>1
    <3> HIDE DEF cell
    <3> QED
      BY <3>1, NumbersOfSubset
  <2> HIDE DEF cell
  <2> QED
    BY <2>1 DEF Numbers
<1>4. {} \in P
  <2>1. \A k \in K : across({})[k] = 0
    <3> HIDE DEF cell
    <3> QED
      BY SumEmpty
  <2> HIDE DEF across
  <2>2. Sum(across({}), K) = 0
    BY <2>1, SumZero
  <2> QED
    BY <2>2, SumEmpty
<1>5. ASSUME NEW T \in SUBSET S, NEW x \in T, T \ {x} \in P PROVE T \in P
  <2> DEFINE U == T \ {x}
  <2>1. Sum(H, T) = Sum(H, U) + H[x] /\ H[x] \in Int /\ Sum(H, U) \in Int
    BY <1>2, SumRemoves
  <2>2. ASSUME NEW k \in K PROVE across(T)[k] = across(U)[k] + C[x][k]
    <3>1. Numbers(cell(k), S) /\ cell(k)[x] = C[x][k]
      BY <1>1
    <3> HIDE DEF cell
    <3>2. Sum(cell(k), T) = Sum(cell(k), U) + cell(k)[x]
      BY <3>1, SumRemoves
    <3>3. across(T)[k] = Sum(cell(k), T) /\ across(U)[k] = Sum(cell(k), U)
      OBVIOUS
    <3> QED
      BY <3>1, <3>2, <3>3
  <2>3. U \in SUBSET S /\ Numbers(across(U), K) /\ Sum(across(U), K) = Sum(H, U) /\ Numbers(C[x], K)
    BY <1>3, <1>5
  <2> HIDE DEF across, U
  <2>4. PICK F, A, B : F = C[x] /\ A = across(T) /\ B = across(U)
    OBVIOUS
  <2>5. \A k \in K : A[k] = B[k] + F[k]
    BY <2>2, <2>4
  <2>6. Sum(A, K) = Sum(B, K) + Sum(F, K)
    BY <2>3, <2>4, <2>5, SumPlus
  <2>7. Sum(F, K) = H[x]
    BY <2>4
  <2>8. Sum(across(T), K) = Sum(H, T)
    BY <2>1, <2>3, <2>4, <2>6, <2>7
  <2> QED
    BY <2>8
<1>6. S \in P
  <2> HIDE DEF P
  <2> QED
    BY <1>4, <1>5, RemoveInduction, Zenon
<1>7. ASSUME NEW k \in K PROVE across(S)[k] = G[k]
  <2>1. PICK F : F = D[k] /\ G[k] = Sum(F, S)
    OBVIOUS
  <2>2. PICK E : E = cell(k)
    OBVIOUS
  <2>3. Numbers(E, S) /\ \A x \in S : E[x] = F[x]
    BY <1>1, <2>1, <2>2
  <2>4. Sum(E, S) = Sum(F, S)
    BY <2>3, SumSame
  <2>5. across(S)[k] = Sum(cell(k), S)
    <3> HIDE DEF cell
    <3> QED
      OBVIOUS
  <2> HIDE DEF across, cell
  <2> QED
    BY <2>1, <2>2, <2>4, <2>5
<1>8. Numbers(across(S), K)
  BY <1>3
<1>9. Sum(across(S), K) = Sum(H, S)
  BY <1>6
<1> HIDE DEF across, P
<1> QED
  BY <1>7, <1>8, <1>9, SumSame

\* What the tools were called adds up to the number of calls of tools.
LEMMA ToolsAddUp ==
    ASSUME NEW S, IsFiniteSet(S), \A r \in S : r.tools \in Seq(Range(r.tools)) /\ r.toolCalls = Len(r.tools)
    PROVE  Log!SumOfCounts(Log!Tools(S)) = Log!Total(S, "toolCalls")
<1>1. PICK K : K = UNION {Log!ToSet(r.tools) : r \in S}
  OBVIOUS
<1>2. \A r \in S : Log!ToSet(r.tools) = {r.tools[i] : i \in DOMAIN r.tools}
  BY DEF Log!ToSet
<1>3. ASSUME NEW r \in S
      PROVE  /\ IsFiniteSet(DOMAIN r.tools) /\ Cardinality(DOMAIN r.tools) = Len(r.tools)
             /\ IsFiniteSet(Log!ToSet(r.tools)) /\ \A i \in DOMAIN r.tools : r.tools[i] \in K
  <2>1. PICK n \in Nat : n = Len(r.tools) /\ DOMAIN r.tools = 1 .. n
    OBVIOUS
  <2>2. IsFiniteSet(1 .. n) /\ Cardinality(1 .. n) = n
    BY FS_Interval
  <2>3. IsFiniteSet(DOMAIN r.tools) /\ Cardinality(DOMAIN r.tools) = Len(r.tools)
    BY <2>1, <2>2
  <2>4. PICK b, D, B : b = r.tools /\ D = DOMAIN r.tools /\ B = Log!ToSet(r.tools)
    OBVIOUS
  <2>5. B = {b[i] : i \in D} /\ IsFiniteSet(D)
    BY <1>2, <2>3, <2>4
  <2>6. IsFiniteSet(B)
    BY <2>5, FiniteImage
  <2>7. B \subseteq K
    BY <1>1, <2>4
  <2> QED
    BY <2>3, <2>4, <2>5, <2>6, <2>7
<1>4. IsFiniteSet(K)
  <2> DEFINE b == [r \in S |-> Log!ToSet(r.tools)]
             parts == {b[r] : r \in S}
  <2>1. \A T \in parts : IsFiniteSet(T)
    BY <1>3
  <2>2. K = UNION parts
    BY <1>1
  <2> HIDE DEF b
  <2>3. IsFiniteSet(parts)
    BY FiniteImage
  <2> HIDE DEF parts
  <2> QED
    BY <2>1, <2>2, <2>3, FS_UNION
<1> DEFINE at(r, k) == {i \in DOMAIN r.tools : r.tools[i] = k}
           count(r) == [k \in K |-> Cardinality(at(r, k))]
           C == [r \in S |-> count(r)]
           H == Column(S, "toolCalls")
<1>5. ASSUME NEW r \in S PROVE Numbers(C[r], K)
  <2>1. ASSUME NEW k \in K PROVE Cardinality(at(r, k)) \in Int
    <3>1. PICK D : D = DOMAIN r.tools
      OBVIOUS
    <3>2. PICK T \in SUBSET D : T = at(r, k)
      BY <3>1
    <3>3. IsFiniteSet(T)
      BY <1>3, <3>1, FS_Subset
    <3>4. Cardinality(T) \in Nat
      BY <3>3, FS_CardinalityType
    <3> QED
      BY <3>2, <3>4
  <2> HIDE DEF at
  <2> QED
    BY <2>1 DEF Numbers
<1>6. ASSUME NEW r \in S PROVE H[r] = Sum(C[r], K)
  <2>1. PICK b, D : b = r.tools /\ D = DOMAIN r.tools
    OBVIOUS
  <2>2. IsFiniteSet(D) /\ Cardinality(D) = Len(b) /\ \A i \in D : b[i] \in K
    BY <1>3, <2>1
  <2>3. PICK counts : counts = count(r)
    OBVIOUS
  <2>4. \A k \in K : at(r, k) = Fiber(b, k, D)
    BY <2>1 DEF Fiber
  <2>5. C[r] = counts /\ H[r] = Len(b)
    <3> HIDE DEF count
    <3> QED
      BY <2>1, <2>3 DEF Column
  <2> HIDE DEF at, C, H
  <2>6. DOMAIN counts = K /\ \A k \in K : counts[k] = Cardinality(Fiber(b, k, D))
    BY <2>3, <2>4
  <2>7. Log!SumOfCounts(counts) = Cardinality(D)
    BY <1>4, <2>2, <2>6, CountsAddUp, ZenonT(60)
  <2>8. Log!SumOfCounts(counts) = Sum(counts, K)
    <3>1. counts = [k \in K |-> counts[k]] /\ K = DOMAIN counts
      BY <2>3
    <3> QED
      BY <3>1, SumOfCountsIs, Zenon
  <2> QED
    BY <2>2, <2>5, <2>7, <2>8
<1>7. PICK tools : tools = Log!Tools(S)
  OBVIOUS
<1>8. tools = [t \in K |-> Log!SumOver(S, LAMBDA r : Log!Cardinality({i \in DOMAIN r.tools : r.tools[i] = t}))]
  BY <1>1, <1>7, Zenon DEF Log!Tools
<1> DEFINE D == [k \in K |-> [r \in S |-> Log!Cardinality(at(r, k))]]
<1>9. ASSUME NEW k \in K PROVE (\A r \in S : D[k][r] = C[r][k]) /\ tools[k] = Sum(D[k], S)
  <2>1. \A r \in S : D[k][r] = C[r][k]
    <3> HIDE DEF at
    <3> QED
      BY LogCardinality
  <2>2. tools[k] = Log!SumFunction(D[k])
    BY <1>8 DEF Log!SumOver
  <2>3. DOMAIN (D[k]) = S
    OBVIOUS
  <2> HIDE DEF D, C
  <2>4. PICK F : F = D[k]
    OBVIOUS
  <2>5. tools[k] = Sum(F, S)
    BY <2>2, <2>3, <2>4, SumFunctionIs
  <2> QED
    BY <2>1, <2>4, <2>5
<1>10. PICK G : G = [k \in K |-> tools[k]]
  OBVIOUS
<1>11. \A k \in K : G[k] = tools[k]
  BY <1>10
<1>12. DOMAIN tools = K
  BY <1>8
<1> HIDE DEF C, D, H
<1>13. Sum(G, K) = Sum(H, S)
  <2>1. NumberTable(C, S, K) /\ Transposed(D, C, S, K) /\ SumsRows(G, D, K, S) /\ SumsRows(H, C, S, K)
    BY <1>5, <1>6, <1>9, <1>11 DEF NumberTable, Transposed, SumsRows
  <2> QED
    BY <1>4, <2>1, SumsSwap
<1>14. Log!SumOfCounts(tools) = Sum(G, K)
  BY <1>10, <1>12, SumOfCountsIs
<1>15. Log!Total(S, "toolCalls") = Sum(H, S)
  BY TotalIs DEF H
<1> QED
  BY <1>7, <1>13, <1>14, <1>15
-----------------------------------------------------------------------------
\* The rows of a window and the requests they are of.

LEMMA SumOfMembers ==
    ASSUME NEW S, IsFiniteSet(S), NEW Z \in SUBSET S, NEW F, \A x \in S : F[x] = IF x \in Z THEN 1 ELSE 0
    PROVE  Sum(F, S) = Cardinality(Z)
<1>1. Numbers(F, S) /\ \A x \in S \ Z : F[x] = 0
  BY DEF Numbers
<1>2. Sum(F, S) = Sum(F, Z)
  BY <1>1, SumWithout
<1>3. IsFiniteSet(Z) /\ \A x \in Z : F[x] = 1
  BY FS_Subset
<1>4. Sum(F, Z) = Cardinality(Z)
  BY <1>3, SumOnes
<1> QED
  BY <1>2, <1>4

LEMMA RowsTotal ==
    ASSUME DbShape, NEW I \in SUBSET DOMAIN db.requests, NEW f,
           NEW G, \A id \in I : G[id] \in Int /\ Log!Row(id)[f] = G[id],
           NEW C, C = {Log!Row(id) : id \in I}
    PROVE  Log!Total(C, f) = Sum(G, I) /\ Numbers(Column(C, f), C) /\ IsFiniteSet(C)
<1>1. PICK b : b = [id \in I |-> Log!Row(id)]
  OBVIOUS
<1>2. \A id \in I : b[id] = Log!Row(id)
  BY <1>1
<1>3. IsFiniteSet(I)
  <2>1. IsFiniteSet(DOMAIN db.requests)
    BY DEF DbShape
  <2> QED
    BY <2>1, FS_Subset
<1>4. C = Image(b, I)
  BY <1>2 DEF Image
<1>5. OneToOne(b, I)
  <2>1. \A id \in I : b[id].id = id
    BY <1>2, RowSays
  <2> QED
    BY <2>1 DEF OneToOne
<1>6. PICK F : F = Column(C, f)
  OBVIOUS
<1>7. Reads(G, F, b, I)
  BY <1>2, <1>4, <1>6 DEF Column, Reads, Image
<1>8. Numbers(G, I)
  BY DEF Numbers
<1>9. Sum(F, C) = Sum(G, I) /\ IsFiniteSet(C) /\ Numbers(F, C)
  <2>1. /\ Sum(F, Image(b, I)) = Sum(G, I)
        /\ IsFiniteSet(Image(b, I)) /\ Numbers(F, Image(b, I))
    BY <1>3, <1>5, <1>7, <1>8, SumImage, Zenon
  <2> QED
    BY <1>4, <2>1, Zenon
<1>10. Log!Total(C, f) = Sum(F, C)
  BY <1>6, TotalIs, Zenon
<1> QED
  BY <1>6, <1>9, <1>10

Counted == Log!BucketFields \cup Log!ModelFields \cup {"calls"}

LEMMA RowCounts ==
    ASSUME DbShape, NEW id \in DOMAIN db.requests, NEW f \in Counted
    PROVE  /\ Log!Row(id)[f] \in Int
           /\ ~Called(id) /\ f \in Log!ModelFields \ {"requests", "errors"} => Log!Row(id)[f] = 0
           /\ Log!Row(id).tools \in Seq(Range(Log!Row(id).tools))
<1>1. PICK row : row = Log!Row(id)
  OBVIOUS
<1>2. /\ row["redactions"] = db.requests[id]["redactions"]
      /\ \A t \in Log!Tokens : row[t] = IF Called(id) THEN Log!OrElse(db.calls[id][t], 0) ELSE 0
      /\ row.requests = 1
      /\ row.calls = IF Called(id) THEN 1 ELSE 0
      /\ row.errors = IF Log!IsError(db.requests[id]) THEN 1 ELSE 0
      /\ row.tools = IF Called(id) THEN db.calls[id].tools ELSE <<>>
      /\ row.toolCalls = Len(row.tools)
      /\ row.cost \in Int /\ row.priced \in Int
      /\ ~Called(id) => row.cost = 0 /\ row.priced = 0
  <2>1. "redactions" \in RequestFields
    BY DEF RequestFields
  <2> QED
    BY <1>1, <2>1, RowSays
<1>3. db.requests[id]["redactions"] \in Int
  BY DEF DbShape
<1>4. \A t \in Log!Tokens : row[t] \in Int /\ (~Called(id) => row[t] = 0)
  <2>1. Called(id) => \A t \in Log!Tokens : db.calls[id][t] \in Nat \cup {None}
    BY Zenon DEF DbShape, Log!IsCall, Called
  <2> QED
    BY <1>2, <2>1 DEF Log!OrElse
<1>5. row.tools \in Seq(Range(row.tools)) /\ (~Called(id) => row.toolCalls = 0) /\ row.toolCalls \in Int
  <2>1. CASE Called(id)
    <3>1. Log!IsCall(db.calls[id])
      BY <2>1 DEF DbShape, Called
    <3>2. PICK tools : tools = db.calls[id].tools
      OBVIOUS
    <3>3. tools \in Seq(Log!ToSet(tools))
      BY <3>1, <3>2, Zenon DEF Log!IsCall
    <3>4. Log!ToSet(tools) = Range(tools)
      BY DEF Log!ToSet, Range
    <3>5. tools \in Seq(Range(tools)) /\ Len(tools) \in Nat
      BY <3>3, <3>4
    <3>6. row.tools = tools
      BY <1>2, <2>1, <3>2
    <3> QED
      BY <1>2, <2>1, <3>5, <3>6
  <2>2. CASE ~Called(id)
    <3>1. row.tools = <<>> /\ row.toolCalls = Len(<<>>)
      BY <1>2, <2>2
    <3> QED
      BY <3>1
  <2> QED
    BY <2>1, <2>2
<1>6. row["requests"] \in Int /\ row["calls"] \in Int /\ row["errors"] \in Int
  BY <1>2
<1>7. CASE f \in Log!Tokens
  BY <1>1, <1>4, <1>5, <1>7
<1>8. CASE f \in {"requests", "calls", "errors", "redactions"}
  <2>1. row[f] \in Int
    BY <1>2, <1>3, <1>6, <1>8
  <2>2. f \notin Log!ModelFields \ {"requests", "errors"}
    BY <1>8 DEF Log!ModelFields, Log!GroupFields
  <2> QED
    BY <1>1, <1>5, <2>1, <2>2
<1>9. CASE f \in {"cost", "priced", "toolCalls"}
  <2>1. row[f] \in Int /\ (~Called(id) => row[f] = 0)
    BY <1>2, <1>5, <1>9
  <2> QED
    BY <1>1, <1>5, <2>1
<1>10. f \in Log!Tokens \cup {"requests", "calls", "errors", "redactions"} \cup {"cost", "priced", "toolCalls"}
  BY DEF Counted, Log!BucketFields, Log!ModelFields, Log!GroupFields, Log!Tokens
<1> QED
  BY <1>7, <1>8, <1>9, <1>10

Window(since) == Log!Since(since)
CalledIn(since) == DOMAIN db.calls \cap Window(since)
RowsOf(I) == {Log!Row(id) : id \in I}
Current(since) == RowsOf(Window(since))

LEMMA WindowIs ==
    ASSUME DbShape, NEW since
    PROVE  /\ Window(since) \in SUBSET DOMAIN db.requests /\ IsFiniteSet(Window(since))
           /\ CalledIn(since) \in SUBSET Window(since) /\ IsFiniteSet(CalledIn(since))
           /\ \A id \in Window(since) : id \in CalledIn(since) <=> Called(id)
<1>1. IsFiniteSet(DOMAIN db.requests)
  BY DEF DbShape
<1>2. Window(since) \in SUBSET DOMAIN db.requests
  BY DEF Window, Log!Since
<1>3. CalledIn(since) \in SUBSET Window(since)
  BY DEF CalledIn
<1>4. \A id \in Window(since) : id \in CalledIn(since) <=> Called(id)
  BY DEF CalledIn, Called
<1> QED
  BY <1>1, <1>2, <1>3, <1>4, FS_Subset

\* Every field that is counted is a number in all rows.
LEMMA RowsCount ==
    ASSUME DbShape, NEW I \in SUBSET DOMAIN db.requests, NEW f \in Counted
    PROVE  IsFiniteSet(RowsOf(I)) /\ Numbers(Column(RowsOf(I), f), RowsOf(I))
<1>1. PICK G : G = [id \in I |-> Log!Row(id)[f]]
  OBVIOUS
<1>2. \A id \in I : G[id] \in Int /\ Log!Row(id)[f] = G[id]
  BY <1>1, RowCounts
<1>3. PICK C : C = RowsOf(I)
  OBVIOUS
<1>4. C = {Log!Row(id) : id \in I}
  BY <1>3 DEF RowsOf
<1>5. Numbers(Column(C, f), C) /\ IsFiniteSet(C)
  BY <1>2, <1>4, RowsTotal
<1> QED
  BY <1>3, <1>5

LEMMA CalledRows ==
    ASSUME DbShape, NEW since
    PROVE  /\ {r \in Current(since) : r.calls = 1} = RowsOf(CalledIn(since))
           /\ {r \in RowsOf(CalledIn(since)) : r.session # None} =
                RowsOf({id \in CalledIn(since) : db.requests[id].session # None})
<1>1. \A id \in Window(since) : Log!Row(id).calls = IF Called(id) THEN 1 ELSE 0
  BY WindowIs, RowSays
<1>2. \A id \in Window(since) : Log!Row(id).calls = 1 <=> id \in CalledIn(since)
  BY <1>1, WindowIs
<1>3. \A id \in Window(since) : Log!Row(id).session = db.requests[id].session
  <2>1. "session" \in RequestFields
    BY DEF RequestFields
  <2> QED
    BY <2>1, WindowIs, RowSays
<1>4. CalledIn(since) \subseteq Window(since)
  BY WindowIs
<1> QED
  BY <1>2, <1>3, <1>4 DEF Current, RowsOf

\* What the report is of: the rows of its window.
LEMMA ReportIs ==
    ASSUME DbShape, NEW since \in 0 .. now
    PROVE  \E previous :
             Log!UsageReport(since) =
               Log!Report(Current(since), previous, RowsOf(CalledIn(since)),
                          Log!Sessions(RowsOf(CalledIn(since))), since)
<1>1. PICK rows : rows = {Log!Row(id) : id \in Log!Since(since - (now - since))}
  OBVIOUS
<1>2. \A id \in DOMAIN db.requests : Log!Row(id).started = Started(id)
  <2>1. "started" \in RequestFields
    BY DEF RequestFields
  <2> QED
    BY <2>1, RowSays DEF Started
<1>3. {r \in rows : r.started >= since} = Current(since)
  <2>1. since - (now - since) \in Int /\ since - (now - since) <= since /\ since \in Int
    BY DEF DbShape
  <2>2. PICK before \in Int : before = since - (now - since) /\ before <= since
    BY <2>1
  <2>3. \A id \in DOMAIN db.requests : Started(id) \in Int
    BY DEF DbShape, Started
  <2>4. \A time : Log!Since(time) = {id \in DOMAIN db.requests : Started(id) >= time}
    BY DEF Log!Since, Started
  <2>5. {id \in Log!Since(before) : Started(id) >= since} = Window(since)
    BY <2>1, <2>2, <2>3, <2>4 DEF Window
  <2>6. rows = {Log!Row(id) : id \in Log!Since(before)} /\ Log!Since(before) \subseteq DOMAIN db.requests
    BY <1>1, <2>2, <2>4
  <2> QED
    BY <1>2, <2>5, <2>6 DEF Current, RowsOf
<1>4. {r \in Current(since) : r.calls = 1} = RowsOf(CalledIn(since))
  BY CalledRows
<1>5. Log!UsageReport(since) = Log!ReportOf(rows, since)
  BY <1>1, Zenon DEF Log!UsageReport
<1>6. Log!ReportOf(rows, since) =
        Log!Report(Current(since), rows \ Current(since), RowsOf(CalledIn(since)),
                   Log!Sessions(RowsOf(CalledIn(since))), since)
  BY <1>3, <1>4, Zenon DEF Log!ReportOf
<1> QED
  BY <1>5, <1>6
-----------------------------------------------------------------------------
\* The statistics of the window and its rows tell the same.

EventsIn(W) == {e \in db.events : e.id \in W}
RedactionsIn(W) == [i \in W |-> db.requests[i].redactions]
TokensIn(K, t) == [i \in K |-> Log!OrElse(db.calls[i][t], 0)]
ByEntity(events) ==
    [x \in {e.entity : e \in events} |-> Log!SumFunction(Counts({e \in events : e.entity = x}))]
ByAgent(W) ==
    [x \in {db.requests[i].agent : i \in W} |-> Log!Cardinality({i \in W : db.requests[i].agent = x})]
ByModel(K) ==
    [x \in {db.calls[i].model : i \in K} |-> Log!Cardinality({i \in K : db.calls[i].model = x})]
Failed(W) == {i \in W : Log!IsError(db.requests[i])}

LEMMA StatsSay ==
    ASSUME NEW since, NEW s, s = Log!Stats(since)
    PROVE  /\ s.requests = Cardinality(Window(since))
           /\ s.errors = Cardinality(Failed(Window(since)))
           /\ s.redactions = Log!SumFunction(RedactionsIn(Window(since)))
           /\ s.input = Log!SumFunction(TokensIn(CalledIn(since), "input"))
           /\ s.output = Log!SumFunction(TokensIn(CalledIn(since), "output"))
           /\ s.byEntity = ByEntity(EventsIn(Window(since)))
           /\ s.byAgent = ByAgent(Window(since))
           /\ s.byModel = ByModel(CalledIn(since))
<1>1. s.requests = Log!Cardinality(Window(since))
  BY Zenon DEF Log!Stats, Window
<1>2. s.errors = Log!Cardinality(Failed(Window(since)))
  BY Zenon DEF Log!Stats, Window, Failed
<1>3. s.redactions = Log!SumFunction(RedactionsIn(Window(since)))
  BY Zenon DEF Log!Stats, Window, Log!SumOver, RedactionsIn
<1>4. s.input = Log!SumFunction(TokensIn(CalledIn(since), "input"))
  BY Zenon DEF Log!Stats, Window, CalledIn, Log!SumOver, TokensIn
<1>5. s.output = Log!SumFunction(TokensIn(CalledIn(since), "output"))
  BY Zenon DEF Log!Stats, Window, CalledIn, Log!SumOver, TokensIn
<1>6. s.byEntity = ByEntity(EventsIn(Window(since)))
  BY Zenon DEF Log!Stats, Window, Log!SumOver, Counts, ByEntity, EventsIn
<1>7. s.byAgent = ByAgent(Window(since))
  BY Zenon DEF Log!Stats, Window, ByAgent
<1>8. s.byModel = ByModel(CalledIn(since))
  BY Zenon DEF Log!Stats, Window, CalledIn, ByModel
<1>9. s.requests = Cardinality(Window(since)) /\ s.errors = Cardinality(Failed(Window(since)))
  BY <1>1, <1>2, LogCardinality
<1> QED
  BY <1>3, <1>4, <1>5, <1>6, <1>7, <1>8, <1>9, Zenon

\* What is counted of the requests.
LEMMA RequestsCounted ==
    ASSUME DbShape, NEW since
    PROVE  /\ Log!Total(Current(since), "requests") = Cardinality(Window(since))
           /\ Log!Total(Current(since), "calls") = Cardinality(CalledIn(since))
           /\ Log!Total(Current(since), "errors") =
                Cardinality(Failed(Window(since)))
           /\ Log!Total(RowsOf(CalledIn(since)), "requests") = Cardinality(CalledIn(since))
<1>1. PICK W : W = Window(since)
  OBVIOUS
<1>2. PICK K : K = CalledIn(since)
  OBVIOUS
<1>3. PICK E : E = Failed(W)
  OBVIOUS
<1>4. W \in SUBSET DOMAIN db.requests /\ IsFiniteSet(W) /\ K \in SUBSET W /\ E \in SUBSET W
      /\ IsFiniteSet(K) /\ K \in SUBSET DOMAIN db.requests /\ \A id \in W : id \in K <=> Called(id)
  BY <1>1, <1>2, <1>3, WindowIs DEF Failed
<1>5. PICK C, D : C = Current(since) /\ D = RowsOf(K)
  OBVIOUS
<1>6. C = {Log!Row(id) : id \in W} /\ D = {Log!Row(id) : id \in K}
  BY <1>1, <1>5 DEF Current, RowsOf
<1>7. \A id \in W : /\ Log!Row(id)["requests"] = 1
                    /\ Log!Row(id)["calls"] = IF Called(id) THEN 1 ELSE 0
                    /\ Log!Row(id)["errors"] = IF Log!IsError(db.requests[id]) THEN 1 ELSE 0
  BY <1>4, RowSays
<1>8. Log!Total(C, "requests") = Cardinality(W)
  <2>1. PICK G : G = [id \in W |-> 1]
    OBVIOUS
  <2>2. \A id \in W : G[id] \in Int /\ G[id] = 1 /\ Log!Row(id)["requests"] = G[id]
    BY <1>7, <2>1
  <2>3. Log!Total(C, "requests") = Sum(G, W)
    BY <1>4, <1>6, <2>2, RowsTotal
  <2> QED
    BY <1>4, <2>2, <2>3, SumOnes
<1>9. Log!Total(D, "requests") = Cardinality(K)
  <2>1. PICK G : G = [id \in K |-> 1]
    OBVIOUS
  <2>2. \A id \in K : G[id] \in Int /\ G[id] = 1 /\ Log!Row(id)["requests"] = G[id]
    BY <1>4, <1>7, <2>1
  <2>3. Log!Total(D, "requests") = Sum(G, K)
    BY <1>4, <1>6, <2>2, RowsTotal
  <2> QED
    BY <1>4, <2>2, <2>3, SumOnes
<1>10. Log!Total(C, "calls") = Cardinality(K)
  <2>1. PICK G : G = [id \in W |-> IF id \in K THEN 1 ELSE 0]
    OBVIOUS
  <2>2. \A id \in W : G[id] \in Int /\ G[id] = (IF id \in K THEN 1 ELSE 0) /\ Log!Row(id)["calls"] = G[id]
    BY <1>4, <1>7, <2>1
  <2>3. Log!Total(C, "calls") = Sum(G, W)
    BY <1>4, <1>6, <2>2, RowsTotal
  <2> QED
    BY <1>4, <2>2, <2>3, SumOfMembers
<1>11. Log!Total(C, "errors") = Cardinality(E)
  <2>1. PICK G : G = [id \in W |-> IF id \in E THEN 1 ELSE 0]
    OBVIOUS
  <2>2. \A id \in W : G[id] \in Int /\ G[id] = (IF id \in E THEN 1 ELSE 0) /\ Log!Row(id)["errors"] = G[id]
    BY <1>3, <1>7, <2>1 DEF Failed
  <2>3. Log!Total(C, "errors") = Sum(G, W)
    BY <1>4, <1>6, <2>2, RowsTotal
  <2> QED
    BY <1>4, <2>2, <2>3, SumOfMembers
<1> QED
  BY <1>1, <1>2, <1>3, <1>5, <1>8, <1>9, <1>10, <1>11

\* What is counted of the tokens of the calls.
LEMMA TokensCounted ==
    ASSUME DbShape, NEW since, NEW t \in {"input", "output"}
    PROVE  Log!Total(Current(since), t) =
             Log!SumFunction(TokensIn(CalledIn(since), t))
<1>1. PICK W : W = Window(since)
  OBVIOUS
<1>2. PICK K : K = CalledIn(since)
  OBVIOUS
<1>4. W \in SUBSET DOMAIN db.requests /\ IsFiniteSet(W) /\ K \in SUBSET W
      /\ \A id \in W : id \in K <=> Called(id)
  BY <1>1, <1>2, WindowIs
<1>5. PICK C : C = Current(since)
  OBVIOUS
<1>6. C = {Log!Row(id) : id \in W}
  BY <1>1, <1>5 DEF Current, RowsOf
<1>7. t \in Log!Tokens /\ t \in Counted
  BY DEF Log!Tokens, Counted, Log!ModelFields, Log!GroupFields
<1>8. PICK G : G = [id \in W |-> Log!Row(id)[t]]
  OBVIOUS
<1>9. \A id \in W : G[id] \in Int /\ Log!Row(id)[t] = G[id]
  BY <1>4, <1>7, <1>8, RowCounts
<1>10. \A id \in W : Log!Row(id)[t] = IF Called(id) THEN Log!OrElse(db.calls[id][t], 0) ELSE 0
  BY <1>4, <1>7, RowSays
<1>11. Log!Total(C, t) = Sum(G, W)
  BY <1>4, <1>6, <1>9, RowsTotal
<1>12. Numbers(G, W) /\ \A id \in W \ K : G[id] = 0
  BY <1>4, <1>9, <1>10 DEF Numbers
<1>13. Sum(G, W) = Sum(G, K)
  BY <1>4, <1>12, SumWithout
<1>14. PICK F : F = TokensIn(K, t)
  OBVIOUS
<1>15. \A id \in K : G[id] = F[id]
  BY <1>4, <1>9, <1>10, <1>14 DEF TokensIn
<1>16. Numbers(G, K) /\ IsFiniteSet(K)
  BY <1>4, <1>12, NumbersOfSubset
<1>17. Sum(G, K) = Sum(F, K)
  BY <1>15, <1>16, SumSame
<1>18. Log!SumFunction(F) = Sum(F, K)
  <2>1. DOMAIN F = K
    BY <1>14 DEF TokensIn
  <2> QED
    BY <2>1, SumFunctionIs
<1> QED
  BY <1>2, <1>5, <1>11, <1>13, <1>14, <1>17, <1>18

\* What is counted of the redactions, in the requests and in the events.
LEMMA RedactionsCounted ==
    ASSUME DbShape, NEW since, NEW s, s = Log!Stats(since)
    PROVE  /\ Log!Total(Current(since), "redactions") = s.redactions
           /\ Log!SumOfCounts(s.byEntity) = s.redactions
<1>1. PICK W : W = Window(since)
  OBVIOUS
<1>2. W \in SUBSET DOMAIN db.requests /\ IsFiniteSet(W)
  BY <1>1, WindowIs
<1>3. PICK G : G = RedactionsIn(W)
  OBVIOUS
<1>4. \A id \in W : G[id] \in Int /\ Log!Row(id)["redactions"] = G[id]
  <2>1. "redactions" \in RequestFields
    BY DEF RequestFields
  <2>2. \A id \in W : Log!Row(id)["redactions"] = db.requests[id]["redactions"]
    BY <1>2, <2>1, RowSays
  <2>3. \A id \in W : db.requests[id].redactions \in Int
    BY <1>2 DEF DbShape
  <2> QED
    BY <1>3, <2>2, <2>3 DEF RedactionsIn
<1>7. PICK events : events = EventsIn(W)
  OBVIOUS
<1>5. s.redactions = Sum(G, W)
  <2>1. s.redactions = Log!SumFunction(G)
    BY <1>1, <1>3, StatsSay
  <2>2. DOMAIN G = W
    BY <1>3 DEF RedactionsIn
  <2> QED
    BY <2>1, <2>2, SumFunctionIs
<1>6. Log!Total(Current(since), "redactions") = Sum(G, W)
  <2>1. PICK C : C = Current(since)
    OBVIOUS
  <2>2. C = {Log!Row(id) : id \in W}
    BY <1>1, <2>1 DEF Current, RowsOf
  <2>3. Log!Total(C, "redactions") = Sum(G, W)
    BY <1>2, <1>4, <2>2, RowsTotal
  <2> QED
    BY <2>1, <2>3
<1>8. events \in SUBSET db.events /\ IsFiniteSet(events) /\ \A e \in events : e.count \in Nat /\ e.id \in W
  <2>1. IsFiniteSet(db.events) /\ \A e \in db.events : e.count \in Nat
    BY DEF DbShape
  <2>2. events \in SUBSET db.events
    BY <1>7 DEF EventsIn
  <2> QED
    BY <1>7, <2>1, <2>2, FS_Subset DEF EventsIn
<1>9. PICK F : F = Counts(events)
  OBVIOUS
<1>10. Numbers(F, events)
  BY <1>8, <1>9 DEF Numbers, Counts
<1>11. ASSUME NEW T \in SUBSET events PROVE Sum(Counts(T), T) = Sum(F, T)
  <2>1. PICK H : H = Counts(T)
    OBVIOUS
  <2>2. \A e \in T : F[e] = H[e]
    BY <1>9, <2>1 DEF Counts
  <2>3. Numbers(F, T) /\ IsFiniteSet(T)
    BY <1>8, <1>10, NumbersOfSubset
  <2> QED
    BY <2>1, <2>2, <2>3, SumSame
<1>12. Sum(G, W) = Sum(F, events)
  <2>1. PICK key : key = [e \in events |-> e.id]
    OBVIOUS
  <2>2. \A e \in events : key[e] \in W
    BY <1>8, <2>1
  <2>3. ASSUME NEW id \in W PROVE G[id] = Sum(F, Fiber(key, id, events))
    <3>1. EventsWith(id) = Fiber(key, id, events)
      BY <1>7, <2>1 DEF EventsIn, EventsWith, Fiber
    <3>2. PICK T \in SUBSET events : T = Fiber(key, id, events)
      BY DEF Fiber
    <3>3. G[id] = Sum(Counts(EventsWith(id)), EventsWith(id))
      BY <1>2, <1>3 DEF DbShape, RedactionsIn
    <3>4. G[id] = Sum(Counts(T), T)
      BY <3>1, <3>2, <3>3
    <3> QED
      BY <1>11, <3>2, <3>4
  <2> QED
    BY <1>2, <1>8, <1>10, <2>2, <2>3, SumFibers
<1>13. Log!SumOfCounts(s.byEntity) = Sum(F, events)
  <2>1. PICK counts : counts = s.byEntity
    OBVIOUS
  <2>2. counts = ByEntity(events)
    BY <1>1, <1>7, <2>1, StatsSay
  <2>3. PICK key : key = [e \in events |-> e.entity]
    OBVIOUS
  <2>4. PICK K : K = {key[e] : e \in events}
    OBVIOUS
  <2>5. K = {e.entity : e \in events} /\ \A e \in events : key[e] \in K /\ key[e] = e.entity
    BY <2>3, <2>4
  <2>6. IsFiniteSet(K)
    BY <1>8, <2>4, FiniteImage
  <2>7. ASSUME NEW k \in K PROVE counts[k] = Sum(F, Fiber(key, k, events))
    <3>1. Fiber(key, k, events) = {e \in events : e.entity = k}
      BY <2>5 DEF Fiber
    <3>2. PICK T \in SUBSET events : T = Fiber(key, k, events)
      BY DEF Fiber
    <3>3. counts[k] = Log!SumFunction(Counts(T))
      BY <2>2, <2>5, <3>1, <3>2 DEF ByEntity
    <3>4. DOMAIN Counts(T) = T
      BY DEF Counts
    <3>5. counts[k] = Sum(Counts(T), T)
      BY <3>3, <3>4, SumFunctionIs
    <3> QED
      BY <1>11, <3>2, <3>5
  <2>8. PICK H : H = [k \in K |-> counts[k]]
    OBVIOUS
  <2>9. \A k \in K : H[k] = Sum(F, Fiber(key, k, events))
    BY <2>7, <2>8
  <2>10. Sum(H, K) = Sum(F, events)
    BY <1>8, <1>10, <2>5, <2>6, <2>9, SumFibers
  <2>11. K = DOMAIN counts
    BY <2>2, <2>5 DEF ByEntity
  <2>12. Log!SumOfCounts(counts) = Sum(H, K)
    BY <2>8, <2>11, SumOfCountsIs
  <2> QED
    BY <2>1, <2>10, <2>12
<1> QED
  BY <1>5, <1>6, <1>12, <1>13

LEMMA CallsCounted ==
    ASSUME DbShape, NEW since, NEW s, s = Log!Stats(since)
    PROVE  /\ Log!SumOfCounts(s.byAgent) = Cardinality(Window(since))
           /\ Log!SumOfCounts(s.byModel) = Cardinality(CalledIn(since))
<1>1. PICK W : W = Window(since)
  OBVIOUS
<1>2. PICK K : K = CalledIn(since)
  OBVIOUS
<1>3. IsFiniteSet(W) /\ IsFiniteSet(K)
  BY <1>1, <1>2, WindowIs
<1>4. Log!SumOfCounts(s.byAgent) = Cardinality(W)
  <2>1. PICK counts : counts = s.byAgent
    OBVIOUS
  <2>2. counts = ByAgent(W)
    BY <1>1, <2>1, StatsSay
  <2>3. PICK key : key = [i \in W |-> db.requests[i].agent]
    OBVIOUS
  <2>4. PICK T : T = {key[i] : i \in W}
    OBVIOUS
  <2>5. T = {db.requests[i].agent : i \in W} /\ \A i \in W : key[i] \in T /\ key[i] = db.requests[i].agent
    BY <2>3, <2>4
  <2>6. IsFiniteSet(T)
    BY <1>3, <2>4, FiniteImage
  <2>7. ASSUME NEW k \in T PROVE counts[k] = Cardinality(Fiber(key, k, W))
    <3>1. Fiber(key, k, W) = {i \in W : db.requests[i].agent = k}
      BY <2>5 DEF Fiber
    <3>2. counts[k] = Log!Cardinality(Fiber(key, k, W))
      BY <2>2, <2>5, <3>1 DEF ByAgent
    <3> QED
      BY <3>2, LogCardinality
  <2>8. DOMAIN counts = T
    BY <2>2, <2>5 DEF ByAgent
  <2>9. Log!SumOfCounts(counts) = Cardinality(W)
    BY <1>3, <2>5, <2>6, <2>7, <2>8, CountsAddUp
  <2> QED
    BY <2>1, <2>9
<1>5. Log!SumOfCounts(s.byModel) = Cardinality(K)
  <2>1. PICK counts : counts = s.byModel
    OBVIOUS
  <2>2. counts = ByModel(K)
    BY <1>2, <2>1, StatsSay
  <2>3. PICK key : key = [i \in K |-> db.calls[i].model]
    OBVIOUS
  <2>4. PICK T : T = {key[i] : i \in K}
    OBVIOUS
  <2>5. T = {db.calls[i].model : i \in K} /\ \A i \in K : key[i] \in T /\ key[i] = db.calls[i].model
    BY <2>3, <2>4
  <2>6. IsFiniteSet(T)
    BY <1>3, <2>4, FiniteImage
  <2>7. ASSUME NEW k \in T PROVE counts[k] = Cardinality(Fiber(key, k, K))
    <3>1. Fiber(key, k, K) = {i \in K : db.calls[i].model = k}
      BY <2>5 DEF Fiber
    <3>2. counts[k] = Log!Cardinality(Fiber(key, k, K))
      BY <2>2, <2>5, <3>1 DEF ByModel
    <3> QED
      BY <3>2, LogCardinality
  <2>8. DOMAIN counts = T
    BY <2>2, <2>5 DEF ByModel
  <2>9. Log!SumOfCounts(counts) = Cardinality(K)
    BY <1>3, <2>5, <2>6, <2>7, <2>8, CountsAddUp
  <2> QED
    BY <2>1, <2>9
<1> QED
  BY <1>1, <1>2, <1>4, <1>5

\* What only a call has is counted in the rows with a call.
LEMMA OfCallsOnly ==
    ASSUME DbShape, NEW since, NEW f \in Log!ModelFields \ {"requests", "errors"}
    PROVE  Log!Total(RowsOf(CalledIn(since)), f) = Log!Total(Current(since), f)
<1>1. PICK C, D : C = Current(since) /\ D = RowsOf(CalledIn(since))
  OBVIOUS
<1>2. PICK F : F = Column(C, f)
  OBVIOUS
<1>3. f \in Counted
  BY DEF Counted
<1>4. IsFiniteSet(C) /\ Numbers(F, C)
  BY <1>1, <1>2, <1>3, WindowIs, RowsCount DEF Current
<1>5. D = {r \in C : r.calls = 1}
  BY <1>1, CalledRows
<1>6. D \in SUBSET C
  BY <1>5
<1>7. ASSUME NEW r \in C \ D PROVE F[r] = 0
  <2>1. PICK id \in Window(since) : r = Log!Row(id)
    BY <1>1, <1>7 DEF Current, RowsOf
  <2>2. id \in DOMAIN db.requests
    BY WindowIs
  <2>3. r.calls # 1
    BY <1>5, <1>7
  <2>4. ~Called(id)
    BY <2>1, <2>2, <2>3, RowSays
  <2>5. r[f] = 0
    BY <1>3, <2>1, <2>2, <2>4, RowCounts
  <2> QED
    BY <1>2, <2>5 DEF Column
<1>8. Sum(F, C) = Sum(F, D)
  BY <1>4, <1>6, <1>7, SumWithout
<1>9. Log!Total(C, f) = Sum(F, C)
  BY <1>2, TotalIs
<1>10. Log!Total(D, f) = Sum(F, D)
  BY <1>2, <1>4, <1>6, TotalOfPart
<1> QED
  BY <1>1, <1>8, <1>9, <1>10

\* The parts of the report.
LEMMA ReportAdds ==
    ASSUME DbShape, NEW since \in 0 .. now, NEW u, u = Log!UsageReport(since)
    PROVE  /\ \A f \in Log!TotalFields : u.totals[f] = Log!Total(Current(since), f)
           /\ \A f \in Log!BucketFields : Log!SumOf(u.series, f) = u.totals[f]
           /\ \A f \in Log!GroupFields, g \in {u.byAgent, u.byProvider, u.byApi} :
                Log!SumOf(g, f) = u.totals[f]
           /\ \A f \in Log!ModelFields \ {"requests", "errors"} : Log!SumOf(u.byModel, f) = u.totals[f]
           /\ Log!SumOf(u.byModel, "requests") = Cardinality(CalledIn(since))
           /\ Log!SumOfCounts(u.tools) = u.totals.toolCalls
           /\ Log!SumOf(u.sessions, "requests") =
                Cardinality({id \in CalledIn(since) : db.requests[id].session # None})
<1>1. PICK C, D : C = Current(since) /\ D = RowsOf(CalledIn(since))
  OBVIOUS
<1>2. PICK previous : u = Log!Report(C, previous, D, Log!Sessions(D), since)
  BY <1>1, ReportIs
<1>3. /\ u.totals = Log!Tally(C, Log!TotalFields)
      /\ u.byModel = [x \in {r.model : r \in D} |-> Log!ModelUsage({r \in D : r.model = x})]
      /\ u.byAgent = Log!GroupedBy(C, "agent", Log!GroupFields)
      /\ u.byProvider = Log!GroupedBy(C, "provider", Log!GroupFields)
      /\ u.byApi = Log!GroupedBy(C, "api", Log!GroupFields)
      /\ u.series = Log!Series(C, since) /\ u.tools = Log!Tools(D) /\ u.sessions = Log!Sessions(D)
  BY <1>2 DEF Log!Report
<1>4. \A f \in Log!TotalFields : u.totals[f] = Log!Total(C, f)
  BY <1>3, TallyHas
<1>5. \A f \in Counted : IsFiniteSet(C) /\ IsFiniteSet(D) /\ Numbers(Column(C, f), C) /\ Numbers(Column(D, f), D)
  <2>1. Window(since) \in SUBSET DOMAIN db.requests /\ CalledIn(since) \in SUBSET DOMAIN db.requests
    BY WindowIs
  <2> QED
    BY <1>1, <2>1, RowsCount DEF Current
<1>6. "requests" \in Counted /\ IsFiniteSet(C) /\ IsFiniteSet(D)
  <2>1. "requests" \in Counted
    BY DEF Counted, Log!BucketFields, Log!GroupFields
  <2> QED
    BY <1>5, <2>1
<1>7. /\ Log!GroupFields \subseteq Log!BucketFields /\ Log!BucketFields \subseteq Log!TotalFields
      /\ Log!ModelFields \subseteq Log!TotalFields /\ Log!BucketFields \subseteq Counted
      /\ Log!ModelFields \subseteq Counted /\ "toolCalls" \in Log!ModelFields \ {"requests", "errors"}
      /\ "requests" \in Log!ModelFields /\ "requests" \in Log!SessionFields
  BY DEF Log!GroupFields, Log!BucketFields, Log!TotalFields, Log!ModelFields, Log!SessionFields, Counted
<1>8. ASSUME NEW f \in Log!BucketFields PROVE Log!SumOf(u.series, f) = u.totals[f]
  <2>1. since \in Nat /\ now \in Nat
    BY DEF DbShape
  <2>2. f \in Counted /\ f \in Log!TotalFields
    BY <1>7
  <2>3. Log!SumOf(Log!Series(C, since), f) = Log!Total(C, f)
    BY <1>5, <2>1, <2>2, SeriesAddsUp
  <2> QED
    BY <1>3, <1>4, <2>2, <2>3
<1>9. ASSUME NEW f \in Log!GroupFields PROVE \A g \in {u.byAgent, u.byProvider, u.byApi} : Log!SumOf(g, f) = u.totals[f]
  <2>1. f \in Counted /\ f \in Log!TotalFields
    BY <1>7
  <2>2. \A key : Log!SumOf(Log!GroupedBy(C, key, Log!GroupFields), f) = Log!Total(C, f)
    BY <1>5, <2>1, GroupedAddsUp
  <2> QED
    BY <1>3, <1>4, <2>1, <2>2
<1>10. \A f \in Log!ModelFields : Log!SumOf(u.byModel, f) = Log!Total(D, f)
  BY <1>3, <1>5, <1>7, ModelsAddUp
<1>11. ASSUME NEW f \in Log!ModelFields \ {"requests", "errors"} PROVE Log!SumOf(u.byModel, f) = u.totals[f]
  <2>1. Log!Total(D, f) = Log!Total(C, f)
    BY <1>1, OfCallsOnly
  <2> QED
    BY <1>4, <1>7, <1>10, <2>1
<1>12. Log!SumOf(u.byModel, "requests") = Cardinality(CalledIn(since))
  BY <1>1, <1>7, <1>10, RequestsCounted
<1>13. Log!SumOfCounts(u.tools) = u.totals["toolCalls"]
  <2>1. \A r \in D : r.tools \in Seq(Range(r.tools)) /\ r.toolCalls = Len(r.tools)
    <3>1. CalledIn(since) \in SUBSET DOMAIN db.requests
      BY WindowIs
    <3>2. ASSUME NEW id \in CalledIn(since), NEW r, r = Log!Row(id)
          PROVE  r.tools \in Seq(Range(r.tools)) /\ r.toolCalls = Len(r.tools)
      <4>1. id \in DOMAIN db.requests
        BY <3>1
      <4> QED
        BY <1>6, <3>2, <4>1, RowSays, RowCounts
    <3> QED
      BY <1>1, <3>2 DEF RowsOf
  <2>2. Log!SumOfCounts(Log!Tools(D)) = Log!Total(D, "toolCalls")
    BY <1>6, <2>1, ToolsAddUp
  <2>3. Log!Total(D, "toolCalls") = Log!Total(C, "toolCalls")
    BY <1>1, <1>7, OfCallsOnly
  <2> QED
    BY <1>3, <1>4, <1>7, <2>2, <2>3
<1>14. Log!SumOf(u.sessions, "requests") =
         Cardinality({id \in CalledIn(since) : db.requests[id].session # None})
  <2>1. PICK I : I = {id \in CalledIn(since) : db.requests[id].session # None}
    OBVIOUS
  <2>2. PICK T : T = {r \in D : r.session # None}
    OBVIOUS
  <2>3. T = RowsOf(I)
    BY <1>1, <2>1, <2>2, CalledRows
  <2>4. Log!SumOf(Log!Sessions(D), "requests") = Log!Total(T, "requests")
    BY <1>5, <1>6, <1>7, <2>2, SessionsAddUp
  <2>5. PICK G : G = [id \in I |-> 1]
    OBVIOUS
  <2>6. I \in SUBSET DOMAIN db.requests /\ IsFiniteSet(I)
    <3>1. I \in SUBSET CalledIn(since)
      BY <2>1
    <3> QED
      BY <3>1, WindowIs, FS_Subset
  <2>7. \A id \in I : G[id] \in Int /\ G[id] = 1 /\ Log!Row(id)["requests"] = G[id]
    BY <2>5, <2>6, RowSays
  <2>8. T = {Log!Row(id) : id \in I}
    BY <2>3 DEF RowsOf
  <2>9. Log!Total(T, "requests") = Sum(G, I)
    BY <2>6, <2>7, <2>8, RowsTotal
  <2>10. Sum(G, I) = Cardinality(I)
    BY <2>6, <2>7, SumOnes
  <2> QED
    BY <1>3, <2>1, <2>4, <2>9, <2>10
<1> QED
  BY <1>1, <1>4, <1>8, <1>9, <1>11, <1>12, <1>13, <1>14

\* What the lists show of the window.
LEMMA ListsShow ==
    ASSUME DbShape, NEW since \in Nat
    PROVE  /\ Log!Selected(Filtered(since, None)) = Window(since)
           /\ Log!Selected(Filtered(since, "error")) = Failed(Window(since))
           /\ Log!Selected(Filtered(since, "ok")) = Window(since) \ Failed(Window(since))
<1>1. since # None /\ None \notin {"ok", "error"}
  BY DataDirAssumption, LogAssumption
<1>2. ASSUME NEW outcome \in {None, "ok", "error"}
      PROVE  Log!Selected(Filtered(since, outcome)) =
               {id \in Window(since) :
                  /\ outcome = "ok" => ~Log!IsError(db.requests[id])
                  /\ outcome = "error" => Log!IsError(db.requests[id])}
  <2>1. PICK f : f = Filtered(since, outcome)
    OBVIOUS
  <2>2. /\ f.agent = None /\ f.provider = None /\ f.outcome = outcome /\ f.since = since
        /\ f.until = None /\ f.redacted = FALSE
    BY <2>1 DEF Filtered, Log!AnyFilter
  <2>3. ASSUME NEW id \in DOMAIN db.requests, NEW r, r = db.requests[id]
        PROVE  (r.error = None /\ (r.status = None \/ r.status < 400)) <=> ~Log!IsError(r)
    <3>1. r.status \in Nat \cup {None}
      BY <2>3 DEF DbShape
    <3> QED
      BY <3>1 DEF Log!IsError
  <2>4. Log!Selected(f) =
          {id \in DOMAIN db.requests :
             LET r == db.requests[id] IN
             /\ outcome = "ok" => r.error = None /\ (r.status = None \/ r.status < 400)
             /\ outcome = "error" => Log!IsError(r)
             /\ r.started >= since}
    BY <1>1, <2>2 DEF Log!Selected
  <2> QED
    BY <2>1, <2>3, <2>4 DEF Window, Log!Since
<1> QED
  BY <1>1, <1>2 DEF Failed

LEMMA TellTheSame ==
    ASSUME DbShape, NEW since \in 0 .. now
    PROVE  Log!Agree(Log!UsageReport(since), Log!Stats(since),
                     Len(Log!ListRequests(Filtered(since, None))),
                     Len(Log!ListRequests(Filtered(since, "ok"))),
                     Len(Log!ListRequests(Filtered(since, "error"))),
                     Log!Cardinality({id \in CalledIn(since) : db.requests[id].session # None}))
<1>1. PICK u, s : u = Log!UsageReport(since) /\ s = Log!Stats(since)
  OBVIOUS
<1>2. PICK W, E : W = Window(since) /\ E = Failed(W)
  OBVIOUS
<1>3. since \in Nat
  BY DEF DbShape
<1>4. IsFiniteSet(W) /\ E \in SUBSET W
  BY <1>2, WindowIs DEF Failed
<1>5. Cardinality(W \ E) = Cardinality(W) - Cardinality(E)
  <2>1. W \cap E = E
    BY <1>4
  <2> QED
    BY <1>4, <2>1, FS_Difference
<1>6. s.requests = Cardinality(W) /\ s.errors = Cardinality(E)
  BY <1>1, <1>2, StatsSay
<1>7. PICK all, ok, failed :
        /\ all = Len(Log!ListRequests(Filtered(since, None)))
        /\ ok = Len(Log!ListRequests(Filtered(since, "ok")))
        /\ failed = Len(Log!ListRequests(Filtered(since, "error")))
  OBVIOUS
<1>8. all = Log!Page(s.requests) /\ failed = Log!Page(s.errors) /\ ok = Log!Page(s.requests - s.errors)
  <2>1. all = Log!Page(Cardinality(W)) /\ failed = Log!Page(Cardinality(E)) /\ ok = Log!Page(Cardinality(W \ E))
    BY <1>2, <1>3, <1>7, ListIsPage, ListsShow
  <2> QED
    BY <1>5, <1>6, <2>1
<1>9. /\ \A f \in Log!TotalFields : u.totals[f] = Log!Total(Current(since), f)
      /\ \A f \in Log!BucketFields : Log!SumOf(u.series, f) = u.totals[f]
      /\ \A f \in Log!GroupFields, g \in {u.byAgent, u.byProvider, u.byApi} : Log!SumOf(g, f) = u.totals[f]
      /\ \A f \in Log!ModelFields \ {"requests", "errors"} : Log!SumOf(u.byModel, f) = u.totals[f]
      /\ Log!SumOf(u.byModel, "requests") = Cardinality(CalledIn(since))
      /\ Log!SumOfCounts(u.tools) = u.totals.toolCalls
      /\ Log!SumOf(u.sessions, "requests") =
           Cardinality({id \in CalledIn(since) : db.requests[id].session # None})
  BY <1>1, ReportAdds
<1>10. {"requests", "calls", "errors", "input", "output", "redactions"} \subseteq Log!TotalFields
  BY DEF Log!TotalFields, Log!BucketFields, Log!GroupFields
<1>11. u.totals["requests"] = s.requests /\ u.totals["calls"] = Cardinality(CalledIn(since))
       /\ u.totals["errors"] = s.errors
  BY <1>2, <1>6, <1>9, <1>10, RequestsCounted
<1>12. u.totals["input"] = s.input /\ u.totals["output"] = s.output
  BY <1>1, <1>9, <1>10, StatsSay, TokensCounted
<1>13. u.totals["redactions"] = s.redactions /\ Log!SumOfCounts(s.byEntity) = s.redactions
  BY <1>1, <1>9, <1>10, RedactionsCounted
<1>14. \A f \in {"errors", "input", "output", "redactions"} : u.totals[f] = s[f]
  BY <1>11, <1>12, <1>13
<1>15. Log!SumOfCounts(s.byAgent) = s.requests /\ Log!SumOfCounts(s.byModel) = u.totals.calls
  BY <1>1, <1>2, <1>6, <1>11, CallsCounted
<1>16. PICK inSession :
         inSession = Log!Cardinality({id \in CalledIn(since) : db.requests[id].session # None})
  OBVIOUS
<1>17. Log!SumOf(u.sessions, "requests") = inSession
  BY <1>9, <1>16, LogCardinality
<1>18. Log!SumOf(u.byModel, "requests") = u.totals.calls /\ u.totals.requests = s.requests
  BY <1>9, <1>11
<1>19. Log!Agree(u, s, all, ok, failed, inSession)
  BY <1>8, <1>9, <1>13, <1>14, <1>15, <1>17, <1>18, Zenon DEF Log!Agree
<1> QED
  BY <1>1, <1>7, <1>16, <1>19, Zenon

LEMMA ReportsAgree == DbShape => Log!ReportAgrees
<1> SUFFICES ASSUME DbShape PROVE Log!ReportAgrees
  OBVIOUS
<1>1. ASSUME NEW since
      PROVE  Log!Since(since) \cap DOMAIN db.calls = CalledIn(since)
  BY DEF CalledIn, Window
<1>2. ASSUME NEW since \in 0 .. now
      PROVE  LET listed(outcome) == Len(Log!ListRequests([Log!AnyFilter EXCEPT !.since = since, !.outcome = outcome]))
             IN  Log!Agree(Log!UsageReport(since), Log!Stats(since), listed(None), listed("ok"), listed("error"),
                           Log!Cardinality({id \in Log!Since(since) \cap DOMAIN db.calls : db.requests[id].session # None}))
  BY <1>1, TellTheSame, Zenon DEF Filtered
<1> QED
  BY <1>2, Zenon DEF Log!ReportAgrees

\* The report, the statistics and the list of requests tell the same of every window, for
\* every log of requests and every list of prices (Store::stats, list_requests, usage_report).
THEOREM LedgerReportAgrees == Log!LedgerSpec => []Log!ReportAgrees
<1>1. Log!LedgerSpec => []LogInv
  BY LogInit, LogNext, PTL DEF Log!LedgerSpec
<1> QED
  BY <1>1, TablesHaveShape, ReportsAgree, PTL

\* What the application draws of the log tells the same of every window, whatever the two
\* programs do to it.
THEOREM StorageReportAgrees == Spec => []ReportAgrees
<1>1. Log!ReportAgrees => ReportAgrees
  BY DEF ReportAgrees
<1> QED
  BY <1>1, StorageRefinesLedger, LedgerReportAgrees, PTL
=============================================================================
