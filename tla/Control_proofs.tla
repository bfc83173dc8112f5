--------------------------- MODULE Control_proofs ---------------------------
(***************************************************************************)
(* What holds of the commands of the application for all settings, rules,  *)
(* numbers of commands and of tasks.  That what is shown as running does   *)
(* listen holds in whatever way the commands overlap (PortsInv); what they *)
(* leave behind when they are done holds of commands given one at a time   *)
(* (OneInv), for overlapping ones do not agree.                            *)
(***************************************************************************)
EXTENDS Control, SequenceTheorems, TLAPS

Steps ==
    {"check", "read settings", "read rules", "set map", "set detector", "bind", "publish",
     "take", "shutdown", "follow up", "push", "upsert", "regenerate", "replace"}

\* Which step of a command follows which, and which may be the last.
Leads(a, b) ==
    \/ a = "take" /\ b = "shutdown"
    \/ a = "shutdown" /\ b \in {"check", "regenerate"}
    \/ a = "regenerate" /\ b = "replace"
    \/ a = "replace" /\ b = "check"
    \/ a = "check" /\ b = "read settings"
    \/ a = "read settings" /\ b \in {"read rules", "push"}
    \/ a = "push" /\ b = "read rules"
    \/ a = "read rules" /\ b = "set map"
    \/ a = "set map" /\ b = "set detector"
    \/ a = "set detector" /\ b = "bind"
    \/ a = "bind" /\ b = "publish"
    \/ a = "publish" /\ b = "read rules"
    \/ a = "upsert" /\ b \in {"upsert", "read rules"}
Ends == {"shutdown", "replace", "push", "set detector", "publish", "follow up"}

Path(todo) == \A i, j \in 1 .. Len(todo) : j = i + 1 => Leads(todo[i], todo[j])
Ending(todo) == todo # <<>> => todo[Len(todo)] \in Ends
Has(todo, step) == \E i \in 1 .. Len(todo) : todo[i] = step
Once(todo, step) == \A i, j \in 1 .. Len(todo) : todo[i] = step /\ todo[j] = step => i = j
\* n steps after a comes b.
Later(todo, a, n, b) ==
    \A i \in 1 .. Len(todo) : todo[i] = a => i + n \in 1 .. Len(todo) /\ todo[i + n] = b
\* After each upsert comes a last one and the reload, or only the reload.
Upserts(todo) == \A i \in 1 .. Len(todo) : todo[i] = "upsert" => Len(todo) - i \in {3, 4}

Steady(todo) ==
    /\ todo \in Seq(Steps)
    /\ Path(todo) /\ Ending(todo)
    /\ Later(todo, "check", 6, "publish") /\ Once(todo, "bind")
    /\ Upserts(todo)
    /\ Has(todo, "upsert") \/ Has(todo, "push") => ~Has(todo, "bind")

\* The step that a command is at.
Here(todo) == IF todo = <<>> THEN "none" ELSE todo[1]

Slot == [port : Ports, options : Options, ca : Nat]
Task == [todo : Seq(Steps), cfg : Settings \cup {None}, rules : RuleSets \cup {None},
         old : Settings \cup {None}, taken : Slot \cup {None}, ca : Nat]

TypeOK ==
    /\ db \in Settings
    /\ redactor \in [map : RuleSets, detector : RuleSets]
    /\ slot \in Slot \cup {None}
    /\ listening \subseteq Ports
    /\ ca \in [made : Nat, disk : Nat \cup {None}, memory : Nat]
    /\ task \in [Tasks -> Task]
    /\ commands \in Nat /\ overlapped \in BOOLEAN /\ unloaded \in BOOLEAN

\* What a command has read by the time it needs it.
Configured(todo) ==
    \/ Here(todo) \in {"publish", "push"}
    \/ Here(todo) \in {"read rules", "set map", "set detector", "bind"} /\ Has(todo, "bind")
TaskOK(e) ==
    /\ Steady(e.todo)
    /\ Configured(e.todo) => e.cfg \in Settings
    /\ Here(e.todo) = "shutdown" => e.taken \in Slot
    /\ Here(e.todo) = "follow up" => e.old \in Settings
    /\ Here(e.todo) \in {"set map", "set detector"} => e.rules \in RuleSets
TypeInv == TypeOK /\ \A t \in Tasks : TaskOK(task[t])
-----------------------------------------------------------------------------
\* A port with an accept loop belongs to the running proxy, to a command that is about to
\* publish its proxy or to one that is about to shut it down, and to one of them only.
Holds(e) == Here(e.todo) \in {"publish", "shutdown"}
Port(e) == IF Here(e.todo) = "publish" THEN e.cfg.port ELSE e.taken.port
PortsInv ==
    /\ slot # None => slot.port \in listening
    /\ \A t \in Tasks : Holds(task[t]) =>
          Port(task[t]) \in listening /\ (slot # None => slot.port # Port(task[t]))
    /\ \A s, t \in Tasks : s # t /\ Holds(task[s]) /\ Holds(task[t]) => Port(task[s]) # Port(task[t])
-----------------------------------------------------------------------------
\* Commands one at a time.
Alone == \A s, t \in Tasks : s = t \/ ~Busy(s) \/ ~Busy(t)

\* x is the n-th step.
Nth(todo, n, x) == Len(todo) >= n /\ todo[n] = x

\* Of a command e that is at the step h: whether the accept loops l are those of the proxy s in
\* the slot.
Tidy(h, e, s, l) ==
    /\ h = "shutdown" => s = None /\ l = {e.taken.port}
    /\ h = "publish" => s = None /\ l = {e.cfg.port} /\ ~Has(e.todo, "bind")
    /\ h \notin {"shutdown", "publish"} => l = IF s = None THEN {} ELSE {s.port}
    /\ h \in {"regenerate", "replace"} => s = None
    /\ h \notin {"take", "shutdown", "check", "regenerate", "replace"} =>
          s = None \/ ~Has(e.todo, "bind")

\* Whether the proxy s has the settings stored, d, and the authority shown to the user, of c.
Matches(h, e, s, d, c) ==
    /\ s # None => s.ca = c.memory
    /\ h = "replace" => c.disk = e.ca
    /\ h # "replace" => c.disk \in {None, c.memory}
    /\ h = "follow up" /\ s # None => s.port = e.old.port /\ s.options = e.old.options
    /\ h \notin {"follow up", "take"} /\ s # None => s.port = d.port
    /\ h \notin {"follow up", "take", "read settings", "push"} /\ s # None => s.options = d.options
    /\ h = "read settings" /\ s # None => Nth(e.todo, 2, "push")
    /\ h = "push" => e.cfg.options = d.options
    /\ Configured(e.todo) /\ h \notin {"push", "publish"} =>
          e.cfg.port = d.port /\ e.cfg.options = d.options
    /\ h = "publish" =>
          e.cfg.port = d.port /\ e.cfg.options = d.options /\ e.ca = c.memory

\* Whether the redactor r works with the stored rules, of d, or will.
With(r, rules) == r.map = rules /\ r.detector = rules
Fresh(h, e, s, d, r) ==
    /\ h = "set map" => e.rules = d.rules
    /\ h = "set detector" => e.rules = d.rules /\ r.map = d.rules
    /\ h = "follow up" => With(r, e.old.rules)
    /\ h \in {"none", "regenerate", "replace", "bind", "publish"} => With(r, d.rules)
    /\ h = "take" => With(r, d.rules) \/ Nth(e.todo, 3, "check")
    /\ h = "shutdown" => With(r, d.rules) \/ Nth(e.todo, 2, "check")
    /\ h = "check" => With(r, d.rules) \/ s = None
    /\ h = "read settings" => \/ With(r, d.rules) \/ Nth(e.todo, 2, "read rules")
                              \/ Nth(e.todo, 2, "push") /\ Nth(e.todo, 3, "read rules")
    /\ h = "push" => With(r, d.rules) \/ Nth(e.todo, 2, "read rules")
    /\ h = "upsert" => With(r, d.rules) \/ Len(e.todo) = 4

Good(e) ==
    /\ Tidy(Here(e.todo), e, slot, listening)
    /\ Matches(Here(e.todo), e, slot, db, ca)
    /\ unloaded \/ Fresh(Here(e.todo), e, slot, db, redactor)
\* One at a time: what holds at rest and of the command that runs.
OneInv ==
    ~overlapped =>
        /\ Alone
        /\ (\A t \in Tasks : ~Busy(t)) => Good(Idle)
        /\ \A t \in Tasks : Busy(t) => Good(task[t])
-----------------------------------------------------------------------------
\* The lists of steps, and what is left of one after n steps.
Drop(todo, n) == SubSeq(todo, n + 1, Len(todo))

LEMMA DropIs ==
    ASSUME NEW S, NEW todo \in Seq(S), NEW n \in 0 .. Len(todo)
    PROVE  /\ Drop(todo, n) \in Seq(S)
           /\ Len(Drop(todo, n)) = Len(todo) - n
           /\ \A i \in 1 .. Len(Drop(todo, n)) :
                 i + n \in 1 .. Len(todo) /\ Drop(todo, n)[i] = todo[i + n]
  BY DEF Drop

LEMMA JoinIs ==
    ASSUME NEW S, NEW a \in Seq(S), NEW b \in Seq(S)
    PROVE  /\ a \o b \in Seq(S)
           /\ Len(a \o b) = Len(a) + Len(b)
           /\ \A i \in 1 .. Len(a \o b) :
                 \/ i \in 1 .. Len(a) /\ (a \o b)[i] = a[i]
                 \/ i - Len(a) \in 1 .. Len(b) /\ (a \o b)[i] = b[i - Len(a)]
           /\ \A i \in 1 .. Len(a) : i \in 1 .. Len(a \o b) /\ (a \o b)[i] = a[i]
           /\ \A i \in 1 .. Len(b) : i + Len(a) \in 1 .. Len(a \o b) /\ (a \o b)[i + Len(a)] = b[i]
  OBVIOUS

LEMMA DropPath ==
    ASSUME NEW S, NEW todo \in Seq(S), NEW n \in 0 .. Len(todo), Path(todo)
    PROVE  Path(Drop(todo, n))
<1> SUFFICES ASSUME NEW i \in 1 .. Len(Drop(todo, n)), NEW j \in 1 .. Len(Drop(todo, n)), j = i + 1
             PROVE  Leads(Drop(todo, n)[i], Drop(todo, n)[j])
  BY DEF Path
<1>1. /\ i + n \in 1 .. Len(todo) /\ Drop(todo, n)[i] = todo[i + n]
      /\ j + n \in 1 .. Len(todo) /\ Drop(todo, n)[j] = todo[j + n]
  BY DropIs
<1>2. j + n = (i + n) + 1
  BY <1>1
<1> QED
  BY <1>1, <1>2 DEF Path

LEMMA DropEnding ==
    ASSUME NEW S, NEW todo \in Seq(S), NEW n \in 0 .. Len(todo), Ending(todo)
    PROVE  Ending(Drop(todo, n))
<1> SUFFICES ASSUME Drop(todo, n) # <<>> PROVE Drop(todo, n)[Len(Drop(todo, n))] \in Ends
  BY DEF Ending
<1>1. Drop(todo, n) \in Seq(S) /\ Len(Drop(todo, n)) = Len(todo) - n
  BY DropIs
<1>2. Len(Drop(todo, n)) \in 1 .. Len(Drop(todo, n)) /\ todo # <<>>
  BY <1>1
<1>3. Drop(todo, n)[Len(Drop(todo, n))] = todo[Len(Drop(todo, n)) + n]
  BY <1>2, DropIs
<1>4. Len(Drop(todo, n)) + n = Len(todo)
  BY <1>1
<1> QED
  BY <1>2, <1>3, <1>4 DEF Ending

LEMMA DropHas ==
    ASSUME NEW S, NEW todo \in Seq(S), NEW n \in 0 .. Len(todo), NEW x, Has(Drop(todo, n), x)
    PROVE  Has(todo, x)
<1>1. PICK i \in 1 .. Len(Drop(todo, n)) : Drop(todo, n)[i] = x
  BY DEF Has
<1> QED
  BY <1>1, DropIs, SMTT(60) DEF Has

LEMMA DropOnce ==
    ASSUME NEW S, NEW todo \in Seq(S), NEW n \in 0 .. Len(todo), NEW x, Once(todo, x)
    PROVE  /\ Once(Drop(todo, n), x)
           /\ \A i \in 1 .. n : todo[i] = x => ~Has(Drop(todo, n), x)
<1>1. \A i \in 1 .. Len(Drop(todo, n)) :
         i + n \in 1 .. Len(todo) /\ Drop(todo, n)[i] = todo[i + n]
  BY DropIs
<1>2. Once(Drop(todo, n), x)
  <2> SUFFICES ASSUME NEW i \in 1 .. Len(Drop(todo, n)), NEW j \in 1 .. Len(Drop(todo, n)),
                      Drop(todo, n)[i] = x, Drop(todo, n)[j] = x
               PROVE  i = j
    BY DEF Once
  <2>1. i + n = j + n
    BY <1>1 DEF Once
  <2> QED
    BY <2>1
<1>3. ASSUME NEW i \in 1 .. n, todo[i] = x, Has(Drop(todo, n), x) PROVE FALSE
  <2>1. PICK j \in 1 .. Len(Drop(todo, n)) : Drop(todo, n)[j] = x
    BY <1>3 DEF Has
  <2>2. i \in 1 .. Len(todo)
    OBVIOUS
  <2>3. i = j + n
    BY <1>1, <1>3, <2>1, <2>2 DEF Once
  <2> QED
    BY <2>1, <2>3
<1> QED
  BY <1>2, <1>3

LEMMA DropLater ==
    ASSUME NEW S, NEW todo \in Seq(S), NEW n \in 0 .. Len(todo), NEW a, NEW m \in Nat, NEW b,
           Later(todo, a, m, b)
    PROVE  Later(Drop(todo, n), a, m, b)
<1> SUFFICES ASSUME NEW i \in 1 .. Len(Drop(todo, n)), Drop(todo, n)[i] = a
             PROVE  i + m \in 1 .. Len(Drop(todo, n)) /\ Drop(todo, n)[i + m] = b
  BY DEF Later
<1>1. i + n \in 1 .. Len(todo) /\ todo[i + n] = a /\ Len(Drop(todo, n)) = Len(todo) - n
  BY DropIs
<1>2. (i + n) + m \in 1 .. Len(todo) /\ todo[(i + n) + m] = b
  BY <1>1 DEF Later
<1>3. i + m \in 1 .. Len(Drop(todo, n)) /\ (i + m) + n = (i + n) + m
  BY <1>1, <1>2
<1>4. Drop(todo, n)[i + m] = todo[(i + m) + n]
  BY <1>3, DropIs
<1> QED
  BY <1>2, <1>3, <1>4

LEMMA DropUpserts ==
    ASSUME NEW S, NEW todo \in Seq(S), NEW n \in 0 .. Len(todo), Upserts(todo)
    PROVE  Upserts(Drop(todo, n))
<1> SUFFICES ASSUME NEW i \in 1 .. Len(Drop(todo, n)), Drop(todo, n)[i] = "upsert"
             PROVE  Len(Drop(todo, n)) - i \in {3, 4}
  BY DEF Upserts
<1>1. i + n \in 1 .. Len(todo) /\ todo[i + n] = "upsert" /\ Len(Drop(todo, n)) = Len(todo) - n
  BY DropIs
<1>2. Len(todo) - (i + n) \in {3, 4}
  BY <1>1 DEF Upserts
<1> QED
  BY <1>1, <1>2

LEMMA DropSteady ==
    ASSUME NEW todo, Steady(todo), NEW n \in 0 .. Len(todo)
    PROVE  Steady(Drop(todo, n))
<1>1. todo \in Seq(Steps) /\ Drop(todo, n) \in Seq(Steps)
  BY DropIs DEF Steady
<1>2. Path(Drop(todo, n)) /\ Ending(Drop(todo, n)) /\ Upserts(Drop(todo, n))
  BY <1>1, DropPath, DropEnding, DropUpserts DEF Steady
<1>3. Later(Drop(todo, n), "check", 6, "publish")
  BY <1>1, DropLater DEF Steady
<1>4. Once(Drop(todo, n), "bind")
  BY <1>1, DropOnce DEF Steady
<1>5. Has(Drop(todo, n), "upsert") \/ Has(Drop(todo, n), "push") => ~Has(Drop(todo, n), "bind")
  BY <1>1, DropHas DEF Steady
<1> QED
  BY <1>1, <1>2, <1>3, <1>4, <1>5 DEF Steady

\* One list after another.
LEMMA JoinSteady ==
    ASSUME NEW a, NEW b, Steady(a), Steady(b), a # <<>>, b # <<>>, Leads(a[Len(a)], b[1]),
           ~Has(a, "bind") \/ ~Has(b, "bind"), ~Has(a, "upsert"), ~Has(b, "upsert"),
           ~Has(a, "push") \/ ~Has(b, "bind"), ~Has(b, "push")
    PROVE  Steady(a \o b) /\ ~Has(a \o b, "upsert")
           /\ \A x : Has(a \o b, x) => Has(a, x) \/ Has(b, x)
<1> DEFINE c == a \o b
<1>1. a \in Seq(Steps) /\ b \in Seq(Steps) /\ Len(a) \in Nat \ {0} /\ Len(b) \in Nat \ {0}
  BY DEF Steady
<1>2. /\ c \in Seq(Steps) /\ Len(c) = Len(a) + Len(b)
      /\ \A i \in 1 .. Len(c) : \/ i \in 1 .. Len(a) /\ c[i] = a[i]
                                \/ i - Len(a) \in 1 .. Len(b) /\ c[i] = b[i - Len(a)]
      /\ \A i \in 1 .. Len(a) : i \in 1 .. Len(c) /\ c[i] = a[i]
      /\ \A i \in 1 .. Len(b) : i + Len(a) \in 1 .. Len(c) /\ c[i + Len(a)] = b[i]
  BY <1>1, JoinIs
<1> HIDE DEF c
<1>3. Path(c)
  <2> SUFFICES ASSUME NEW i \in 1 .. Len(c), NEW j \in 1 .. Len(c), j = i + 1
               PROVE  Leads(c[i], c[j])
    BY DEF Path
  <2>1. CASE j \in 1 .. Len(a) /\ c[j] = a[j]
    <3>1. i \in 1 .. Len(a) /\ c[i] = a[i]
      BY <1>1, <1>2, <2>1
    <3> QED
      BY <2>1, <3>1 DEF Steady, Path
  <2>2. CASE i - Len(a) \in 1 .. Len(b) /\ c[i] = b[i - Len(a)]
    <3>1. j - Len(a) \in 1 .. Len(b) /\ c[j] = b[j - Len(a)] /\ j - Len(a) = (i - Len(a)) + 1
      BY <1>1, <1>2, <2>2
    <3> QED
      BY <2>2, <3>1 DEF Steady, Path
  <2>3. CASE i = Len(a)
    <3>1. c[i] = a[Len(a)] /\ c[j] = b[1]
      BY <1>1, <1>2, <2>3
    <3> QED
      BY <3>1
  <2> QED
    BY <1>1, <1>2, <2>1, <2>2, <2>3
<1>4. Ending(c)
  <2>1. c[Len(c)] = b[Len(b)]
    BY <1>1, <1>2
  <2> QED
    BY <1>1, <2>1 DEF Steady, Ending
<1>5. Later(c, "check", 6, "publish")
  <2> SUFFICES ASSUME NEW i \in 1 .. Len(c), c[i] = "check"
               PROVE  i + 6 \in 1 .. Len(c) /\ c[i + 6] = "publish"
    BY DEF Later
  <2>1. CASE i \in 1 .. Len(a) /\ c[i] = a[i]
    <3>1. i + 6 \in 1 .. Len(a) /\ a[i + 6] = "publish"
      BY <2>1 DEF Steady, Later
    <3> QED
      BY <1>2, <3>1
  <2>2. CASE i - Len(a) \in 1 .. Len(b) /\ c[i] = b[i - Len(a)]
    <3>1. (i - Len(a)) + 6 \in 1 .. Len(b) /\ b[(i - Len(a)) + 6] = "publish"
      BY <2>2 DEF Steady, Later
    <3>2. ((i - Len(a)) + 6) + Len(a) = i + 6
      BY <1>1
    <3> QED
      BY <1>2, <3>1, <3>2
  <2> QED
    BY <1>2, <2>1, <2>2
<1>6. \A x : Has(c, x) => Has(a, x) \/ Has(b, x)
  BY <1>2, SMTT(60) DEF Has
<1>7. Once(c, "bind")
  <2> SUFFICES ASSUME NEW i \in 1 .. Len(c), NEW j \in 1 .. Len(c), c[i] = "bind", c[j] = "bind"
               PROVE  i = j
    BY DEF Once
  <2>1. CASE ~Has(b, "bind")
    <3>1. i \in 1 .. Len(a) /\ a[i] = "bind" /\ j \in 1 .. Len(a) /\ a[j] = "bind"
      BY <1>2, <2>1, SMTT(60) DEF Has
    <3> QED
      BY <3>1 DEF Steady, Once
  <2>2. CASE ~Has(a, "bind")
    <3>1. /\ i - Len(a) \in 1 .. Len(b) /\ b[i - Len(a)] = "bind"
          /\ j - Len(a) \in 1 .. Len(b) /\ b[j - Len(a)] = "bind"
      BY <1>2, <2>2 DEF Has
    <3>2. i - Len(a) = j - Len(a)
      BY <3>1 DEF Steady, Once
    <3> QED
      BY <1>1, <3>2
  <2> QED
    BY <2>1, <2>2
<1>8. Upserts(c)
  BY <1>6 DEF Upserts, Has
<1> QED
  BY <1>2, <1>3, <1>4, <1>5, <1>6, <1>7, <1>8 DEF Steady, c
-----------------------------------------------------------------------------
\* The lists that commands begin with.
LEMMA ThreeOf ==
    ASSUME NEW S, NEW a \in S, NEW b \in S, NEW c \in S
    PROVE  LET s == <<a, b, c>> IN
           s \in Seq(S) /\ Len(s) = 3 /\ s[1] = a /\ s[2] = b /\ s[3] = c
  OBVIOUS

LEMMA TwoOf ==
    ASSUME NEW S, NEW a \in S, NEW b \in S
    PROVE  LET s == <<a, b>> IN s \in Seq(S) /\ Len(s) = 2 /\ s[1] = a /\ s[2] = b
  OBVIOUS

LEMMA OneOf ==
    ASSUME NEW S, NEW a \in S
    PROVE  <<a>> \in Seq(S) /\ Len(<<a>>) = 1 /\ <<a>>[1] = a
  OBVIOUS

LEMMA StartIs ==
    /\ Start \in Seq(Steps) /\ Len(Start) = 7
    /\ Start[1] = "check" /\ Start[2] = "read settings" /\ Start[3] = "read rules"
    /\ Start[4] = "set map" /\ Start[5] = "set detector" /\ Start[6] = "bind"
    /\ Start[7] = "publish"
<1> DEFINE a == "check"  b == "read settings"  c == "read rules"  d == "set map"
           e == "set detector"  f == "bind"  g == "publish"
<1>1. /\ a \in Steps /\ b \in Steps /\ c \in Steps /\ d \in Steps /\ e \in Steps
      /\ f \in Steps /\ g \in Steps
  BY DEF Steps
<1>2. Start = <<a, b>> \o <<c, d, e>> \o <<f, g>>
  BY Zenon DEF Start, Reload
<1> HIDE DEF a, b, c, d, e, f, g
<1>3. /\ Start \in Seq(Steps) /\ Len(Start) = 7
      /\ Start[1] = a /\ Start[2] = b /\ Start[3] = c /\ Start[4] = d /\ Start[5] = e
      /\ Start[6] = f /\ Start[7] = g
  BY <1>1, <1>2
<1> QED
  BY <1>3, Zenon DEF a, b, c, d, e, f, g

LEMMA ReloadIs ==
    /\ Reload \in Seq(Steps) /\ Len(Reload) = 3
    /\ Reload[1] = "read rules" /\ Reload[2] = "set map" /\ Reload[3] = "set detector"
<1>1. {"read rules", "set map", "set detector"} \subseteq Steps
  BY DEF Steps
<1> QED
  BY <1>1, ThreeOf, Zenon DEF Reload

LEMMA StopIs ==
    Stop \in Seq(Steps) /\ Len(Stop) = 2 /\ Stop[1] = "take" /\ Stop[2] = "shutdown"
<1>1. {"take", "shutdown"} \subseteq Steps
  BY DEF Steps
<1> QED
  BY <1>1, TwoOf, Zenon DEF Stop

LEMMA StartSteady == Steady(Start) /\ ~Has(Start, "upsert") /\ ~Has(Start, "push")
<1> DEFINE s == Start
<1>1. \A i \in 1 .. 7 : i = 1 \/ i = 2 \/ i = 3 \/ i = 4 \/ i = 5 \/ i = 6 \/ i = 7
  OBVIOUS
<1>2. /\ s \in Seq(Steps) /\ Len(s) = 7
      /\ s[1] = "check" /\ s[2] = "read settings" /\ s[3] = "read rules"
      /\ s[4] = "set map" /\ s[5] = "set detector" /\ s[6] = "bind" /\ s[7] = "publish"
  BY StartIs
<1> HIDE DEF s
<1>3. /\ Leads(s[1], s[2]) /\ Leads(s[2], s[3]) /\ Leads(s[3], s[4]) /\ Leads(s[4], s[5])
      /\ Leads(s[5], s[6]) /\ Leads(s[6], s[7])
  BY <1>2, Zenon DEF Leads
<1>0. Len(s) = 7
  BY <1>2
<1>4. Path(s)
  BY <1>0, <1>1, <1>3 DEF Path
<1>5. Ending(s)
  BY <1>2 DEF Ending, Ends
<1>6. Later(s, "check", 6, "publish")
  <2>1. \A i \in 1 .. 7 : s[i] = "check" => i = 1
    BY <1>1, <1>2
  <2>2. s[7] = "publish"
    BY <1>2
  <2> QED
    BY <1>0, <2>1, <2>2 DEF Later
<1>7. Once(s, "bind")
  BY <1>1, <1>2 DEF Once
<1>8. ~Has(s, "upsert") /\ ~Has(s, "push")
  BY <1>1, <1>2 DEF Has
<1>9. Upserts(s)
  BY <1>8 DEF Upserts, Has
<1> QED
  BY <1>2, <1>4, <1>5, <1>6, <1>7, <1>8, <1>9 DEF Steady, s

\* Lists without a check, a bind and an upsert.
LEMMA PlainSteady ==
    ASSUME NEW s \in Seq(Steps), Path(s), Ending(s),
           \A i \in 1 .. Len(s) : s[i] \notin {"check", "bind", "upsert"}
    PROVE  Steady(s) /\ ~Has(s, "upsert") /\ ~Has(s, "bind")
  BY DEF Steady, Later, Once, Upserts, Has

LEMMA ReloadSteady ==
    Steady(Reload) /\ ~Has(Reload, "upsert") /\ ~Has(Reload, "bind") /\ ~Has(Reload, "push")
<1>1. \A i \in 1 .. 3 : i = 1 \/ i = 2 \/ i = 3
  OBVIOUS
<1>2. Leads(Reload[1], Reload[2]) /\ Leads(Reload[2], Reload[3])
  BY ReloadIs, Zenon DEF Leads
<1>0. Len(Reload) = 3
  BY ReloadIs
<1>3. Path(Reload)
  BY <1>0, <1>1, <1>2 DEF Path
<1>4. Ending(Reload)
  BY ReloadIs DEF Ending, Ends
<1>5. \A i \in 1 .. Len(Reload) : Reload[i] \notin {"check", "bind", "upsert"}
  BY <1>1, ReloadIs
<1>6. \A i \in 1 .. Len(Reload) : Reload[i] # "push"
  BY <1>1, ReloadIs
<1> QED
  BY <1>3, <1>4, <1>5, <1>6, ReloadIs, PlainSteady DEF Has

LEMMA TwoSteady ==
    ASSUME NEW a \in Steps, NEW b \in Steps, Leads(a, b), b \in Ends,
           a \notin {"check", "bind", "upsert"}, b \notin {"check", "bind", "upsert"}
    PROVE  /\ Steady(<<a, b>>) /\ ~Has(<<a, b>>, "upsert") /\ ~Has(<<a, b>>, "bind")
           /\ a # "push" /\ b # "push" => ~Has(<<a, b>>, "push")
<1> DEFINE s == <<a, b>>
<1>1. s \in Seq(Steps) /\ Len(s) = 2 /\ s[1] = a /\ s[2] = b
  BY TwoOf
<1> HIDE DEF s
<1>2. \A i \in 1 .. 2 : i = 1 \/ i = 2
  OBVIOUS
<1>3. Path(s)
  BY <1>1, <1>2 DEF Path
<1>4. Ending(s)
  BY <1>1 DEF Ending
<1>5. \A i \in 1 .. Len(s) : s[i] \notin {"check", "bind", "upsert"}
  BY <1>1, <1>2
<1>6. Steady(s) /\ ~Has(s, "upsert") /\ ~Has(s, "bind")
  BY <1>1, <1>3, <1>4, <1>5, PlainSteady
<1>7. a # "push" /\ b # "push" => ~Has(s, "push")
  BY <1>1, <1>2 DEF Has
<1> QED
  BY <1>6, <1>7 DEF s

LEMMA StopSteady ==
    Steady(Stop) /\ ~Has(Stop, "upsert") /\ ~Has(Stop, "bind") /\ ~Has(Stop, "push")
<1>1. "take" \in Steps /\ "shutdown" \in Steps /\ Leads("take", "shutdown") /\ "shutdown" \in Ends
  BY DEF Steps, Leads, Ends
<1> QED
  BY <1>1, TwoSteady DEF Stop

LEMMA RegenerateSteady ==
    LET s == <<"regenerate", "replace">> IN
    /\ Steady(s) /\ ~Has(s, "upsert") /\ ~Has(s, "bind") /\ ~Has(s, "push")
    /\ Len(s) = 2 /\ s[1] = "regenerate" /\ s[2] = "replace"
<1>1. /\ "regenerate" \in Steps /\ "replace" \in Steps
      /\ Leads("regenerate", "replace") /\ "replace" \in Ends
  BY DEF Steps, Leads, Ends
<1> QED
  BY <1>1, TwoSteady, TwoOf

LEMMA PushSteady ==
    LET s == <<"read settings", "push">> IN
    /\ Steady(s) /\ ~Has(s, "upsert") /\ ~Has(s, "bind")
    /\ Len(s) = 2 /\ s[1] = "read settings" /\ s[2] = "push"
<1>1. /\ "read settings" \in Steps /\ "push" \in Steps
      /\ Leads("read settings", "push") /\ "push" \in Ends
  BY DEF Steps, Leads, Ends
<1> QED
  BY <1>1, TwoSteady, TwoOf

LEMMA FollowUpSteady == Steady(<<"follow up">>) /\ ~Has(<<"follow up">>, "bind")
<1> DEFINE s == <<"follow up">>
<1>1. s \in Seq(Steps) /\ Len(s) = 1 /\ s[1] = "follow up"
  BY OneOf DEF Steps
<1> HIDE DEF s
<1>0. Len(s) = 1
  BY <1>1
<1>2. Path(s)
  BY <1>0 DEF Path
<1>3. Ending(s)
  BY <1>1 DEF Ending, Ends
<1>4. \A i \in 1 .. Len(s) : s[i] \notin {"check", "bind", "upsert"}
  <2>1. \A i \in 1 .. Len(s) : i = 1
    BY <1>0
  <2> QED
    BY <1>1, <2>1, Zenon
<1>5. Steady(s) /\ ~Has(s, "bind")
  BY <1>1, <1>2, <1>3, <1>4, PlainSteady
<1> QED
  BY <1>5 DEF s

LEMMA ImportSteady ==
    LET s == <<"upsert", "upsert">> \o Reload IN
    Steady(s) /\ ~Has(s, "bind") /\ Len(s) = 5 /\ s[1] = "upsert"
<1> DEFINE s == <<"upsert", "upsert">> \o Reload
<1>1. /\ "upsert" \in Steps /\ "read rules" \in Steps
      /\ "set map" \in Steps /\ "set detector" \in Steps
  BY DEF Steps
<1>2. /\ s \in Seq(Steps) /\ Len(s) = 5 /\ s[1] = "upsert" /\ s[2] = "upsert"
      /\ s[3] = "read rules" /\ s[4] = "set map" /\ s[5] = "set detector"
  <2> DEFINE a == "upsert"  c == "read rules"  d == "set map"  e == "set detector"
  <2>1. a \in Steps /\ c \in Steps /\ d \in Steps /\ e \in Steps
    BY <1>1
  <2>2. s = <<a, a>> \o <<c, d, e>>
    BY Zenon DEF Reload
  <2> HIDE DEF a, c, d, e, s
  <2>3. /\ s \in Seq(Steps) /\ Len(s) = 5
        /\ s[1] = a /\ s[2] = a /\ s[3] = c /\ s[4] = d /\ s[5] = e
    BY <2>1, <2>2
  <2> QED
    BY <2>3, Zenon DEF a, c, d, e
<1> HIDE DEF s
<1>3. \A i \in 1 .. 5 : i = 1 \/ i = 2 \/ i = 3 \/ i = 4 \/ i = 5
  OBVIOUS
<1>4. /\ Leads(s[1], s[2]) /\ Leads(s[2], s[3]) /\ Leads(s[3], s[4]) /\ Leads(s[4], s[5])
  BY <1>2, Zenon DEF Leads
<1>0. Len(s) = 5
  BY <1>2
<1>5. Path(s)
  BY <1>0, <1>3, <1>4 DEF Path
<1>6. Ending(s)
  BY <1>2 DEF Ending, Ends
<1>7. \A i \in 1 .. Len(s) : s[i] # "check" /\ s[i] # "bind"
  BY <1>2, <1>3
<1>8. \A i \in 1 .. Len(s) : s[i] = "upsert" => i = 1 \/ i = 2
  BY <1>2, <1>3
<1>9. Upserts(s)
  BY <1>0, <1>8 DEF Upserts
<1> QED
  BY <1>2, <1>5, <1>6, <1>7, <1>9 DEF Steady, Later, Once, Has, s

LEMMA NotEmpty == ASSUME NEW s, Len(s) # 0 PROVE s # <<>>
  OBVIOUS

LEMMA ReloadNotEmpty == Reload # <<>>
<1>1. Len(Reload) = 3
  BY ReloadIs
<1> QED
  BY <1>1, NotEmpty

LEMMA JoinEnds ==
    ASSUME NEW S, NEW a \in Seq(S), NEW b \in Seq(S), a # <<>>, b # <<>>
    PROVE  a \o b # <<>> /\ (a \o b)[1] = a[1] /\ (a \o b)[Len(a \o b)] = b[Len(b)]
<1>1. Len(a) \in Nat \ {0} /\ Len(b) \in Nat \ {0} /\ Len(a \o b) = Len(a) + Len(b)
  OBVIOUS
<1>2. 1 \in 1 .. Len(a) /\ Len(b) \in 1 .. Len(b) /\ Len(b) + Len(a) = Len(a \o b)
  BY <1>1
<1>3. (a \o b)[1] = a[1]
  BY <1>2, JoinIs
<1>4. (a \o b)[Len(b) + Len(a)] = b[Len(b)]
  BY <1>2, JoinIs
<1> QED
  BY <1>1, <1>2, <1>3, <1>4

LEMMA StopStartSteady ==
    LET s == Stop \o Start IN
    /\ Steady(s) /\ ~Has(s, "upsert") /\ s # <<>> /\ s[1] = "take" /\ s[Len(s)] = "publish"
<1> DEFINE a == Stop  b == Start
<1>1. /\ Steady(a) /\ Steady(b) /\ ~Has(a, "upsert") /\ ~Has(b, "upsert") /\ ~Has(a, "bind")
      /\ ~Has(a, "push") /\ ~Has(b, "push")
  BY StopSteady, StartSteady
<1>2. /\ a \in Seq(Steps) /\ b \in Seq(Steps) /\ Len(a) = 2 /\ Len(b) = 7
  BY StopIs, StartIs
<1>3. a[1] = "take" /\ a[2] = "shutdown" /\ b[1] = "check" /\ b[7] = "publish"
  BY StopIs, StartIs
<1>4. Leads(a[2], b[1])
  BY <1>3 DEF Leads
<1> HIDE DEF a, b
<1>8. Len(a) = 2 /\ Len(b) = 7 /\ Len(a) # 0 /\ Len(b) # 0
  BY <1>2
<1>9. a # <<>> /\ b # <<>>
  BY <1>8, NotEmpty, Zenon
<1>5. a # <<>> /\ b # <<>> /\ Leads(a[Len(a)], b[1])
  BY <1>4, <1>8, <1>9, Zenon
<1>6. Steady(a \o b) /\ ~Has(a \o b, "upsert")
  BY <1>1, <1>5, JoinSteady
<1>7. a \o b # <<>> /\ (a \o b)[1] = a[1] /\ (a \o b)[Len(a \o b)] = b[7]
  BY <1>2, <1>5, JoinEnds, ZenonT(60)
<1> QED
  BY <1>3, <1>6, <1>7 DEF a, b

LEMMA StopRegenerateSteady ==
    LET s == Stop \o <<"regenerate", "replace">> IN
    /\ Steady(s) /\ ~Has(s, "upsert") /\ ~Has(s, "bind") /\ ~Has(s, "push")
    /\ s # <<>> /\ s[1] = "take" /\ s[Len(s)] = "replace"
<1> DEFINE a == Stop  b == <<"regenerate", "replace">>
<1>1. /\ Steady(a) /\ Steady(b) /\ ~Has(a, "upsert") /\ ~Has(b, "upsert")
      /\ ~Has(a, "bind") /\ ~Has(b, "bind") /\ ~Has(a, "push") /\ ~Has(b, "push")
  BY StopSteady, RegenerateSteady
<1>2. a \in Seq(Steps) /\ Len(a) = 2 /\ a[1] = "take" /\ a[2] = "shutdown"
  BY StopIs
<1>3. Len(b) = 2 /\ b[1] = "regenerate" /\ b[2] = "replace"
  BY RegenerateSteady
<1>4. Leads(a[2], b[1])
  BY <1>2, <1>3 DEF Leads
<1>5. b \in Seq(Steps)
  BY <1>1 DEF Steady
<1>6. Len(a) = 2 /\ Len(b) = 2 /\ Len(a) # 0 /\ Len(b) # 0
  BY <1>2, <1>3
<1> HIDE DEF a, b
<1>11. a # <<>> /\ b # <<>>
  BY <1>6, NotEmpty, Zenon
<1>7. a # <<>> /\ b # <<>> /\ Leads(a[Len(a)], b[1])
  BY <1>4, <1>6, <1>11, Zenon
<1>8. /\ Steady(a \o b) /\ ~Has(a \o b, "upsert") /\ ~Has(a \o b, "bind")
      /\ ~Has(a \o b, "push")
  BY <1>1, <1>7, JoinSteady
<1>9. a \o b # <<>> /\ (a \o b)[1] = a[1] /\ (a \o b)[Len(a \o b)] = b[Len(b)]
  BY <1>2, <1>5, <1>7, JoinEnds
<1>10. (a \o b)[Len(a \o b)] = b[2]
  BY <1>6, <1>9
<1> QED
  BY <1>2, <1>3, <1>8, <1>9, <1>10 DEF a, b

\* regenerate_ca of a running proxy.
LEMMA RegenerateStartSteady ==
    LET s == (Stop \o <<"regenerate", "replace">>) \o Start IN
    Steady(s) /\ s # <<>> /\ s[1] = "take"
<1> DEFINE a == Stop \o <<"regenerate", "replace">>  b == Start
<1>1. /\ Steady(a) /\ Steady(b) /\ ~Has(a, "upsert") /\ ~Has(b, "upsert") /\ ~Has(a, "bind")
      /\ ~Has(a, "push") /\ ~Has(b, "push")
      /\ a # <<>> /\ a[1] = "take" /\ a[Len(a)] = "replace"
  BY StopRegenerateSteady, StartSteady
<1>2. b \in Seq(Steps) /\ Len(b) = 7 /\ b[1] = "check"
  BY StartIs
<1>3. Leads(a[Len(a)], b[1])
  BY <1>1, <1>2 DEF Leads
<1>4. Len(b) = 7
  BY <1>2
<1>5. b # <<>>
  BY <1>4
<1>6. a \in Seq(Steps)
  BY <1>1 DEF Steady
<1> HIDE DEF a, b
<1>7. Steady(a \o b)
  BY <1>1, <1>3, <1>5, JoinSteady
<1>8. a \o b # <<>> /\ (a \o b)[1] = a[1]
  BY <1>1, <1>2, <1>5, <1>6, JoinEnds
<1> QED
  BY <1>1, <1>7, <1>8 DEF a, b

\* What save_settings has to do besides, followed by a reload.
LEMMA WithReloadSteady ==
    ASSUME NEW a, Steady(a), ~Has(a, "upsert"), a # <<>>, a[Len(a)] \in {"publish", "push"}
    PROVE  LET s == a \o Reload IN Steady(s) /\ s # <<>> /\ s[1] = a[1]
<1> DEFINE b == Reload
<1>1. /\ Steady(b) /\ ~Has(b, "upsert") /\ ~Has(b, "bind") /\ ~Has(b, "push")
      /\ b \in Seq(Steps)
  BY ReloadSteady, ReloadIs
<1>2. Len(b) = 3 /\ b[1] = "read rules"
  BY ReloadIs
<1>3. Leads(a[Len(a)], b[1])
  BY <1>2 DEF Leads
<1>4. Len(b) = 3
  BY <1>2
<1>5. b # <<>>
  BY <1>4
<1>6. a \in Seq(Steps)
  BY DEF Steady
<1> HIDE DEF b
<1>7. Steady(a \o b)
  BY <1>1, <1>3, <1>5, JoinSteady
<1>8. a \o b # <<>> /\ (a \o b)[1] = a[1]
  BY <1>1, <1>5, <1>6, JoinEnds
<1> QED
  BY <1>7, <1>8 DEF b

LEMMA TailOf ==
    ASSUME NEW S, NEW s \in Seq(S), NEW r \in Seq(S)
    PROVE  Drop(s \o r, Len(s)) = r
<1> DEFINE c == s \o r  d == Drop(c, Len(s))
<1>1. /\ c \in Seq(S) /\ Len(c) = Len(s) + Len(r)
      /\ \A i \in 1 .. Len(r) : i + Len(s) \in 1 .. Len(c) /\ c[i + Len(s)] = r[i]
  BY JoinIs
<1> HIDE DEF c
<1>2. Len(s) \in 0 .. Len(c)
  BY <1>1
<1>3. /\ d \in Seq(S) /\ Len(d) = Len(c) - Len(s)
      /\ \A i \in 1 .. Len(d) : d[i] = c[i + Len(s)]
  BY <1>1, <1>2, DropIs
<1> HIDE DEF d
<1>4. Len(d) = Len(r)
  BY <1>1, <1>3
<1>5. \A i \in 1 .. Len(d) : d[i] = r[i]
  BY <1>1, <1>3, <1>4
<1>6. d = r
  BY <1>3, <1>4, <1>5
<1> QED
  BY <1>6 DEF c, d

LEMMA OneThen ==
    ASSUME NEW S, NEW s \in Seq(S), Len(s) = 1, NEW r \in Seq(S)
    PROVE  s \o r \in Seq(S) /\ 1 \in 0 .. Len(s \o r) /\ Drop(s \o r, 1) = r
<1>1. s \o r \in Seq(S) /\ 1 \in 0 .. Len(s \o r)
  OBVIOUS
<1>2. Drop(s \o r, Len(s)) = r
  BY TailOf, Zenon
<1> QED
  BY <1>1, <1>2, Zenon

LEMMA LastOfTwo ==
    ASSUME NEW s, Len(s) = 2 PROVE s # <<>> /\ s[Len(s)] = s[2] /\ Len(s) >= 2
  OBVIOUS
-----------------------------------------------------------------------------
\* The step a command is at, and the one that comes next.
LEMMA HereNext ==
    ASSUME NEW todo, Steady(todo), todo # <<>>
    PROVE  /\ Here(todo) = todo[1] /\ 1 \in 1 .. Len(todo)
           /\ Steady(Drop(todo, 1))
           /\ \/ Drop(todo, 1) = <<>> /\ Here(todo) \in Ends
              \/ Drop(todo, 1) # <<>> /\ Leads(Here(todo), Here(Drop(todo, 1)))
<1> DEFINE d == Drop(todo, 1)
<1>1. todo \in Seq(Steps) /\ Len(todo) \in Nat \ {0}
  BY DEF Steady
<1>2. 1 \in 0 .. Len(todo) /\ 1 \in 1 .. Len(todo)
  BY <1>1
<1>3. /\ d \in Seq(Steps) /\ Len(d) = Len(todo) - 1
      /\ \A i \in 1 .. Len(d) : i + 1 \in 1 .. Len(todo) /\ d[i] = todo[i + 1]
  BY <1>1, <1>2, DropIs
<1>4. Steady(d)
  BY <1>2, DropSteady
<1> HIDE DEF d
<1>5. Here(todo) = todo[1]
  BY DEF Here
<1>6. CASE d = <<>>
  <2>1. Len(todo) = 1
    BY <1>1, <1>3, <1>6
  <2> QED
    BY <1>2, <1>4, <1>5, <1>6, <2>1 DEF Steady, Ending, d
<1>7. CASE d # <<>>
  <2>1. 1 \in 1 .. Len(d)
    BY <1>3, <1>7
  <2>2. 1 + 1 \in 1 .. Len(todo) /\ d[1] = todo[1 + 1]
    BY <1>3, <2>1
  <2>3. Leads(todo[1], todo[1 + 1])
    BY <1>2, <2>2 DEF Steady, Path
  <2>4. Here(d) = d[1]
    BY <1>7 DEF Here
  <2> QED
    BY <1>2, <1>4, <1>5, <1>7, <2>2, <2>3, <2>4 DEF d
<1> QED
  BY <1>6, <1>7

Follows(h, g) ==
    /\ h \in Steps
    /\ h = "take" => g = "shutdown"
    /\ h = "shutdown" => g \in {"none", "check", "regenerate"}
    /\ h = "regenerate" => g = "replace"
    /\ h = "replace" => g \in {"none", "check"}
    /\ h = "check" => g = "read settings"
    /\ h = "read settings" => g \in {"read rules", "push"}
    /\ h = "push" => g \in {"none", "read rules"}
    /\ h = "read rules" => g = "set map"
    /\ h = "set map" => g = "set detector"
    /\ h = "set detector" => g \in {"none", "bind"}
    /\ h = "bind" => g = "publish"
    /\ h = "publish" => g \in {"none", "read rules"}
    /\ h = "upsert" => g \in {"upsert", "read rules"}
    /\ h = "follow up" => g = "none"

LEMMA NextIs ==
    ASSUME NEW todo, Steady(todo), todo # <<>>
    PROVE  Follows(Here(todo), Here(Drop(todo, 1)))
<1> DEFINE h == Here(todo)  g == Here(Drop(todo, 1))
<1>1. todo \in Seq(Steps)
  BY DEF Steady
<1>2. h \in Steps
  BY <1>1, HereNext
<1>3. (g = "none" /\ h \in Ends) \/ Leads(h, g)
  BY HereNext DEF Here
<1> HIDE DEF h, g
<1>4. Follows(h, g)
  BY <1>2, <1>3 DEF Leads, Ends, Follows
<1> QED
  BY <1>4 DEF h, g

\* What is left after n steps begins with a step that may follow the n-th.
LEMMA HereAfter ==
    ASSUME NEW todo, Steady(todo), NEW n \in 1 .. Len(todo)
    PROVE  /\ Steady(Drop(todo, n))
           /\ Here(Drop(todo, n)) = "none" \/ Leads(todo[n], Here(Drop(todo, n)))
<1> DEFINE d == Drop(todo, n)
<1>1. todo \in Seq(Steps) /\ n \in 0 .. Len(todo)
  BY DEF Steady
<1>2. /\ d \in Seq(Steps) /\ Len(d) = Len(todo) - n
      /\ \A i \in 1 .. Len(d) : i + n \in 1 .. Len(todo) /\ d[i] = todo[i + n]
  BY <1>1, DropIs
<1>3. Steady(d)
  BY <1>1, DropSteady
<1> HIDE DEF d
<1>4. CASE d = <<>>
  BY <1>3, <1>4, Zenon DEF Here, d
<1>5. CASE d # <<>>
  <2>1. 1 \in 1 .. Len(d)
    BY <1>2, <1>5
  <2>2. n + 1 \in 1 .. Len(todo) /\ d[1] = todo[n + 1]
    BY <1>1, <1>2, <2>1
  <2>3. Leads(todo[n], todo[n + 1])
    BY <1>1, <2>2 DEF Steady, Path
  <2>4. Here(d) = d[1]
    BY <1>5, Zenon DEF Here
  <2> QED
    BY <1>3, <2>2, <2>3, <2>4, Zenon DEF d
<1> QED
  BY <1>4, <1>5

\* start_proxy of a running proxy: the rest of the command comes after its steps.
LEMMA SkipStart ==
    ASSUME NEW todo, Steady(todo), todo # <<>>, Here(todo) = "check"
    PROVE  /\ 7 \in 0 .. Len(todo) /\ Steady(Drop(todo, 7))
           /\ Here(Drop(todo, 7)) \in {"none", "read rules"} /\ ~Has(Drop(todo, 7), "bind")
<1>1. todo \in Seq(Steps) /\ 1 \in 1 .. Len(todo) /\ todo[1] = "check" /\ Len(todo) \in Nat
  BY HereNext DEF Steady
<1>2. 1 + 6 \in 1 .. Len(todo) /\ todo[1 + 6] = "publish"
  BY <1>1, Zenon DEF Steady, Later
<1>3. 6 \in 1 .. Len(todo) /\ 7 \in 1 .. Len(todo) /\ 7 \in 0 .. Len(todo) /\ 7 = 6 + 1
      /\ 1 + 6 = 7
  BY <1>1, <1>2
<1>4. Leads(todo[6], todo[7])
  BY <1>3 DEF Steady, Path
<1>5. todo[7] = "publish"
  BY <1>2, <1>3, Zenon
<1>6. todo[6] = "bind"
  BY <1>4, <1>5 DEF Leads
<1>7. Once(todo, "bind")
  BY DEF Steady
<1>8. 6 \in 1 .. 7
  OBVIOUS
<1>9. ~Has(Drop(todo, 7), "bind")
  BY <1>1, <1>3, <1>6, <1>7, <1>8, DropOnce, Zenon
<1>10. Steady(Drop(todo, 7))
       /\ (Here(Drop(todo, 7)) = "none" \/ Leads(todo[7], Here(Drop(todo, 7))))
  BY <1>3, HereAfter, Zenon
<1>11. Here(Drop(todo, 7)) \in {"none", "read rules"}
  BY <1>5, <1>10 DEF Leads
<1> QED
  BY <1>3, <1>9, <1>10, <1>11

LEMMA SecondStep ==
    ASSUME NEW todo, Steady(todo), todo # <<>>
    PROVE  /\ todo \in Seq(Steps) /\ 1 \in 1 .. Len(todo) /\ 1 \in 0 .. Len(todo)
           /\ Len(todo) = 1 \/ (2 \in 1 .. Len(todo) /\ 2 \in 0 .. Len(todo)
                                /\ Leads(todo[1], todo[2]))
<1>1. todo \in Seq(Steps) /\ Path(todo)
  BY DEF Steady
<1>2. Len(todo) \in Nat /\ Len(todo) # 0
  BY <1>1
<1>3. 2 \in 1 .. Len(todo) => Leads(todo[1], todo[2])
  <2>1. 2 = 1 + 1 /\ 1 \in 1 .. Len(todo)
    BY <1>2
  <2> QED
    BY <1>1, <2>1 DEF Path
<1>4. /\ 1 \in 1 .. Len(todo) /\ 1 \in 0 .. Len(todo)
      /\ Len(todo) = 1 \/ (2 \in 1 .. Len(todo) /\ 2 \in 0 .. Len(todo))
  BY <1>2
<1> QED
  BY <1>1, <1>3, <1>4, Zenon

\* stop_proxy without a running proxy.
LEMMA SkipStop ==
    ASSUME NEW todo, Steady(todo), todo # <<>>, Here(todo) = "take"
    PROVE  /\ 2 \in 0 .. Len(todo) /\ Steady(Drop(todo, 2))
           /\ Here(Drop(todo, 2)) \in {"none", "check", "regenerate"}
<1>1. todo[1] = "take"
  BY HereNext, Zenon
<1>2. "take" \notin Ends
  BY DEF Ends
<1>3. Len(todo) # 1
  BY <1>1, <1>2, Zenon DEF Steady, Ending
<1>4. 2 \in 1 .. Len(todo) /\ 2 \in 0 .. Len(todo) /\ Leads(todo[1], todo[2])
  BY <1>3, SecondStep, Zenon
<1>6. todo[2] = "shutdown"
  BY <1>1, <1>4 DEF Leads
<1>7. Steady(Drop(todo, 2))
      /\ (Here(Drop(todo, 2)) = "none" \/ Leads(todo[2], Here(Drop(todo, 2))))
  BY <1>4, HereAfter, Zenon
<1>8. Here(Drop(todo, 2)) \in {"none", "check", "regenerate"}
  BY <1>6, <1>7 DEF Leads
<1> QED
  BY <1>4, <1>7, <1>8, Zenon

LEMMA FollowUpLast ==
    ASSUME NEW todo, Steady(todo), todo # <<>>, Here(todo) = "follow up"
    PROVE  Len(todo) = 1
<1>1. todo[1] = "follow up"
  BY HereNext, Zenon
<1>2. \A x : ~Leads("follow up", x)
  BY DEF Leads
<1> QED
  BY <1>1, <1>2, SecondStep, Zenon
-----------------------------------------------------------------------------
\* The effect of a step on the commands.
LEMMA AtIs ==
    ASSUME TypeInv, NEW t \in Tasks, NEW x, At(t, x)
    PROVE  /\ task[t] \in Task /\ task[t].todo # <<>> /\ Here(task[t].todo) = x
           /\ Steady(task[t].todo) /\ TaskOK(task[t])
<1>1. task[t] \in Task /\ TaskOK(task[t])
  BY DEF TypeInv, TypeOK
<1>2. Steady(task[t].todo)
  BY <1>1 DEF TaskOK
<1>3. task[t].todo \in Seq(Steps)
  BY <1>2 DEF Steady
<1>4. task[t].todo # <<>> /\ Head(task[t].todo) = x
  BY DEF At, Busy
<1> DEFINE todo == task[t].todo
<1>5. \A s \in Seq(Steps) : s # <<>> => Head(s) = s[1]
  OBVIOUS
<1> QED
  BY <1>1, <1>2, <1>3, <1>4, <1>5, Zenon DEF Here

LEMMA AfterIs ==
    ASSUME task \in [Tasks -> Task], NEW t \in Tasks, NEW e \in Task,
           NEW n \in 0 .. Len(e.todo), After(t, n, e)
    PROVE  /\ task' \in [Tasks -> Task]
           /\ \A u \in Tasks : u # t => task'[u] = task[u]
           /\ task'[t].todo = Drop(e.todo, n) /\ task'[t].cfg = e.cfg
           /\ task'[t].rules = e.rules /\ task'[t].old = e.old
           /\ task'[t].taken = e.taken /\ task'[t].ca = e.ca
<1> DEFINE f == [e EXCEPT !.todo = Drop(e.todo, n)]
<1>1. e.todo \in Seq(Steps)
  BY DEF Task
<1>2. Drop(e.todo, n) \in Seq(Steps)
  BY <1>1, DropIs
<1>3. /\ f \in Task /\ f.todo = Drop(e.todo, n) /\ f.cfg = e.cfg /\ f.rules = e.rules
      /\ f.old = e.old /\ f.taken = e.taken /\ f.ca = e.ca
  BY <1>2 DEF Task
<1>4. task' = [task EXCEPT ![t] = f]
  BY DEF After, Drop
<1> HIDE DEF f
<1>5. /\ task' \in [Tasks -> Task] /\ task'[t] = f
      /\ \A u \in Tasks : u # t => task'[u] = task[u]
  BY <1>3, <1>4
<1> QED
  BY <1>3, <1>5

\* A command that has done its step is ready for the next one.
LEMMA TaskOn ==
    ASSUME NEW e \in Task, TaskOK(e), e.todo # <<>>, NEW f \in Task, f.todo = Drop(e.todo, 1),
           IF Here(e.todo) = "read settings" THEN f.cfg \in Settings ELSE f.cfg = e.cfg,
           IF Here(e.todo) = "read rules" THEN f.rules \in RuleSets ELSE f.rules = e.rules,
           Here(e.todo) = "take" => f.taken \in Slot
    PROVE  TaskOK(f) /\ (Holds(f) => Here(e.todo) \in {"take", "bind"})
<1> DEFINE h == Here(e.todo)  g == Here(f.todo)
<1>1. Steady(e.todo) /\ e.todo \in Seq(Steps)
  BY DEF TaskOK, Steady
<1>2. Steady(f.todo) /\ 1 \in 0 .. Len(e.todo)
  BY <1>1, HereNext, SecondStep, Zenon
<1>3. Has(f.todo, "bind") => Has(e.todo, "bind")
  BY <1>1, <1>2, DropHas
<1>4. Follows(h, g)
  BY <1>1, NextIs
<1>5. h = "upsert" => ~Has(e.todo, "bind")
  <2> SUFFICES ASSUME h = "upsert" PROVE Has(e.todo, "upsert")
    BY <1>1 DEF Steady
  <2> QED
    BY <1>1, HereNext DEF Has
<1>6. h = "bind" => Has(e.todo, "bind")
  BY <1>1, HereNext DEF Has
<1>7. g = "bind" => Has(f.todo, "bind")
  <2> SUFFICES ASSUME g = "bind" PROVE Has(f.todo, "bind")
    OBVIOUS
  <2>1. f.todo # <<>>
    BY DEF Here
  <2> QED
    BY <1>2, <2>1, HereNext DEF Has
<1>8. Configured(e.todo) <=>
          (h \in {"publish", "push"}
           \/ (h \in {"read rules", "set map", "set detector", "bind"} /\ Has(e.todo, "bind")))
  BY DEF Configured
<1>9. Configured(f.todo) <=>
          (g \in {"publish", "push"}
           \/ (g \in {"read rules", "set map", "set detector", "bind"} /\ Has(f.todo, "bind")))
  BY DEF Configured
<1>10. Configured(e.todo) => e.cfg \in Settings
  BY DEF TaskOK
<1>11. h \in {"set map", "set detector"} => e.rules \in RuleSets
  BY DEF TaskOK
<1> HIDE DEF h, g
<1>12. /\ IF h = "read settings" THEN f.cfg \in Settings ELSE f.cfg = e.cfg
       /\ IF h = "read rules" THEN f.rules \in RuleSets ELSE f.rules = e.rules
       /\ h = "take" => f.taken \in Slot
  BY DEF h
<1>13. Configured(f.todo) => h = "read settings" \/ Configured(e.todo)
  BY <1>3, <1>4, <1>5, <1>6, <1>8, <1>9 DEF Steps, Follows
<1>14. Configured(f.todo) => f.cfg \in Settings
  BY <1>10, <1>12, <1>13
<1>15. g = "shutdown" => h = "take"
  BY <1>4 DEF Steps, Follows
<1>16. g \in {"set map", "set detector"} => h \in {"read rules", "set map"}
  BY <1>4 DEF Steps, Follows
<1>17. g # "follow up"
  BY <1>4 DEF Steps, Follows
<1>18. g \in {"set map", "set detector"} => f.rules \in RuleSets
  BY <1>11, <1>12, <1>16
<1>19. g = "publish" => h = "bind"
  BY <1>4 DEF Steps, Follows
<1> QED
  BY <1>2, <1>12, <1>14, <1>15, <1>17, <1>18, <1>19 DEF TaskOK, Holds, h, g

LEMMA OneStep ==
    ASSUME TypeInv, NEW t \in Tasks, NEW x, At(t, x),
           NEW e \in Task, e.todo = task[t].todo, After(t, 1, e),
           IF x = "read settings" THEN e.cfg \in Settings ELSE e.cfg = task[t].cfg,
           IF x = "read rules" THEN e.rules \in RuleSets ELSE e.rules = task[t].rules,
           x = "take" => e.taken \in Slot
    PROVE  /\ task' \in [Tasks -> Task] /\ \A u \in Tasks : u # t => task'[u] = task[u]
           /\ TaskOK(task'[t]) /\ (Holds(task'[t]) => x \in {"take", "bind"})
           /\ task'[t].todo = Drop(task[t].todo, 1) /\ task'[t].cfg = e.cfg
           /\ task'[t].rules = e.rules /\ task'[t].old = e.old
           /\ task'[t].taken = e.taken /\ task'[t].ca = e.ca
<1>1. /\ task[t] \in Task /\ task[t].todo # <<>> /\ Here(task[t].todo) = x
      /\ Steady(task[t].todo) /\ TaskOK(task[t])
  BY AtIs
<1>2. 1 \in 0 .. Len(e.todo)
  BY <1>1, SecondStep, Zenon
<1>3. task \in [Tasks -> Task]
  BY DEF TypeInv, TypeOK
<1>4. /\ task' \in [Tasks -> Task]
      /\ \A u \in Tasks : u # t => task'[u] = task[u]
      /\ task'[t].todo = Drop(e.todo, 1) /\ task'[t].cfg = e.cfg
      /\ task'[t].rules = e.rules /\ task'[t].old = e.old
      /\ task'[t].taken = e.taken /\ task'[t].ca = e.ca
  BY <1>2, <1>3, AfterIs, Zenon
<1> DEFINE f == task'[t]
<1>5. f \in Task
  BY <1>4
<1>6. f.todo = Drop(task[t].todo, 1) /\ f.cfg = e.cfg /\ f.rules = e.rules /\ f.taken = e.taken
  BY <1>4
<1> HIDE DEF f
<1>7. /\ IF Here(task[t].todo) = "read settings" THEN f.cfg \in Settings
         ELSE f.cfg = task[t].cfg
      /\ IF Here(task[t].todo) = "read rules" THEN f.rules \in RuleSets
         ELSE f.rules = task[t].rules
      /\ Here(task[t].todo) = "take" => f.taken \in Slot
  BY <1>1, <1>6, Zenon
<1>8. TaskOK(f) /\ (Holds(f) => Here(task[t].todo) \in {"take", "bind"})
  BY <1>1, <1>5, <1>6, <1>7, TaskOn, Zenon
<1> QED
  BY <1>1, <1>4, <1>8, Zenon DEF f

\* Most steps change no variable of the command.
LEMMA DoneStep ==
    ASSUME TypeInv, NEW t \in Tasks, NEW x, At(t, x),
           x # "read settings", x # "read rules", x # "take", Done(t)
    PROVE  /\ task' \in [Tasks -> Task] /\ \A u \in Tasks : u # t => task'[u] = task[u]
           /\ TaskOK(task'[t]) /\ (Holds(task'[t]) => x = "bind")
           /\ task'[t].todo = Drop(task[t].todo, 1) /\ task'[t].cfg = task[t].cfg
           /\ task'[t].rules = task[t].rules /\ task'[t].old = task[t].old
           /\ task'[t].taken = task[t].taken /\ task'[t].ca = task[t].ca
<1>1. task[t] \in Task
  BY AtIs, Zenon
<1>2. After(t, 1, task[t])
  BY DEF Done
<1>3. /\ task' \in [Tasks -> Task] /\ \A u \in Tasks : u # t => task'[u] = task[u]
      /\ TaskOK(task'[t]) /\ (Holds(task'[t]) => x \in {"take", "bind"})
      /\ task'[t].todo = Drop(task[t].todo, 1) /\ task'[t].cfg = task[t].cfg
      /\ task'[t].rules = task[t].rules /\ task'[t].old = task[t].old
      /\ task'[t].taken = task[t].taken /\ task'[t].ca = task[t].ca
  BY <1>1, <1>2, OneStep, Zenon
<1> QED
  BY <1>3, Zenon

LEMMA EmptySteady == Steady(<<>>)
<1>1. <<>> \in Seq(Steps) /\ Len(<<>>) = 0
  OBVIOUS
<1> QED
  BY <1>1 DEF Steady, Path, Ending, Later, Once, Upserts, Has

\* A command that fails.
LEMMA ReturnStep ==
    ASSUME TypeInv, NEW t \in Tasks, Return(t)
    PROVE  /\ task' \in [Tasks -> Task] /\ \A u \in Tasks : u # t => task'[u] = task[u]
           /\ TaskOK(task'[t]) /\ ~Holds(task'[t]) /\ task'[t] = Idle
<1>1. Idle \in Task
  BY DEF Idle, Task
<1>2. /\ task' \in [Tasks -> Task] /\ \A u \in Tasks : u # t => task'[u] = task[u]
      /\ task'[t] = Idle
  BY <1>1 DEF Return, TypeInv, TypeOK
<1>3. Idle.todo = <<>>
  BY DEF Idle
<1>4. Here(Idle.todo) = "none"
  BY <1>3 DEF Here
<1>7. ~Configured(Idle.todo)
  BY <1>4 DEF Configured
<1>8. TaskOK(Idle) /\ ~Holds(Idle)
  BY <1>3, <1>4, <1>7, EmptySteady DEF TaskOK, Holds
<1> QED
  BY <1>2, <1>8

LEMMA NextNat == \A n \in Nat : n + 1 \in Nat
  OBVIOUS

LEMMA BeginIs ==
    ASSUME task \in [Tasks -> Task], NEW t \in Tasks, NEW steps \in Seq(Steps),
           NEW old \in Settings \cup {None}, Begin(t, steps, old)
    PROVE  /\ task' \in [Tasks -> Task] /\ \A u \in Tasks : u # t => task'[u] = task[u]
           /\ task'[t].todo = steps /\ task'[t].old = old
<1> DEFINE g == [Idle EXCEPT !.todo = steps]  f == [Idle EXCEPT !.todo = steps, !.old = old]
<1>1. Idle \in Task
  BY DEF Idle, Task
<1>2. g \in Task /\ g.todo = steps
  BY <1>1 DEF Task
<1>3. f = [g EXCEPT !.old = old]
  OBVIOUS
<1>4. task' = [task EXCEPT ![t] = f]
  BY DEF Begin
<1> HIDE DEF f, g
<1>5. f \in Task /\ f.todo = steps /\ f.old = old
  BY <1>2, <1>3 DEF Task
<1> QED
  BY <1>4, <1>5

\* A command begins with a list of steps that needs nothing of the command before.
LEMMA BeginStep ==
    ASSUME TypeInv, NEW t \in Tasks, NEW steps, NEW old \in Settings \cup {None},
           Begin(t, steps, old), Steady(steps), steps # <<>>,
           steps[1] \in {"check", "take", "read rules", "upsert", "follow up"},
           steps[1] = "read rules" => ~Has(steps, "bind"),
           steps[1] = "follow up" => old \in Settings
    PROVE  /\ task' \in [Tasks -> Task] /\ \A u \in Tasks : u # t => task'[u] = task[u]
           /\ TaskOK(task'[t]) /\ ~Holds(task'[t])
           /\ task'[t].todo = steps /\ task'[t].old = old
           /\ commands' \in Nat /\ overlapped' \in BOOLEAN /\ unloaded' \in BOOLEAN
<1> DEFINE f == task'[t]
<1>1. steps \in Seq(Steps) /\ task \in [Tasks -> Task]
  BY DEF Steady, TypeInv, TypeOK
<1>2. /\ task' \in [Tasks -> Task] /\ \A u \in Tasks : u # t => task'[u] = task[u]
      /\ task'[t].todo = steps /\ task'[t].old = old
  BY <1>1, BeginIs, Zenon
<1>3. f.todo = steps /\ f.old = old
  BY <1>2
<1> HIDE DEF f
<1>6. Here(f.todo) = steps[1]
  BY <1>3 DEF Here
<1>7. ~Configured(f.todo)
  BY <1>3, <1>6 DEF Configured
<1>8. TaskOK(f) /\ ~Holds(f)
  BY <1>3, <1>6, <1>7 DEF TaskOK, Holds
<1>9. commands' \in Nat
  <2>1. commands \in Nat /\ commands' = commands + 1
    BY DEF Begin, TypeInv, TypeOK
  <2> QED
    BY <2>1, NextNat, Zenon
<1>11. unloaded' \in BOOLEAN
  BY Zenon DEF Begin, TypeInv, TypeOK
<1>10. overlapped' \in BOOLEAN
  BY Zenon DEF Begin
<1> QED
  BY <1>2, <1>8, <1>9, <1>10, <1>11, Zenon DEF f
-----------------------------------------------------------------------------
\* The parts of the two invariants that a step leaves as they are.
LEMMA TypeFrom ==
    ASSUME TypeInv, NEW t \in Tasks, task' \in [Tasks -> Task],
           \A u \in Tasks : u # t => task'[u] = task[u], TaskOK(task'[t]),
           db' \in Settings, redactor' \in [map : RuleSets, detector : RuleSets],
           slot' \in Slot \cup {None}, listening' \subseteq Ports,
           ca' \in [made : Nat, disk : Nat \cup {None}, memory : Nat],
           commands' \in Nat, overlapped' \in BOOLEAN, unloaded' \in BOOLEAN
    PROVE  TypeInv'
<1>1. \A u \in Tasks : TaskOK(task'[u])
  BY Zenon DEF TypeInv
<1> QED
  BY <1>1, Zenon DEF TypeInv, TypeOK

\* A step that neither binds a port nor shuts a proxy down, publishes or takes one.
LEMMA PortsFrom ==
    ASSUME PortsInv, NEW t \in Tasks, \A u \in Tasks : u # t => task'[u] = task[u],
           ~Holds(task'[t]), listening' = listening,
           \/ slot' = slot
           \/ slot' = None
           \/ slot # None /\ slot'.port = slot.port
    PROVE  PortsInv'
<1>1. \A u \in Tasks : Holds(task'[u]) => u # t /\ task'[u] = task[u]
  OBVIOUS
<1>2. slot' # None => slot # None /\ slot'.port = slot.port
  OBVIOUS
<1>3. (slot # None => slot.port \in listening)'
  BY <1>2 DEF PortsInv
<1>4. ASSUME NEW u \in Tasks, Holds(task'[u])
      PROVE  Port(task'[u]) \in listening' /\ (slot' # None => slot'.port # Port(task'[u]))
  BY <1>1, <1>2, <1>4 DEF PortsInv
<1>5. ASSUME NEW u \in Tasks, NEW v \in Tasks, u # v, Holds(task'[u]), Holds(task'[v])
      PROVE  Port(task'[u]) # Port(task'[v])
  BY <1>1, <1>5 DEF PortsInv
<1> QED
  BY <1>3, <1>4, <1>5 DEF PortsInv

\* The types, for the steps below.
LEMMA Types ==
    ASSUME TypeInv
    PROVE  /\ db \in Settings /\ db.port \in Ports /\ db.options \in Options /\ db.rules \in RuleSets
           /\ redactor \in [map : RuleSets, detector : RuleSets]
           /\ slot \in Slot \cup {None} /\ listening \subseteq Ports
           /\ ca \in [made : Nat, disk : Nat \cup {None}, memory : Nat]
           /\ commands \in Nat /\ overlapped \in BOOLEAN /\ unloaded \in BOOLEAN
<1>1. /\ db \in Settings /\ redactor \in [map : RuleSets, detector : RuleSets]
      /\ slot \in Slot \cup {None} /\ listening \subseteq Ports
      /\ ca \in [made : Nat, disk : Nat \cup {None}, memory : Nat]
      /\ commands \in Nat /\ overlapped \in BOOLEAN /\ unloaded \in BOOLEAN
  BY Zenon DEF TypeInv, TypeOK
<1>2. db.port \in Ports /\ db.options \in Options /\ db.rules \in RuleSets
  BY <1>1 DEF Settings
<1> QED
  BY <1>1, <1>2, Zenon

\* A command begins, perhaps after it has stored something: d was stored before, new after.
Opening(steps, old, d, new) ==
    /\ Steady(steps) /\ steps # <<>>
    /\ steps[1] \in {"check", "take", "read rules", "upsert", "follow up"}
    /\ steps[1] \in {"read rules", "upsert", "follow up"} => ~Has(steps, "bind")
    /\ old \in Settings \cup {None} /\ new \in Settings
    /\ steps[1] = "follow up" => old = d /\ old \in Settings
    /\ steps[1] # "follow up" => new.port = d.port /\ new.options = d.options
    /\ steps[1] \notin {"follow up", "read rules"} => new = d
Opens(t) ==
    /\ \E steps, old : Begin(t, steps, old) /\ Opening(steps, old, db, db')
    /\ redactor' = redactor /\ slot' = slot /\ listening' = listening /\ ca' = ca

LEMMA OpensKeeps ==
    ASSUME TypeInv, PortsInv, NEW t \in Tasks, Opens(t)
    PROVE  TypeInv' /\ PortsInv'
<1>1. PICK steps, old : Begin(t, steps, old) /\ Opening(steps, old, db, db')
  BY Zenon DEF Opens
<1>2. redactor' = redactor /\ slot' = slot /\ listening' = listening /\ ca' = ca
  BY Zenon DEF Opens
<1>3. /\ Steady(steps) /\ steps # <<>>
      /\ steps[1] \in {"check", "take", "read rules", "upsert", "follow up"}
      /\ steps[1] = "read rules" => ~Has(steps, "bind")
      /\ old \in Settings \cup {None} /\ db' \in Settings
      /\ steps[1] = "follow up" => old \in Settings
  BY <1>1 DEF Opening
<1>4. /\ task' \in [Tasks -> Task] /\ \A u \in Tasks : u # t => task'[u] = task[u]
      /\ TaskOK(task'[t]) /\ ~Holds(task'[t])
      /\ commands' \in Nat /\ overlapped' \in BOOLEAN /\ unloaded' \in BOOLEAN
  BY <1>1, <1>3, BeginStep, Zenon
<1>5. TypeInv'
  BY <1>2, <1>3, <1>4, Types, TypeFrom, Zenon
<1>6. PortsInv'
  BY <1>2, <1>4, PortsFrom, Zenon
<1> QED
  BY <1>5, <1>6

LEMMA ProxyCommandOpens ==
    ASSUME TypeInv, NEW t \in Tasks, ProxyCommand(t)
    PROVE  Opens(t)
<1>1. PICK steps \in {Start, Stop, Stop \o Start} : Begin(t, steps, None)
  BY Zenon DEF ProxyCommand
<1>2. UNCHANGED <<db, redactor, slot, listening, ca>>
  BY Zenon DEF ProxyCommand
<1>3. Steady(steps) /\ steps # <<>> /\ steps[1] \in {"check", "take"}
  <2>1. CASE steps = Start
    <3>1. Len(Start) = 7 /\ Start[1] = "check"
      BY StartIs
    <3>2. Len(Start) # 0
      BY <3>1
    <3> QED
      BY <2>1, <3>1, <3>2, NotEmpty, StartSteady, Zenon
  <2>2. CASE steps = Stop
    <3>1. Len(Stop) = 2 /\ Stop[1] = "take"
      BY StopIs
    <3>2. Len(Stop) # 0
      BY <3>1
    <3> QED
      BY <2>2, <3>1, <3>2, NotEmpty, StopSteady, Zenon
  <2>3. CASE steps = Stop \o Start
    BY <2>3, StopStartSteady, Zenon
  <2> QED
    BY <1>1, <2>1, <2>2, <2>3, Zenon
<1>4. db \in Settings /\ db' = db
  BY <1>2, Types, Zenon
<1>5. Opening(steps, None, db, db')
  BY <1>3, <1>4 DEF Opening
<1> QED
  BY <1>1, <1>2, <1>5, Zenon DEF Opens

LEMMA SaveSettingsOpens ==
    ASSUME TypeInv, NEW t \in Tasks, NEW s \in Settings, SaveSettings(t, s)
    PROVE  Opens(t)
<1> DEFINE steps == <<"follow up">>
<1>1. Begin(t, steps, db) /\ db' = s /\ UNCHANGED <<redactor, slot, listening, ca>>
  BY Zenon DEF SaveSettings
<1>2. Len(steps) = 1 /\ steps[1] = "follow up"
  OBVIOUS
<1>3. Len(steps) # 0
  BY <1>2
<1>4. Steady(steps) /\ ~Has(steps, "bind")
  BY FollowUpSteady
<1> HIDE DEF steps
<1>5. steps # <<>>
  BY <1>3, NotEmpty
<1>6. db \in Settings /\ db \in Settings \cup {None} /\ db' \in Settings
  BY <1>1, Types
<1>7. Opening(steps, db, db, db')
  BY <1>2, <1>4, <1>5, <1>6 DEF Opening
<1> QED
  BY <1>1, <1>7, Zenon DEF Opens

LEMMA ChangeRulesOpens ==
    ASSUME TypeInv, NEW t \in Tasks, NEW rules \in RuleSets, ChangeRules(t, rules)
    PROVE  Opens(t)
<1>1. /\ Begin(t, Reload, None) /\ db' = [db EXCEPT !.rules = rules]
      /\ UNCHANGED <<redactor, slot, listening, ca>>
  BY Zenon DEF ChangeRules
<1>2. Reload[1] = "read rules"
  BY ReloadIs
<1>4. Steady(Reload) /\ ~Has(Reload, "bind") /\ Reload # <<>>
  BY ReloadSteady, ReloadNotEmpty
<1>5. db' \in Settings /\ db'.port = db.port /\ db'.options = db.options
  BY <1>1, Types DEF Settings
<1>6. Opening(Reload, None, db, db')
  BY <1>2, <1>4, <1>5 DEF Opening
<1> QED
  BY <1>1, <1>6, Zenon DEF Opens

LEMMA ImportRulesOpens ==
    ASSUME TypeInv, NEW t \in Tasks, ImportRules(t)
    PROVE  Opens(t)
<1> DEFINE steps == <<"upsert", "upsert">> \o Reload
<1>1. Begin(t, steps, None) /\ UNCHANGED <<db, redactor, slot, listening, ca>>
  BY Zenon DEF ImportRules
<1>2. Steady(steps) /\ ~Has(steps, "bind") /\ Len(steps) = 5 /\ steps[1] = "upsert"
  BY ImportSteady
<1> HIDE DEF steps
<1>3. Len(steps) # 0
  BY <1>2
<1>5. steps # <<>>
  BY <1>3, NotEmpty
<1>6. db \in Settings /\ db' = db
  BY <1>1, Types, Zenon
<1>7. Opening(steps, None, db, db')
  BY <1>2, <1>5, <1>6 DEF Opening
<1> QED
  BY <1>1, <1>7, Zenon DEF Opens

LEMMA RegenerateCaOpens ==
    ASSUME TypeInv, NEW t \in Tasks, RegenerateCa(t)
    PROVE  Opens(t)
<1> DEFINE more == IF slot # None THEN Start ELSE <<>>
           steps == (Stop \o <<"regenerate", "replace">>) \o more
<1>1. Begin(t, steps, None) /\ UNCHANGED <<db, redactor, slot, listening, ca>>
  BY Zenon DEF RegenerateCa
<1>2. Steady(steps) /\ steps # <<>> /\ steps[1] = "take"
  <2>1. CASE slot # None
    <3>1. steps = (Stop \o <<"regenerate", "replace">>) \o Start
      BY <2>1, Zenon
    <3> QED
      BY <3>1, RegenerateStartSteady, Zenon
  <2>2. CASE slot = None
    <3> DEFINE s == Stop \o <<"regenerate", "replace">>
    <3>1. Steady(s) /\ s # <<>> /\ s[1] = "take"
      BY StopRegenerateSteady
    <3>2. s \in Seq(Steps)
      BY <3>1 DEF Steady
    <3>3. steps = s \o <<>>
      BY <2>2, Zenon
    <3> HIDE DEF s, steps
    <3>4. steps = s
      BY <3>2, <3>3, ConcatEmptySeq, Zenon
    <3> QED
      BY <3>1, <3>4, Zenon
  <2> QED
    BY <2>1, <2>2
<1> HIDE DEF steps
<1>3. db \in Settings /\ db' = db
  BY <1>1, Types, Zenon
<1>4. Opening(steps, None, db, db')
  BY <1>2, <1>3 DEF Opening
<1> QED
  BY <1>1, <1>4, Zenon DEF Opens

LEMMA UpsertKeeps ==
    ASSUME TypeInv, PortsInv, NEW t \in Tasks, NEW rules \in RuleSets, Upsert(t, rules)
    PROVE  TypeInv' /\ PortsInv'
<1>1. /\ At(t, "upsert") /\ Done(t)
      /\ db' = [db EXCEPT !.rules = rules]
      /\ commands' = commands /\ overlapped' = overlapped /\ unloaded' = unloaded
      /\ redactor' = redactor /\ slot' = slot /\ listening' = listening /\ ca' = ca
  BY Zenon DEF Upsert, Same
<1>2. /\ task' \in [Tasks -> Task] /\ \A u \in Tasks : u # t => task'[u] = task[u]
      /\ TaskOK(task'[t]) /\ ~Holds(task'[t])
  <2>1. "upsert" # "read settings" /\ "upsert" # "read rules" /\ "upsert" # "take"
        /\ "upsert" # "bind"
    OBVIOUS
  <2> QED
    BY <1>1, <2>1, DoneStep, Zenon
<1>3. db' \in Settings
  BY <1>1, Types DEF Settings
<1>4. TypeInv'
  BY <1>1, <1>2, <1>3, Types, TypeFrom, Zenon
<1>5. PortsInv'
  BY <1>1, <1>2, PortsFrom, Zenon
<1> QED
  BY <1>4, <1>5

LEMMA SetMapKeeps ==
    ASSUME TypeInv, PortsInv, NEW t \in Tasks, SetMap(t)
    PROVE  TypeInv' /\ PortsInv'
<1>1. /\ At(t, "set map") /\ Done(t)
      /\ redactor' = [redactor EXCEPT !.map = task[t].rules]
      /\ commands' = commands /\ overlapped' = overlapped /\ unloaded' = unloaded
      /\ db' = db /\ slot' = slot /\ listening' = listening /\ ca' = ca
  BY Zenon DEF SetMap, Same
<1>2. /\ task' \in [Tasks -> Task] /\ \A u \in Tasks : u # t => task'[u] = task[u]
      /\ TaskOK(task'[t]) /\ ~Holds(task'[t])
  <2>1. "set map" # "read settings" /\ "set map" # "read rules" /\ "set map" # "take"
        /\ "set map" # "bind"
    OBVIOUS
  <2> QED
    BY <1>1, <2>1, DoneStep, Zenon
<1>6. task[t].rules \in RuleSets
  BY <1>1, AtIs DEF TaskOK
<1>3. redactor' \in [map : RuleSets, detector : RuleSets]
  BY <1>1, <1>6, Types
<1>4. TypeInv'
  BY <1>1, <1>2, <1>3, Types, TypeFrom, Zenon
<1>5. PortsInv'
  BY <1>1, <1>2, PortsFrom, Zenon
<1> QED
  BY <1>4, <1>5

LEMMA SetDetectorKeeps ==
    ASSUME TypeInv, PortsInv, NEW t \in Tasks, SetDetector(t)
    PROVE  TypeInv' /\ PortsInv'
<1>1. /\ At(t, "set detector") /\ Done(t)
      /\ redactor' = [redactor EXCEPT !.detector = task[t].rules]
      /\ commands' = commands /\ overlapped' = overlapped /\ unloaded' = unloaded
      /\ db' = db /\ slot' = slot /\ listening' = listening /\ ca' = ca
  BY Zenon DEF SetDetector, Same
<1>2. /\ task' \in [Tasks -> Task] /\ \A u \in Tasks : u # t => task'[u] = task[u]
      /\ TaskOK(task'[t]) /\ ~Holds(task'[t])
  <2>1. "set detector" # "read settings" /\ "set detector" # "read rules" /\ "set detector" # "take"
        /\ "set detector" # "bind"
    OBVIOUS
  <2> QED
    BY <1>1, <2>1, DoneStep, Zenon
<1>6. task[t].rules \in RuleSets
  BY <1>1, AtIs DEF TaskOK
<1>3. redactor' \in [map : RuleSets, detector : RuleSets]
  BY <1>1, <1>6, Types
<1>4. TypeInv'
  BY <1>1, <1>2, <1>3, Types, TypeFrom, Zenon
<1>5. PortsInv'
  BY <1>1, <1>2, PortsFrom, Zenon
<1> QED
  BY <1>4, <1>5

LEMMA PushKeeps ==
    ASSUME TypeInv, PortsInv, NEW t \in Tasks, Push(t)
    PROVE  TypeInv' /\ PortsInv'
<1>1. /\ At(t, "push") /\ Done(t)
      /\ slot' = IF slot = None THEN None ELSE [slot EXCEPT !.options = task[t].cfg.options]
      /\ commands' = commands /\ overlapped' = overlapped /\ unloaded' = unloaded
      /\ db' = db /\ redactor' = redactor /\ listening' = listening /\ ca' = ca
  BY Zenon DEF Push, Same
<1>2. /\ task' \in [Tasks -> Task] /\ \A u \in Tasks : u # t => task'[u] = task[u]
      /\ TaskOK(task'[t]) /\ ~Holds(task'[t])
  <2>1. "push" # "read settings" /\ "push" # "read rules" /\ "push" # "take"
        /\ "push" # "bind"
    OBVIOUS
  <2> QED
    BY <1>1, <2>1, DoneStep, Zenon
<1>6. task[t].cfg \in Settings
  BY <1>1, AtIs DEF TaskOK, Configured
<1>7. task[t].cfg.options \in Options
  BY <1>6 DEF Settings
<1>3. slot' \in Slot \cup {None}
  BY <1>1, <1>7, Types DEF Slot
<1>8. slot' = None \/ (slot # None /\ slot'.port = slot.port)
  BY <1>1, Types DEF Slot
<1>4. TypeInv'
  BY <1>1, <1>2, <1>3, Types, TypeFrom, Zenon
<1>5. PortsInv'
  BY <1>1, <1>2, <1>8, PortsFrom, Zenon
<1> QED
  BY <1>4, <1>5

LEMMA ReplaceCaKeeps ==
    ASSUME TypeInv, PortsInv, NEW t \in Tasks, ReplaceCa(t)
    PROVE  TypeInv' /\ PortsInv'
<1>1. /\ At(t, "replace") /\ Done(t)
      /\ ca' = [ca EXCEPT !.memory = task[t].ca]
      /\ commands' = commands /\ overlapped' = overlapped /\ unloaded' = unloaded
      /\ db' = db /\ redactor' = redactor /\ slot' = slot /\ listening' = listening
  BY Zenon DEF ReplaceCa, Same
<1>2. /\ task' \in [Tasks -> Task] /\ \A u \in Tasks : u # t => task'[u] = task[u]
      /\ TaskOK(task'[t]) /\ ~Holds(task'[t])
  <2>1. "replace" # "read settings" /\ "replace" # "read rules" /\ "replace" # "take"
        /\ "replace" # "bind"
    OBVIOUS
  <2> QED
    BY <1>1, <2>1, DoneStep, Zenon
<1>6. task[t].ca \in Nat
  BY <1>1, AtIs DEF Task
<1>3. ca' \in [made : Nat, disk : Nat \cup {None}, memory : Nat]
  BY <1>1, <1>6, Types
<1>4. TypeInv'
  BY <1>1, <1>2, <1>3, Types, TypeFrom, Zenon
<1>5. PortsInv'
  BY <1>1, <1>2, PortsFrom, Zenon
<1> QED
  BY <1>4, <1>5

LEMMA ReadSettingsKeeps ==
    ASSUME TypeInv, PortsInv, NEW t \in Tasks, ReadSettings(t)
    PROVE  TypeInv' /\ PortsInv'
<1> DEFINE e == [task[t] EXCEPT !.cfg = db]
<1>1. At(t, "read settings") /\ After(t, 1, e)
      /\ commands' = commands /\ overlapped' = overlapped /\ unloaded' = unloaded
      /\ db' = db /\ redactor' = redactor /\ slot' = slot /\ listening' = listening /\ ca' = ca
  BY Zenon DEF ReadSettings, Same
<1>2. db \in Settings /\ task[t] \in Task
  BY <1>1, Types, AtIs
<1>3. /\ e \in Task /\ e.todo = task[t].todo /\ e.cfg = db
      /\ e.rules = task[t].rules /\ e.taken = task[t].taken
  BY <1>2 DEF Task
<1> HIDE DEF e
<1>4. /\ task' \in [Tasks -> Task] /\ \A u \in Tasks : u # t => task'[u] = task[u]
      /\ TaskOK(task'[t]) /\ ~Holds(task'[t])
  <2>1. "read settings" # "take" /\ "read settings" # "bind" /\ "read settings" # "read rules"
    OBVIOUS
  <2> QED
    BY <1>1, <1>2, <1>3, <2>1, OneStep, Zenon
<1>5. TypeInv'
  BY <1>1, <1>4, Types, TypeFrom, Zenon
<1>6. PortsInv'
  BY <1>1, <1>4, PortsFrom, Zenon
<1> QED
  BY <1>5, <1>6

LEMMA ReadRulesKeeps ==
    ASSUME TypeInv, PortsInv, NEW t \in Tasks, ReadRules(t)
    PROVE  TypeInv' /\ PortsInv'
<1> DEFINE e == [task[t] EXCEPT !.rules = db.rules]
<1>1. At(t, "read rules") /\ After(t, 1, e)
      /\ unloaded' = FALSE /\ commands' = commands /\ overlapped' = overlapped
      /\ db' = db /\ redactor' = redactor /\ slot' = slot /\ listening' = listening /\ ca' = ca
  BY Zenon DEF ReadRules, Same
<1>2. db.rules \in RuleSets /\ task[t] \in Task
  BY <1>1, Types, AtIs
<1>3. /\ e \in Task /\ e.todo = task[t].todo /\ e.rules = db.rules
      /\ e.cfg = task[t].cfg /\ e.taken = task[t].taken
  BY <1>2 DEF Task
<1> HIDE DEF e
<1>4. /\ task' \in [Tasks -> Task] /\ \A u \in Tasks : u # t => task'[u] = task[u]
      /\ TaskOK(task'[t]) /\ ~Holds(task'[t])
  <2>1. "read rules" # "take" /\ "read rules" # "bind" /\ "read rules" # "read settings"
    OBVIOUS
  <2> QED
    BY <1>1, <1>2, <1>3, <2>1, OneStep, ZenonT(60)
<1>7. unloaded' \in BOOLEAN
  BY <1>1, Zenon
<1>5. TypeInv'
  BY <1>1, <1>4, <1>7, Types, TypeFrom, Zenon
<1>6. PortsInv'
  BY <1>1, <1>4, PortsFrom, Zenon
<1> QED
  BY <1>5, <1>6

LEMMA UpsertFailsKeeps ==
    ASSUME TypeInv, PortsInv, NEW t \in Tasks, UpsertFails(t)
    PROVE  TypeInv' /\ PortsInv'
<1>1. Return(t) /\ commands' = commands /\ overlapped' = overlapped /\ db' = db /\ redactor' = redactor /\ slot' = slot
      /\ listening' = listening /\ ca' = ca
  BY Zenon DEF UpsertFails, Same
<1>2. /\ task' \in [Tasks -> Task] /\ \A u \in Tasks : u # t => task'[u] = task[u]
      /\ TaskOK(task'[t]) /\ ~Holds(task'[t])
  BY <1>1, ReturnStep, Zenon
<1>3. unloaded' \in BOOLEAN
  BY Zenon DEF UpsertFails
<1>4. TypeInv'
  BY <1>1, <1>2, <1>3, Types, TypeFrom, Zenon
<1>5. PortsInv'
  BY <1>1, <1>2, PortsFrom, Zenon
<1> QED
  BY <1>4, <1>5

LEMMA BindFailsKeeps ==
    ASSUME TypeInv, PortsInv, NEW t \in Tasks, BindFails(t)
    PROVE  TypeInv' /\ PortsInv'
<1>1. Return(t) /\ commands' = commands /\ overlapped' = overlapped /\ unloaded' = unloaded /\ db' = db /\ redactor' = redactor
      /\ slot' = slot /\ listening' = listening /\ ca' = ca
  BY Zenon DEF BindFails, Same
<1>2. /\ task' \in [Tasks -> Task] /\ \A u \in Tasks : u # t => task'[u] = task[u]
      /\ TaskOK(task'[t]) /\ ~Holds(task'[t])
  BY <1>1, ReturnStep, Zenon
<1>3. unloaded' \in BOOLEAN
  BY <1>1, Types, Zenon
<1>4. TypeInv'
  BY <1>1, <1>2, <1>3, Types, TypeFrom, Zenon
<1>5. PortsInv'
  BY <1>1, <1>2, PortsFrom, Zenon
<1> QED
  BY <1>4, <1>5

LEMMA RegenerateFailsKeeps ==
    ASSUME TypeInv, PortsInv, NEW t \in Tasks, RegenerateFails(t)
    PROVE  TypeInv' /\ PortsInv'
<1>1. Return(t) /\ ca' = [ca EXCEPT !.disk = None]
      /\ commands' = commands /\ overlapped' = overlapped /\ unloaded' = unloaded /\ db' = db /\ redactor' = redactor /\ slot' = slot
      /\ listening' = listening
  BY Zenon DEF RegenerateFails, Same
<1>2. /\ task' \in [Tasks -> Task] /\ \A u \in Tasks : u # t => task'[u] = task[u]
      /\ TaskOK(task'[t]) /\ ~Holds(task'[t])
  BY <1>1, ReturnStep, Zenon
<1>3. ca' \in [made : Nat, disk : Nat \cup {None}, memory : Nat]
  BY <1>1, Types
<1>4. TypeInv'
  BY <1>1, <1>2, <1>3, Types, TypeFrom, Zenon
<1>5. PortsInv'
  BY <1>1, <1>2, PortsFrom, Zenon
<1> QED
  BY <1>4, <1>5

LEMMA RegenerateKeeps ==
    ASSUME TypeInv, PortsInv, NEW t \in Tasks, Regenerate(t)
    PROVE  TypeInv' /\ PortsInv'
<1> DEFINE e == [task[t] EXCEPT !.ca = ca.made + 1]
<1>1. /\ At(t, "regenerate") /\ After(t, 1, e)
      /\ ca' = [ca EXCEPT !.made = @ + 1, !.disk = ca.made + 1]
      /\ commands' = commands /\ overlapped' = overlapped /\ unloaded' = unloaded
      /\ db' = db /\ redactor' = redactor /\ slot' = slot /\ listening' = listening
  BY Zenon DEF Regenerate, Same
<1>2. task[t] \in Task
  BY <1>1, AtIs
<1>3. ca \in [made : Nat, disk : Nat \cup {None}, memory : Nat]
  BY Types
<1>4. ca.made + 1 \in Nat
  BY <1>3, NextNat
<1>5. /\ e \in Task /\ e.todo = task[t].todo /\ e.cfg = task[t].cfg
      /\ e.rules = task[t].rules /\ e.taken = task[t].taken
  BY <1>2, <1>4 DEF Task
<1> HIDE DEF e
<1>6. /\ task' \in [Tasks -> Task] /\ \A u \in Tasks : u # t => task'[u] = task[u]
      /\ TaskOK(task'[t]) /\ ~Holds(task'[t])
  <2>1. /\ "regenerate" # "take" /\ "regenerate" # "bind" /\ "regenerate" # "read settings"
        /\ "regenerate" # "read rules"
    OBVIOUS
  <2> QED
    BY <1>1, <1>5, <2>1, OneStep, Zenon
<1>7. ca' \in [made : Nat, disk : Nat \cup {None}, memory : Nat]
  <2>1. ca' = [[ca EXCEPT !.made = ca.made + 1] EXCEPT !.disk = ca.made + 1]
    BY <1>1, <1>3
  <2> QED
    BY <1>3, <1>4, <2>1
<1>8. TypeInv'
  BY <1>1, <1>6, <1>7, Types, TypeFrom, Zenon
<1>9. PortsInv'
  BY <1>1, <1>6, PortsFrom, Zenon
<1> QED
  BY <1>8, <1>9

LEMMA CheckKeeps ==
    ASSUME TypeInv, PortsInv, NEW t \in Tasks, Check(t)
    PROVE  TypeInv' /\ PortsInv'
<1>1. /\ At(t, "check") /\ After(t, IF slot # None THEN Len(Start) ELSE 1, task[t])
      /\ commands' = commands /\ overlapped' = overlapped /\ unloaded' = unloaded
      /\ db' = db /\ redactor' = redactor /\ slot' = slot /\ listening' = listening /\ ca' = ca
  BY Zenon DEF Check, Same
<1>2. /\ task[t] \in Task /\ task[t].todo # <<>> /\ Here(task[t].todo) = "check"
      /\ Steady(task[t].todo) /\ TaskOK(task[t])
  BY <1>1, AtIs, Zenon
<1>3. /\ task' \in [Tasks -> Task] /\ \A u \in Tasks : u # t => task'[u] = task[u]
      /\ TaskOK(task'[t]) /\ ~Holds(task'[t])
  <2>1. CASE slot = None
    <3>1. Done(t)
      BY <1>1, <2>1, Zenon DEF Done
    <3>2. "check" # "read settings" /\ "check" # "read rules" /\ "check" # "take"
          /\ "check" # "bind"
      OBVIOUS
    <3> QED
      BY <1>1, <3>1, <3>2, DoneStep, Zenon
  <2>2. CASE slot # None
    <3>1. Len(Start) = 7
      BY StartIs
    <3>2. After(t, 7, task[t])
      BY <1>1, <2>2, <3>1, Zenon
    <3>3. /\ 7 \in 0 .. Len(task[t].todo) /\ Steady(Drop(task[t].todo, 7))
          /\ Here(Drop(task[t].todo, 7)) \in {"none", "read rules"}
          /\ ~Has(Drop(task[t].todo, 7), "bind")
      BY <1>2, SkipStart, Zenon
    <3>4. task \in [Tasks -> Task]
      BY DEF TypeInv, TypeOK
    <3>5. /\ task' \in [Tasks -> Task] /\ \A u \in Tasks : u # t => task'[u] = task[u]
          /\ task'[t].todo = Drop(task[t].todo, 7)
      BY <1>2, <3>2, <3>3, <3>4, AfterIs, Zenon
    <3> DEFINE f == task'[t]
    <3>6. Steady(f.todo) /\ Here(f.todo) \in {"none", "read rules"} /\ ~Has(f.todo, "bind")
      BY <3>3, <3>5, Zenon
    <3> HIDE DEF f
    <3>7. TaskOK(f) /\ ~Holds(f)
      BY <3>6 DEF TaskOK, Holds, Configured
    <3> QED
      BY <3>5, <3>7, Zenon DEF f
  <2> QED
    BY <2>1, <2>2
<1>4. TypeInv'
  BY <1>1, <1>3, Types, TypeFrom, Zenon
<1>5. PortsInv'
  BY <1>1, <1>3, PortsFrom, Zenon
<1> QED
  BY <1>4, <1>5

LEMMA NthJoin ==
    ASSUME NEW S, NEW a \in Seq(S), NEW b \in Seq(S)
    PROVE  /\ \A n, x : Nth(a, n, x) /\ n \in {2, 3} => Nth(a \o b, n, x)
           /\ Len(a) = 2 /\ Len(b) >= 1 => Nth(a \o b, 3, b[1])
<1> DEFINE c == a \o b
<1>1. /\ Len(c) = Len(a) + Len(b)
      /\ \A i \in 1 .. Len(a) : c[i] = a[i]
      /\ \A i \in 1 .. Len(b) : c[i + Len(a)] = b[i]
  BY JoinIs
<1> HIDE DEF c
<1>2. \A n, x : Nth(a, n, x) /\ n \in {2, 3} => Nth(c, n, x)
  BY <1>1 DEF Nth
<1>3. ASSUME Len(a) = 2, Len(b) >= 1 PROVE Nth(c, 3, b[1])
  <2>1. 1 \in 1 .. Len(b) /\ 1 + Len(a) = 3 /\ Len(c) >= 3
    BY <1>1, <1>3
  <2>2. c[1 + Len(a)] = b[1]
    BY <1>1, <2>1
  <2> QED
    BY <2>1, <2>2 DEF Nth
<1> QED
  BY <1>2, <1>3 DEF c

LEMMA JoinHas ==
    ASSUME NEW S, NEW a \in Seq(S), NEW b \in Seq(S), NEW x, Has(a \o b, x)
    PROVE  Has(a, x) \/ Has(b, x)
<1> DEFINE c == a \o b
<1>1. \A i \in 1 .. Len(c) : \/ i \in 1 .. Len(a) /\ c[i] = a[i]
                             \/ i - Len(a) \in 1 .. Len(b) /\ c[i] = b[i - Len(a)]
  BY JoinIs
<1> HIDE DEF c
<1>2. Has(c, x) => Has(a, x) \/ Has(b, x)
  BY <1>1 DEF Has
<1> QED
  BY <1>2 DEF c

LEMMA ReloadLong == Len(Reload) >= 1
<1>1. Len(Reload) = 3
  BY ReloadIs
<1> QED
  BY <1>1

LEMMA StopStartThird == Nth(Stop \o Start, 3, "check")
<1>1. Stop \in Seq(Steps) /\ Start \in Seq(Steps) /\ Start[1] = "check"
  BY StopIs, StartIs
<1>2. Len(Stop) = 2 /\ Len(Start) = 7
  BY StopIs, StartIs
<1>3. Len(Stop) = 2 /\ Len(Start) >= 1
  BY <1>2
<1> QED
  BY <1>1, <1>3, NthJoin, Zenon

\* What save_settings has left once it knows what changed.
FollowedUp(todo, restart, reload) ==
    /\ Steady(todo)
    /\ restart => Here(todo) = "take" /\ Nth(todo, 3, "check")
    /\ ~restart => /\ Here(todo) = "read settings" /\ Nth(todo, 2, "push") /\ ~Has(todo, "bind")
                   /\ reload => Nth(todo, 3, "read rules")

LEMMA FollowUpStep ==
    ASSUME TypeInv, NEW t \in Tasks, FollowUp(t)
    PROVE  /\ task' \in [Tasks -> Task] /\ \A u \in Tasks : u # t => task'[u] = task[u]
           /\ FollowedUp(task'[t].todo, task[t].old.port # db.port /\ slot # None,
                         task[t].old.rules # db.rules)
<1> DEFINE todo == task[t].todo
           restart == task[t].old.port # db.port /\ slot # None
           reload == task[t].old.rules # db.rules
           a == IF restart THEN Stop \o Start ELSE <<"read settings", "push">>
           b == IF reload THEN Reload ELSE <<>>
           e == [task[t] EXCEPT !.todo = todo \o a \o b]
<1>1. /\ At(t, "follow up") /\ After(t, 1, e)
  BY Zenon DEF FollowUp
<1>2. /\ task[t] \in Task /\ todo # <<>> /\ Here(todo) = "follow up" /\ Steady(todo)
  BY <1>1, AtIs, Zenon
<1>3. todo \in Seq(Steps) /\ Len(todo) = 1
  BY <1>2, FollowUpLast, Zenon DEF Steady
<1>4. /\ Steady(a) /\ ~Has(a, "upsert") /\ a # <<>> /\ a[Len(a)] \in {"publish", "push"}
      /\ restart => a[1] = "take" /\ Nth(a, 3, "check")
      /\ ~restart => /\ Len(a) = 2 /\ a[1] = "read settings" /\ Nth(a, 2, "push")
                     /\ ~Has(a, "bind")
  <2>1. CASE restart
    <3>1. a = Stop \o Start
      BY <2>1, Zenon
    <3> HIDE DEF a, restart
    <3>2. /\ Steady(a) /\ ~Has(a, "upsert") /\ a # <<>> /\ a[1] = "take" /\ a[Len(a)] = "publish"
          /\ Nth(a, 3, "check")
      BY <3>1, StopStartSteady, StopStartThird, Zenon
    <3> QED
      BY <2>1, <3>2
  <2>2. CASE ~restart
    <3>1. a = <<"read settings", "push">>
      BY <2>2, Zenon
    <3> HIDE DEF a, restart
    <3>2. /\ Steady(a) /\ ~Has(a, "upsert") /\ ~Has(a, "bind") /\ Len(a) = 2
          /\ a[1] = "read settings" /\ a[2] = "push"
      BY <3>1, PushSteady, Zenon
    <3>3. a # <<>> /\ a[Len(a)] = a[2] /\ Len(a) >= 2
      BY <3>2, LastOfTwo, Zenon
    <3> QED
      BY <2>2, <3>2, <3>3, Zenon DEF Nth
  <2> QED
    BY <2>1, <2>2, Zenon
<1>5. a \in Seq(Steps) /\ b \in Seq(Steps)
  <2>1. a \in Seq(Steps)
    BY <1>4, Zenon DEF Steady
  <2>2. <<>> \in Seq(Steps)
    OBVIOUS
  <2>3. b \in Seq(Steps)
    BY <2>2, ReloadIs, Zenon
  <2> QED
    BY <2>1, <2>3
<1>6. FollowedUp(a \o b, restart, reload)
  <2>1. CASE reload
    <3>1. b = Reload
      BY <2>1, Zenon
    <3> DEFINE c == a \o Reload
    <3> HIDE DEF a, b, restart, reload
    <3>2. Steady(c) /\ c # <<>> /\ c[1] = a[1]
      BY <1>4, WithReloadSteady, Zenon
    <3>3. Here(c) = a[1]
      BY <3>2, Zenon DEF Here
    <3>4. \A n, x : Nth(a, n, x) /\ n \in {2, 3} => Nth(c, n, x)
      BY <1>5, <3>1, NthJoin, Zenon
    <3>5. Reload[1] = "read rules" /\ Len(Reload) >= 1
      BY ReloadIs, ReloadLong, Zenon
    <3>6. Len(a) = 2 => Nth(c, 3, "read rules")
      BY <1>5, <3>1, <3>5, NthJoin, Zenon
    <3>7. Has(c, "bind") => Has(a, "bind") \/ Has(Reload, "bind")
      BY <1>5, <3>1, JoinHas, Zenon
    <3>8. ~Has(Reload, "bind")
      BY ReloadSteady, Zenon
    <3> HIDE DEF c
    <3>9. FollowedUp(c, restart, reload)
      BY <1>4, <3>2, <3>3, <3>4, <3>6, <3>7, <3>8 DEF FollowedUp
    <3> QED
      BY <3>1, <3>9, Zenon DEF c
  <2>2. CASE ~reload
    <3>1. b = <<>>
      BY <2>2, Zenon
    <3> HIDE DEF a, b, restart, reload
    <3>2. a \o b = a
      BY <1>5, <3>1, ConcatEmptySeq, Zenon
    <3>3. Here(a) = a[1]
      BY <1>4, Zenon DEF Here
    <3>4. FollowedUp(a, restart, reload)
      BY <1>4, <2>2, <3>3, Zenon DEF FollowedUp
    <3> QED
      BY <3>2, <3>4, Zenon
  <2> QED
    BY <2>1, <2>2, Zenon
<1>7. todo \o a \o b \in Seq(Steps) /\ 1 \in 0 .. Len(todo \o a \o b)
      /\ Drop(todo \o a \o b, 1) = a \o b
  <2> HIDE DEF todo, a, b
  <2>1. todo \o (a \o b) = todo \o a \o b
    BY <1>3, <1>5, ConcatAssociative, SMTT(60)
  <2>2. a \o b \in Seq(Steps)
    BY <1>5, ConcatProperties
  <2>3. /\ todo \o (a \o b) \in Seq(Steps) /\ 1 \in 0 .. Len(todo \o (a \o b))
        /\ Drop(todo \o (a \o b), 1) = a \o b
    BY <1>3, <2>2, OneThen, ZenonT(60)
  <2> QED
    BY <2>1, <2>3, Zenon
<1> DEFINE s == todo \o a \o b
<1>8. e \in Task /\ e.todo = s
  <2>1. e = [task[t] EXCEPT !.todo = s]
    BY Zenon
  <2>2. s \in Seq(Steps)
    BY <1>7, Zenon
  <2> HIDE DEF e, s
  <2> QED
    BY <1>2, <2>1, <2>2 DEF Task
<1> HIDE DEF e, s
<1>9. Drop(s, 1) = a \o b /\ 1 \in 0 .. Len(s)
  BY <1>7, Zenon DEF s
<1> HIDE DEF a, b, todo, restart, reload
<1>10. task \in [Tasks -> Task]
  BY DEF TypeInv, TypeOK
<1>11. /\ task' \in [Tasks -> Task] /\ \A u \in Tasks : u # t => task'[u] = task[u]
       /\ task'[t].todo = a \o b
  BY <1>1, <1>8, <1>9, <1>10, AfterIs, Zenon
<1> QED
  BY <1>6, <1>11, Zenon DEF restart, reload

LEMMA FollowUpKeeps ==
    ASSUME TypeInv, PortsInv, NEW t \in Tasks, FollowUp(t)
    PROVE  TypeInv' /\ PortsInv'
<1> DEFINE f == task'[t]
           restart == task[t].old.port # db.port /\ slot # None
           reload == task[t].old.rules # db.rules
<1>1. /\ commands' = commands /\ overlapped' = overlapped /\ unloaded' = unloaded
      /\ db' = db /\ redactor' = redactor /\ slot' = slot /\ listening' = listening /\ ca' = ca
  BY Zenon DEF FollowUp, Same
<1>2. /\ task' \in [Tasks -> Task] /\ \A u \in Tasks : u # t => task'[u] = task[u]
      /\ FollowedUp(f.todo, restart, reload)
  BY FollowUpStep, Zenon
<1> HIDE DEF f, restart, reload
<1>3. Steady(f.todo) /\ Here(f.todo) \in {"take", "read settings"}
  BY <1>2 DEF FollowedUp
<1>4. TaskOK(f) /\ ~Holds(f)
  BY <1>3 DEF TaskOK, Holds, Configured
<1>5. TypeInv'
  BY <1>1, <1>2, <1>4, Types, TypeFrom, Zenon DEF f
<1>6. PortsInv'
  BY <1>1, <1>2, <1>4, PortsFrom, Zenon DEF f
<1> QED
  BY <1>5, <1>6
-----------------------------------------------------------------------------
\* The steps that move a port from hand to hand.
LEMMA BindKeeps ==
    ASSUME TypeInv, PortsInv, NEW t \in Tasks, Bind(t)
    PROVE  TypeInv' /\ PortsInv'
<1> DEFINE e == [task[t] EXCEPT !.ca = ca.memory]  p == task[t].cfg.port
<1>1. /\ At(t, "bind") /\ After(t, 1, e) /\ p \notin listening /\ listening' = listening \cup {p}
      /\ commands' = commands /\ overlapped' = overlapped /\ unloaded' = unloaded
      /\ db' = db /\ redactor' = redactor /\ slot' = slot /\ ca' = ca
  BY Zenon DEF Bind, Same
<1>2. /\ task[t] \in Task /\ task[t].todo # <<>> /\ Here(task[t].todo) = "bind"
      /\ Steady(task[t].todo) /\ TaskOK(task[t])
  BY <1>1, AtIs, Zenon
<1>3. ca.memory \in Nat
  BY Types
<1>4. /\ e \in Task /\ e.todo = task[t].todo /\ e.cfg = task[t].cfg
      /\ e.rules = task[t].rules /\ e.taken = task[t].taken
  BY <1>2, <1>3 DEF Task
<1>5. p \in Ports
  <2>1. Has(task[t].todo, "bind")
    BY <1>2, HereNext, Zenon DEF Has
  <2>2. Configured(task[t].todo)
    BY <1>2, <2>1 DEF Configured
  <2>3. task[t].cfg \in Settings
    BY <1>2, <2>2, Zenon DEF TaskOK
  <2> QED
    BY <2>3 DEF Settings
<1> HIDE DEF e, p
<1>6. "bind" # "take" /\ "bind" # "read settings" /\ "bind" # "read rules"
  OBVIOUS
<1>7. /\ task' \in [Tasks -> Task] /\ \A u \in Tasks : u # t => task'[u] = task[u]
      /\ TaskOK(task'[t]) /\ task'[t].todo = Drop(task[t].todo, 1) /\ task'[t].cfg = task[t].cfg
  BY <1>1, <1>4, <1>6, OneStep, ZenonT(60)
<1>8. Follows("bind", Here(task'[t].todo))
  BY <1>2, <1>7, NextIs, Zenon
<1>9. Here(task'[t].todo) = "publish"
  BY <1>8 DEF Follows
<1>10. Port(task'[t]) = p
  BY <1>7, <1>9, Zenon DEF Port, p
<1>11. listening' \subseteq Ports
  BY <1>1, <1>5, Types
<1>12. TypeInv'
  BY <1>1, <1>7, <1>11, Types, TypeFrom, Zenon
<1>13. ASSUME NEW u \in Tasks, u # t, Holds(task'[u])
       PROVE  /\ Port(task'[u]) \in listening /\ (slot' # None => slot'.port # Port(task'[u]))
              /\ Port(task'[u]) # p
  BY <1>1, <1>7, <1>13 DEF PortsInv
<1>14. slot' # None => slot'.port \in listening
  BY <1>1 DEF PortsInv
<1>15. slot' # None => slot'.port \in listening'
  BY <1>1, <1>14
<1>16. ASSUME NEW u \in Tasks, Holds(task'[u])
       PROVE  Port(task'[u]) \in listening' /\ (slot' # None => slot'.port # Port(task'[u]))
  <2>1. CASE u = t
    BY <1>1, <1>10, <1>14, <2>1
  <2>2. CASE u # t
    BY <1>1, <1>13, <1>16, <2>2
  <2> QED
    BY <2>1, <2>2
<1>17. ASSUME NEW u \in Tasks, NEW v \in Tasks, u # v, Holds(task'[u]), Holds(task'[v])
       PROVE  Port(task'[u]) # Port(task'[v])
  <2>1. CASE u # t /\ v # t
    BY <1>7, <1>17, <2>1 DEF PortsInv
  <2>2. CASE u = t
    BY <1>10, <1>13, <1>17, <2>2
  <2>3. CASE v = t
    BY <1>10, <1>13, <1>17, <2>3
  <2> QED
    BY <2>1, <2>2, <2>3
<1> QED
  BY <1>12, <1>15, <1>16, <1>17 DEF PortsInv

LEMMA PublishKeeps ==
    ASSUME TypeInv, PortsInv, NEW t \in Tasks, Publish(t)
    PROVE  TypeInv' /\ PortsInv'
<1> DEFINE p == task[t].cfg.port
<1>1. /\ At(t, "publish") /\ Done(t)
      /\ slot' = [port |-> p, options |-> task[t].cfg.options, ca |-> task[t].ca]
      /\ commands' = commands /\ overlapped' = overlapped /\ unloaded' = unloaded
      /\ db' = db /\ redactor' = redactor /\ listening' = listening /\ ca' = ca
  BY Zenon DEF Publish, Same
<1>2. task[t] \in Task /\ Here(task[t].todo) = "publish" /\ TaskOK(task[t])
  BY <1>1, AtIs, Zenon
<1>3. task[t].cfg \in Settings
  BY <1>2 DEF TaskOK, Configured
<1>4. slot' \in Slot \cup {None} /\ slot'.port = p
  <2>1. task[t].ca \in Nat
    BY <1>2 DEF Task
  <2> QED
    BY <1>1, <1>3, <2>1 DEF Settings, Slot
<1>5. Holds(task[t]) /\ Port(task[t]) = p
  BY <1>2, Zenon DEF Holds, Port
<1> HIDE DEF p
<1>6. "publish" # "take" /\ "publish" # "read settings" /\ "publish" # "read rules"
      /\ "publish" # "bind"
  OBVIOUS
<1>7. /\ task' \in [Tasks -> Task] /\ \A u \in Tasks : u # t => task'[u] = task[u]
      /\ TaskOK(task'[t]) /\ ~Holds(task'[t])
  BY <1>1, <1>6, DoneStep, Zenon
<1>8. TypeInv'
  BY <1>1, <1>4, <1>7, Types, TypeFrom, Zenon
<1>9. p \in listening'
  BY <1>1, <1>5 DEF PortsInv
<1>10. ASSUME NEW u \in Tasks, Holds(task'[u])
       PROVE  u # t /\ Holds(task[u]) /\ Port(task'[u]) = Port(task[u])
  BY <1>7, <1>10, Zenon
<1>11. ASSUME NEW u \in Tasks, Holds(task'[u])
       PROVE  Port(task'[u]) \in listening' /\ p # Port(task'[u])
  BY <1>1, <1>5, <1>10, <1>11 DEF PortsInv
<1>12. ASSUME NEW u \in Tasks, NEW v \in Tasks, u # v, Holds(task'[u]), Holds(task'[v])
       PROVE  Port(task'[u]) # Port(task'[v])
  BY <1>10, <1>12 DEF PortsInv
<1> QED
  BY <1>4, <1>8, <1>9, <1>11, <1>12 DEF PortsInv

LEMMA TakeKeeps ==
    ASSUME TypeInv, PortsInv, NEW t \in Tasks, Take(t)
    PROVE  TypeInv' /\ PortsInv'
<1> DEFINE e == [task[t] EXCEPT !.taken = slot]
<1>1. /\ At(t, "take") /\ slot' = None /\ After(t, IF slot = None THEN 2 ELSE 1, e)
      /\ commands' = commands /\ overlapped' = overlapped /\ unloaded' = unloaded
      /\ db' = db /\ redactor' = redactor /\ listening' = listening /\ ca' = ca
  BY Zenon DEF Take, Same
<1>2. /\ task[t] \in Task /\ task[t].todo # <<>> /\ Here(task[t].todo) = "take"
      /\ Steady(task[t].todo) /\ TaskOK(task[t])
  BY <1>1, AtIs, Zenon
<1>3. slot \in Slot \cup {None}
  BY Types
<1>4. /\ e \in Task /\ e.todo = task[t].todo /\ e.cfg = task[t].cfg
      /\ e.rules = task[t].rules /\ e.taken = slot
  BY <1>2, <1>3 DEF Task
<1> HIDE DEF e
<1>5. slot' \in Slot \cup {None}
  BY <1>1
<1>6. CASE slot = None
  <2>1. After(t, 2, e)
    BY <1>1, <1>6, Zenon
  <2>2. /\ 2 \in 0 .. Len(e.todo) /\ Steady(Drop(e.todo, 2))
        /\ Here(Drop(e.todo, 2)) \in {"none", "check", "regenerate"}
    BY <1>2, <1>4, SkipStop, Zenon
  <2>3. task \in [Tasks -> Task]
    BY DEF TypeInv, TypeOK
  <2>4. /\ task' \in [Tasks -> Task] /\ \A u \in Tasks : u # t => task'[u] = task[u]
        /\ task'[t].todo = Drop(e.todo, 2)
    BY <1>4, <2>1, <2>2, <2>3, AfterIs, Zenon
  <2> DEFINE f == task'[t]
  <2>5. Steady(f.todo) /\ Here(f.todo) \in {"none", "check", "regenerate"}
    BY <2>2, <2>4, Zenon
  <2> HIDE DEF f
  <2>6. TaskOK(f) /\ ~Holds(f)
    BY <2>5 DEF TaskOK, Holds, Configured
  <2>7. TypeInv'
    BY <1>1, <1>5, <2>4, <2>6, Types, TypeFrom, Zenon DEF f
  <2>8. PortsInv'
    BY <1>1, <2>4, <2>6, PortsFrom, Zenon DEF f
  <2> QED
    BY <2>7, <2>8
<1>7. CASE slot # None
  <2>1. After(t, 1, e) /\ e.taken \in Slot
    BY <1>1, <1>3, <1>4, <1>7
  <2>2. "take" # "read settings" /\ "take" # "read rules"
    OBVIOUS
  <2>3. /\ task' \in [Tasks -> Task] /\ \A u \in Tasks : u # t => task'[u] = task[u]
        /\ TaskOK(task'[t]) /\ task'[t].todo = Drop(task[t].todo, 1) /\ task'[t].taken = slot
    <3>1. /\ At(t, "take") /\ e \in Task /\ e.todo = task[t].todo /\ e.cfg = task[t].cfg
          /\ e.rules = task[t].rules
      BY <1>1, <1>4
    <3>2. /\ task' \in [Tasks -> Task] /\ \A u \in Tasks : u # t => task'[u] = task[u]
          /\ TaskOK(task'[t]) /\ task'[t].todo = Drop(task[t].todo, 1)
          /\ task'[t].taken = e.taken
      <4> DEFINE x == "take"
      <4>1. At(t, x) /\ x # "read settings" /\ x # "read rules"
        BY <2>2, <3>1
      <4> HIDE DEF x
      <4> QED
        BY <2>1, <3>1, <4>1, OneStep, ZenonT(60)
    <3> QED
      BY <1>4, <3>2, Zenon
  <2>4. Follows("take", Here(task'[t].todo))
    BY <1>2, <2>3, NextIs, Zenon
  <2>5. Here(task'[t].todo) = "shutdown"
    BY <2>4 DEF Follows
  <2>6. Here(task'[t].todo) # "publish"
    BY <2>5
  <2>7. Port(task'[t]) = slot.port
    BY <2>3, <2>6, Zenon DEF Port
  <2>8. TypeInv'
    BY <1>1, <1>5, <2>3, Types, TypeFrom, Zenon
  <2>9. ASSUME NEW u \in Tasks, u # t, Holds(task'[u])
        PROVE  Port(task'[u]) \in listening' /\ Port(task'[u]) # slot.port
    BY <1>1, <1>7, <2>3, <2>9 DEF PortsInv
  <2>10. slot.port \in listening'
    BY <1>1, <1>7 DEF PortsInv
  <2>11. ASSUME NEW u \in Tasks, Holds(task'[u]) PROVE Port(task'[u]) \in listening'
    BY <2>7, <2>9, <2>10, <2>11
  <2>12. ASSUME NEW u \in Tasks, NEW v \in Tasks, u # v, Holds(task'[u]), Holds(task'[v])
         PROVE  Port(task'[u]) # Port(task'[v])
    <3>1. CASE u # t /\ v # t
      BY <2>3, <2>12, <3>1 DEF PortsInv
    <3>2. CASE u = t
      BY <2>7, <2>9, <2>12, <3>2
    <3>3. CASE v = t
      BY <2>7, <2>9, <2>12, <3>3
    <3> QED
      BY <3>1, <3>2, <3>3
  <2> QED
    BY <1>1, <2>8, <2>11, <2>12 DEF PortsInv
<1> QED
  BY <1>6, <1>7

LEMMA ShutdownKeeps ==
    ASSUME TypeInv, PortsInv, NEW t \in Tasks, Shutdown(t)
    PROVE  TypeInv' /\ PortsInv'
<1> DEFINE p == task[t].taken.port
<1>1. /\ At(t, "shutdown") /\ Done(t) /\ listening' = listening \ {p}
      /\ commands' = commands /\ overlapped' = overlapped /\ unloaded' = unloaded
      /\ db' = db /\ redactor' = redactor /\ slot' = slot /\ ca' = ca
  BY Zenon DEF Shutdown, Same
<1>2. Here(task[t].todo) = "shutdown"
  BY <1>1, AtIs, Zenon
<1>3. Holds(task[t]) /\ Port(task[t]) = p
  <2>1. Here(task[t].todo) # "publish"
    BY <1>2
  <2> QED
    BY <1>2, <2>1, Zenon DEF Holds, Port
<1> HIDE DEF p
<1>4. "shutdown" # "take" /\ "shutdown" # "read settings" /\ "shutdown" # "read rules"
      /\ "shutdown" # "bind"
  OBVIOUS
<1>5. /\ task' \in [Tasks -> Task] /\ \A u \in Tasks : u # t => task'[u] = task[u]
      /\ TaskOK(task'[t]) /\ ~Holds(task'[t])
  BY <1>1, <1>4, DoneStep, Zenon
<1>6. listening' \subseteq Ports
  BY <1>1, Types
<1>7. TypeInv'
  BY <1>1, <1>5, <1>6, Types, TypeFrom, Zenon
<1>8. ASSUME NEW u \in Tasks, Holds(task'[u])
      PROVE  u # t /\ Holds(task[u]) /\ Port(task'[u]) = Port(task[u])
  BY <1>5, <1>8, Zenon
<1>9. slot' # None => slot'.port \in listening'
  BY <1>1, <1>3 DEF PortsInv
<1>10. ASSUME NEW u \in Tasks, Holds(task'[u])
       PROVE  Port(task'[u]) \in listening' /\ (slot' # None => slot'.port # Port(task'[u]))
  <2>1. Port(task[u]) # p
    BY <1>3, <1>8, <1>10 DEF PortsInv
  <2> QED
    BY <1>1, <1>8, <1>10, <2>1 DEF PortsInv
<1>11. ASSUME NEW u \in Tasks, NEW v \in Tasks, u # v, Holds(task'[u]), Holds(task'[v])
       PROVE  Port(task'[u]) # Port(task'[v])
  BY <1>8, <1>11 DEF PortsInv
<1> QED
  BY <1>7, <1>9, <1>10, <1>11 DEF PortsInv
-----------------------------------------------------------------------------
LEMMA InitInv == Init => TypeInv /\ PortsInv
<1> SUFFICES ASSUME Init PROVE TypeInv /\ PortsInv
  OBVIOUS
<1>1. Idle \in Task /\ Idle.todo = <<>>
  BY DEF Idle, Task
<1>2. task = [t \in Tasks |-> Idle] /\ slot = None /\ listening = {}
  BY DEF Init
<1>3. task \in [Tasks -> Task] /\ \A t \in Tasks : task[t] = Idle
  BY <1>1, <1>2
<1>4. TypeOK
  <2>1. db \in Settings /\ redactor = [map |-> db.rules, detector |-> db.rules]
    BY Zenon DEF Init
  <2>2. db.rules \in RuleSets
    BY <2>1 DEF Settings
  <2>3. redactor \in [map : RuleSets, detector : RuleSets]
    BY <2>1, <2>2
  <2>4. ca = [made |-> 0, disk |-> 0, memory |-> 0]
    BY Zenon DEF Init
  <2>5. ca \in [made : Nat, disk : Nat \cup {None}, memory : Nat]
    BY <2>4
  <2>6. commands \in Nat
    BY DEF Init
  <2>7. overlapped \in BOOLEAN /\ unloaded \in BOOLEAN
    BY Zenon DEF Init
  <2>8. slot \in Slot \cup {None} /\ listening \subseteq Ports
    BY <1>2
  <2> QED
    BY <1>3, <2>1, <2>3, <2>5, <2>6, <2>7, <2>8, Zenon DEF TypeOK
<1>5. TaskOK(Idle) /\ ~Holds(Idle)
  <2>1. Here(Idle.todo) = "none"
    BY <1>1 DEF Here
  <2>2. ~Configured(Idle.todo)
    BY <2>1 DEF Configured
  <2> QED
    BY <1>1, <2>1, <2>2, EmptySteady DEF TaskOK, Holds
<1> QED
  BY <1>2, <1>3, <1>4, <1>5, Zenon DEF TypeInv, PortsInv

LEMMA NextInv == TypeInv /\ PortsInv /\ [Next]_vars => TypeInv' /\ PortsInv'
<1> SUFFICES ASSUME TypeInv, PortsInv, [Next]_vars PROVE TypeInv' /\ PortsInv'
  OBVIOUS
<1>1. CASE UNCHANGED vars
  <2>1. /\ db' = db /\ redactor' = redactor /\ slot' = slot /\ listening' = listening
        /\ ca' = ca /\ task' = task /\ commands' = commands /\ overlapped' = overlapped
        /\ unloaded' = unloaded
    BY <1>1, Zenon DEF vars
  <2>2. TypeInv'
    BY <2>1, Zenon DEF TypeInv, TypeOK
  <2>3. PortsInv'
    BY <2>1, Zenon DEF PortsInv
  <2> QED
    BY <2>2, <2>3
<1>2. CASE Next
  <2>1. PICK t \in Tasks :
          \/ ProxyCommand(t) \/ RegenerateCa(t) \/ ImportRules(t)
          \/ \E s \in Settings : SaveSettings(t, s)
          \/ \E rules \in RuleSets : ChangeRules(t, rules)
          \/ \E rules \in RuleSets : Upsert(t, rules)
          \/ UpsertFails(t)
          \/ FollowUp(t) \/ Check(t) \/ ReadSettings(t)
          \/ ReadRules(t) \/ SetMap(t) \/ SetDetector(t)
          \/ Bind(t) \/ BindFails(t) \/ Publish(t) \/ Push(t)
          \/ Take(t) \/ Shutdown(t)
          \/ Regenerate(t) \/ RegenerateFails(t) \/ ReplaceCa(t)
    BY <1>2, Zenon DEF Next
  <2>2. CASE ProxyCommand(t) \/ RegenerateCa(t) \/ ImportRules(t)
    BY <2>2, ProxyCommandOpens, RegenerateCaOpens, ImportRulesOpens, OpensKeeps, Zenon
  <2>3. CASE \E s \in Settings : SaveSettings(t, s)
    BY <2>3, SaveSettingsOpens, OpensKeeps, Zenon
  <2>4. CASE \E rules \in RuleSets : ChangeRules(t, rules) \/ Upsert(t, rules)
    BY <2>4, ChangeRulesOpens, OpensKeeps, UpsertKeeps, Zenon
  <2>5. CASE UpsertFails(t) \/ FollowUp(t) \/ Check(t) \/ ReadSettings(t)
    BY <2>5, UpsertFailsKeeps, FollowUpKeeps, CheckKeeps, ReadSettingsKeeps, Zenon
  <2>6. CASE ReadRules(t) \/ SetMap(t) \/ SetDetector(t)
    BY <2>6, ReadRulesKeeps, SetMapKeeps, SetDetectorKeeps, Zenon
  <2>7. CASE Bind(t) \/ BindFails(t) \/ Publish(t) \/ Push(t)
    BY <2>7, BindKeeps, BindFailsKeeps, PublishKeeps, PushKeeps, Zenon
  <2>8. CASE Take(t) \/ Shutdown(t)
    BY <2>8, TakeKeeps, ShutdownKeeps, Zenon
  <2>9. CASE Regenerate(t) \/ RegenerateFails(t) \/ ReplaceCa(t)
    BY <2>9, RegenerateKeeps, RegenerateFailsKeeps, ReplaceCaKeeps, Zenon
  <2> QED
    BY <2>1, <2>2, <2>3, <2>4, <2>5, <2>6, <2>7, <2>8, <2>9, Zenon
<1> QED
  BY <1>1, <1>2
-----------------------------------------------------------------------------
\* Commands one at a time: what a command has ahead of it.
LEMMA Ahead ==
    ASSUME NEW todo, Steady(todo), todo # <<>>, NEW r, r = Drop(todo, 1), NEW x
    PROVE  /\ Nth(todo, 2, x) => Here(r) = x
           /\ Here(r) = x /\ x # "none" => Nth(todo, 2, x)
           /\ Nth(todo, 3, x) => Nth(r, 2, x)
<1>1. todo \in Seq(Steps) /\ 1 \in 0 .. Len(todo)
  BY SecondStep, Zenon
<1>2. /\ r \in Seq(Steps) /\ Len(r) = Len(todo) - 1
      /\ \A i \in 1 .. Len(r) : r[i] = todo[i + 1]
  BY <1>1, DropIs
<1>3. r # <<>> => Here(r) = r[1]
  BY Zenon DEF Here
<1>4. r = <<>> => Here(r) = "none"
  BY Zenon DEF Here
<1>5. r # <<>> <=> Len(todo) >= 2
  BY <1>1, <1>2
<1>6. r # <<>> => r[1] = todo[2]
  BY <1>1, <1>2, <1>5
<1>7. Nth(todo, 2, x) <=> r # <<>> /\ r[1] = x
  BY <1>5, <1>6, Zenon DEF Nth
<1>8. Nth(todo, 3, x) => Nth(r, 2, x)
  BY <1>1, <1>2 DEF Nth
<1> QED
  BY <1>3, <1>4, <1>7, <1>8, Zenon

LEMMA SevenIs == 1 + 6 = 7
  OBVIOUS

LEMMA SevenSteps ==
    ASSUME NEW S, NEW todo \in Seq(S), 7 \in 0 .. Len(todo), Path(todo)
    PROVE  /\ Leads(todo[3], todo[4]) /\ Leads(todo[4], todo[5]) /\ Leads(todo[5], todo[6])
           /\ Leads(todo[6], todo[7]) /\ 3 \in 1 .. Len(todo) /\ Len(todo) >= 3
<1>1. /\ 3 \in 1 .. Len(todo) /\ 4 \in 1 .. Len(todo) /\ 5 \in 1 .. Len(todo)
      /\ 6 \in 1 .. Len(todo) /\ 7 \in 1 .. Len(todo) /\ Len(todo) >= 3
  OBVIOUS
<1>2. 4 = 3 + 1 /\ 5 = 4 + 1 /\ 6 = 5 + 1 /\ 7 = 6 + 1
  OBVIOUS
<1> QED
  BY <1>1, <1>2, Zenon DEF Path

\* start_proxy loads the rules before it binds the port.
LEMMA CheckLoads ==
    ASSUME NEW todo, Steady(todo), todo # <<>>, Here(todo) = "check"
    PROVE  Nth(todo, 3, "read rules")
<1>1. todo \in Seq(Steps) /\ 1 \in 1 .. Len(todo) /\ todo[1] = "check"
  BY HereNext, SecondStep, Zenon
<1>2. 1 + 6 \in 1 .. Len(todo) /\ todo[1 + 6] = "publish"
  BY <1>1, Zenon DEF Steady, Later
<1>3. 7 \in 0 .. Len(todo)
  BY SkipStart, Zenon
<1>4. Path(todo)
  BY DEF Steady
<1>5. /\ Leads(todo[3], todo[4]) /\ Leads(todo[4], todo[5]) /\ Leads(todo[5], todo[6])
      /\ Leads(todo[6], todo[7]) /\ 3 \in 1 .. Len(todo) /\ Len(todo) >= 3
  BY <1>1, <1>3, <1>4, SevenSteps, Zenon
<1>6. todo[7] = "publish"
  BY <1>2, SevenIs, Zenon
<1>7. todo[6] = "bind"
  BY <1>5, <1>6 DEF Leads
<1>8. todo[5] = "set detector"
  BY <1>5, <1>7 DEF Leads
<1>9. todo[4] = "set map"
  BY <1>5, <1>8 DEF Leads
<1>10. todo[3] = "read rules"
  BY <1>5, <1>9 DEF Leads
<1> QED
  BY <1>5, <1>10, Zenon DEF Nth

\* At rest it does not matter which command was the last.
LEMMA AtRest ==
    ASSUME NEW e, e.todo = <<>>, NEW s, NEW l, NEW d, NEW c, NEW r
    PROVE  /\ Here(e.todo) = "none" /\ Here(Idle.todo) = "none"
           /\ Tidy("none", e, s, l) => Tidy("none", Idle, s, l)
           /\ Matches("none", e, s, d, c) => Matches("none", Idle, s, d, c)
           /\ Fresh("none", e, s, d, r) => Fresh("none", Idle, s, d, r)
<1>1. Idle.todo = <<>>
  BY DEF Idle
<1>2. Here(e.todo) = "none" /\ Here(Idle.todo) = "none"
  BY <1>1 DEF Here
<1>3. ~Has(Idle.todo, "bind")
  BY <1>1 DEF Has
<1>4. Tidy("none", e, s, l) => Tidy("none", Idle, s, l)
  BY <1>3 DEF Tidy
<1>5. ~Configured(Idle.todo)
  BY <1>2 DEF Configured
<1>6. Matches("none", e, s, d, c) => Matches("none", Idle, s, d, c)
  BY <1>5 DEF Matches
<1>7. Fresh("none", e, s, d, r) => Fresh("none", Idle, s, d, r)
  BY DEF Fresh
<1> QED
  BY <1>2, <1>4, <1>6, <1>7

\* The state after a step of t, when no other command runs.
LEMMA AloneFrom ==
    ASSUME NEW t \in Tasks, \A u \in Tasks : u # t => task'[u] = task[u],
           ~overlapped' => ~overlapped,
           ~overlapped' => \A u \in Tasks : u # t => ~Busy(u),
           ~overlapped' =>
              /\ Tidy(Here(task'[t].todo), task'[t], slot', listening')
              /\ Matches(Here(task'[t].todo), task'[t], slot', db', ca')
              /\ unloaded' \/ Fresh(Here(task'[t].todo), task'[t], slot', db', redactor')
    PROVE  OneInv'
<1> SUFFICES ASSUME ~overlapped'
             PROVE  /\ Alone'
                    /\ ((\A u \in Tasks : ~Busy(u)) => Good(Idle))'
                    /\ (\A u \in Tasks : Busy(u) => Good(task[u]))'
  BY Zenon DEF OneInv
<1>1. \A u \in Tasks : u # t => ~(Busy(u))'
  BY Zenon DEF Busy
<1>2. Alone'
  BY <1>1, Zenon DEF Alone
<1>3. Good(task[t])'
  BY Zenon DEF Good
<1>4. (\A u \in Tasks : Busy(u) => Good(task[u]))'
  BY <1>1, <1>3, Zenon
<1>5. ASSUME (\A u \in Tasks : ~Busy(u))' PROVE Good(Idle)'
  <2>1. task'[t].todo = <<>>
    BY <1>5, Zenon DEF Busy
  <2>2. Here(task'[t].todo) = "none" /\ Here(Idle.todo) = "none"
    BY <2>1, AtRest, Zenon
  <2>3. Tidy("none", Idle, slot', listening')
    BY <2>1, <2>2, AtRest, Zenon
  <2>4. Matches("none", Idle, slot', db', ca')
    BY <2>1, <2>2, AtRest, Zenon
  <2>5. unloaded' \/ Fresh("none", Idle, slot', db', redactor')
    BY <2>1, <2>2, AtRest, Zenon
  <2> QED
    BY <2>2, <2>3, <2>4, <2>5, Zenon DEF Good
<1> QED
  BY <1>2, <1>4, <1>5

\* What a command finds at its step, and how the next one is reached.
LEMMA AloneAt ==
    ASSUME TypeInv, OneInv, NEW t \in Tasks, NEW x, At(t, x)
    PROVE  ~overlapped =>
              /\ \A u \in Tasks : u # t => ~Busy(u)
              /\ Tidy(x, task[t], slot, listening)
              /\ Matches(x, task[t], slot, db, ca)
              /\ unloaded \/ Fresh(x, task[t], slot, db, redactor)
<1> SUFFICES ASSUME ~overlapped
             PROVE  /\ \A u \in Tasks : u # t => ~Busy(u)
                    /\ Tidy(x, task[t], slot, listening)
                    /\ Matches(x, task[t], slot, db, ca)
                    /\ unloaded \/ Fresh(x, task[t], slot, db, redactor)
  BY Zenon
<1>1. Busy(t)
  BY Zenon DEF At
<1>2. Alone /\ Good(task[t])
  BY <1>1, Zenon DEF OneInv
<1>3. Here(task[t].todo) = x
  BY AtIs, Zenon
<1>4. \A u \in Tasks : u # t => ~Busy(u)
  BY <1>1, <1>2, Zenon DEF Alone
<1> QED
  BY <1>2, <1>3, <1>4, Zenon DEF Good

\* What is known of the rest of a command, e, after a step x of it has left f.
Rest(x, e, f, g) ==
    /\ Follows(x, g)
    /\ Has(f.todo, "bind") => Has(e.todo, "bind")
    /\ x = "bind" => ~Has(f.todo, "bind")
    /\ \A y : Nth(e.todo, 2, y) => g = y
    /\ \A y : g = y /\ y # "none" => Nth(e.todo, 2, y)
    /\ \A y : Nth(e.todo, 3, y) => Nth(f.todo, 2, y)

LEMMA Onward ==
    ASSUME TypeInv, NEW t \in Tasks, NEW x, At(t, x), NEW f, f.todo = Drop(task[t].todo, 1)
    PROVE  Rest(x, task[t], f, Here(f.todo))
<1> DEFINE todo == task[t].todo
<1>1. todo # <<>> /\ Here(todo) = x /\ Steady(todo) /\ todo[1] = x
  BY AtIs, HereNext, Zenon
<1>2. todo \in Seq(Steps) /\ 1 \in 1 .. Len(todo) /\ 1 \in 0 .. Len(todo)
  BY <1>1, SecondStep, Zenon
<1>3. Follows(x, Here(f.todo))
  BY <1>1, NextIs, Zenon
<1>4. Has(f.todo, "bind") => Has(todo, "bind")
  BY <1>2, DropHas, Zenon
<1>5. x = "bind" => ~Has(f.todo, "bind")
  <2>1. Once(todo, "bind")
    BY <1>1, Zenon DEF Steady
  <2>2. 1 \in 1 .. 1
    OBVIOUS
  <2> QED
    BY <1>1, <1>2, <2>1, <2>2, DropOnce, Zenon
<1>6. \A y : /\ Nth(todo, 2, y) => Here(f.todo) = y
             /\ Here(f.todo) = y /\ y # "none" => Nth(todo, 2, y)
             /\ Nth(todo, 3, y) => Nth(f.todo, 2, y)
  BY <1>1, Ahead, Zenon
<1> QED
  BY <1>3, <1>4, <1>5, <1>6, Zenon DEF Rest

LEMMA SetMapAlone ==
    ASSUME TypeInv, OneInv, NEW t \in Tasks, SetMap(t)
    PROVE  OneInv'
<1> DEFINE e == task[t]  f == task'[t]  g == Here(f.todo)
<1>1. /\ At(t, "set map") /\ Done(t)
      /\ redactor' = [redactor EXCEPT !.map = task[t].rules]
      /\ commands' = commands /\ overlapped' = overlapped /\ unloaded' = unloaded
      /\ db' = db /\ slot' = slot /\ listening' = listening /\ ca' = ca
  BY Zenon DEF SetMap, Same
<1>2. /\ \A u \in Tasks : u # t => task'[u] = task[u]
      /\ f.todo = Drop(e.todo, 1) /\ f.cfg = e.cfg
      /\ f.rules = e.rules /\ f.old = e.old /\ f.taken = e.taken /\ f.ca = e.ca
  <2>1. "set map" # "read settings" /\ "set map" # "read rules" /\ "set map" # "take"
    OBVIOUS
  <2> QED
    BY <1>1, <2>1, DoneStep, Zenon
<1>3. Rest("set map", e, f, g)
  BY <1>1, <1>2, Onward, Zenon
<1>10. redactor'.map = e.rules
  BY <1>1, Types
<1> SUFFICES ASSUME ~overlapped
             PROVE  /\ Tidy(g, f, slot', listening')
                    /\ Matches(g, f, slot', db', ca')
                    /\ unloaded' \/ Fresh(g, f, slot', db', redactor')
  BY <1>1, <1>2, AloneFrom, AloneAt, Zenon
<1>4. /\ Tidy("set map", e, slot, listening)
      /\ Matches("set map", e, slot, db, ca)
      /\ unloaded \/ Fresh("set map", e, slot, db, redactor)
  BY <1>1, AloneAt, Zenon
<1>5. Configured(f.todo) <=>
          (g \in {"publish", "push"}
           \/ (g \in {"read rules", "set map", "set detector", "bind"} /\ Has(f.todo, "bind")))
  BY DEF Configured
<1>6. Configured(e.todo) <=> Has(e.todo, "bind")
  <2>1. Here(e.todo) = "set map"
    BY <1>1, AtIs, Zenon
  <2> QED
    BY <2>1 DEF Configured
<1> HIDE DEF e, f, g
<1>7. Tidy(g, f, slot', listening')
  BY <1>1, <1>2, <1>3, <1>4 DEF Tidy, Follows, Rest
<1>8. Matches(g, f, slot', db', ca')
  BY <1>1, <1>2, <1>3, <1>4, <1>5, <1>6 DEF Matches, Tidy, Follows, Rest
<1>9. unloaded' \/ Fresh(g, f, slot', db', redactor')
  BY <1>1, <1>2, <1>3, <1>4, <1>10 DEF Fresh, With, Follows, Rest
<1> QED
  BY <1>7, <1>8, <1>9

LEMMA SetDetectorAlone ==
    ASSUME TypeInv, OneInv, NEW t \in Tasks, SetDetector(t)
    PROVE  OneInv'
<1> DEFINE e == task[t]  f == task'[t]  g == Here(f.todo)
<1>1. /\ At(t, "set detector") /\ Done(t)
      /\ redactor' = [redactor EXCEPT !.detector = task[t].rules]
      /\ commands' = commands /\ overlapped' = overlapped /\ unloaded' = unloaded
      /\ db' = db /\ slot' = slot /\ listening' = listening /\ ca' = ca
  BY Zenon DEF SetDetector, Same
<1>2. /\ \A u \in Tasks : u # t => task'[u] = task[u]
      /\ f.todo = Drop(e.todo, 1) /\ f.cfg = e.cfg
      /\ f.rules = e.rules /\ f.old = e.old /\ f.taken = e.taken /\ f.ca = e.ca
  <2>1. "set detector" # "read settings" /\ "set detector" # "read rules" /\ "set detector" # "take"
    OBVIOUS
  <2> QED
    BY <1>1, <2>1, DoneStep, Zenon
<1>3. Rest("set detector", e, f, g)
  BY <1>1, <1>2, Onward, Zenon
<1>10. redactor'.detector = e.rules /\ redactor'.map = redactor.map
  BY <1>1, Types
<1> SUFFICES ASSUME ~overlapped
             PROVE  /\ Tidy(g, f, slot', listening')
                    /\ Matches(g, f, slot', db', ca')
                    /\ unloaded' \/ Fresh(g, f, slot', db', redactor')
  BY <1>1, <1>2, AloneFrom, AloneAt, Zenon
<1>4. /\ Tidy("set detector", e, slot, listening)
      /\ Matches("set detector", e, slot, db, ca)
      /\ unloaded \/ Fresh("set detector", e, slot, db, redactor)
  BY <1>1, AloneAt, Zenon
<1>5. Configured(f.todo) <=>
          (g \in {"publish", "push"}
           \/ (g \in {"read rules", "set map", "set detector", "bind"} /\ Has(f.todo, "bind")))
  BY DEF Configured
<1>6. Configured(e.todo) <=> Has(e.todo, "bind")
  <2>1. Here(e.todo) = "set detector"
    BY <1>1, AtIs, Zenon
  <2> QED
    BY <2>1 DEF Configured
<1> HIDE DEF e, f, g
<1>7. Tidy(g, f, slot', listening')
  BY <1>1, <1>2, <1>3, <1>4 DEF Tidy, Follows, Rest
<1>8. Matches(g, f, slot', db', ca')
  BY <1>1, <1>2, <1>3, <1>4, <1>5, <1>6 DEF Matches, Tidy, Follows, Rest
<1>9. unloaded' \/ Fresh(g, f, slot', db', redactor')
  BY <1>1, <1>2, <1>3, <1>4, <1>10 DEF Fresh, With, Follows, Rest
<1> QED
  BY <1>7, <1>8, <1>9

LEMMA FourLeft ==
    ASSUME NEW S, NEW s \in Seq(S), Len(s) - 1 \in {3, 4}, NEW n, n = Len(s) - 1, n - 1 \in {3, 4}
    PROVE  n = 4
  OBVIOUS

LEMMA UpsertBinds ==
    ASSUME NEW todo, Steady(todo), todo # <<>>, Here(todo) = "upsert" PROVE ~Has(todo, "bind")
<1>1. Has(todo, "upsert")
  BY HereNext, Zenon DEF Has
<1> QED
  BY <1>1, Zenon DEF Steady

LEMMA PushBinds ==
    ASSUME NEW todo, Steady(todo), todo # <<>>, Here(todo) = "push" PROVE ~Has(todo, "bind")
<1>1. Has(todo, "push")
  BY HereNext, Zenon DEF Has
<1> QED
  BY <1>1, Zenon DEF Steady

\* An import of two rules has one left after the first.
LEMMA UpsertLeft ==
    ASSUME TypeInv, NEW t \in Tasks, At(t, "upsert"), NEW f, f.todo = Drop(task[t].todo, 1),
           Here(f.todo) = "upsert"
    PROVE  Len(f.todo) = 4
<1> DEFINE todo == task[t].todo  r == f.todo
<1>1. todo # <<>> /\ Here(todo) = "upsert" /\ Steady(todo) /\ todo[1] = "upsert" /\ Steady(r)
  BY AtIs, HereNext, Zenon
<1>2. todo \in Seq(Steps) /\ 1 \in 1 .. Len(todo) /\ 1 \in 0 .. Len(todo)
  BY <1>1, SecondStep, Zenon
<1>3. Len(todo) - 1 \in {3, 4}
  BY <1>1, <1>2, Zenon DEF Steady, Upserts
<1>4. "upsert" # "none"
  OBVIOUS
<1>5. r # <<>>
  BY <1>4, Zenon DEF Here
<1>6. r[1] = "upsert" /\ 1 \in 1 .. Len(r)
  BY <1>1, <1>5, HereNext, Zenon
<1>7. Len(r) - 1 \in {3, 4}
  BY <1>1, <1>6, Zenon DEF Steady, Upserts
<1>8. Len(r) = Len(todo) - 1
  BY <1>2, DropIs, ZenonT(60)
<1> QED
  BY <1>2, <1>3, <1>7, <1>8, FourLeft, Zenon

LEMMA UpsertAlone ==
    ASSUME TypeInv, OneInv, NEW t \in Tasks, NEW rules \in RuleSets, Upsert(t, rules)
    PROVE  OneInv'
<1> DEFINE e == task[t]  f == task'[t]  g == Here(f.todo)
<1>1. /\ At(t, "upsert") /\ Done(t)
      /\ db' = [db EXCEPT !.rules = rules]
      /\ commands' = commands /\ overlapped' = overlapped /\ unloaded' = unloaded
      /\ redactor' = redactor /\ slot' = slot /\ listening' = listening /\ ca' = ca
  BY Zenon DEF Upsert, Same
<1>2. /\ \A u \in Tasks : u # t => task'[u] = task[u]
      /\ f.todo = Drop(e.todo, 1) /\ f.cfg = e.cfg
      /\ f.rules = e.rules /\ f.old = e.old /\ f.taken = e.taken /\ f.ca = e.ca
  <2>1. "upsert" # "read settings" /\ "upsert" # "read rules" /\ "upsert" # "take"
    OBVIOUS
  <2> QED
    BY <1>1, <2>1, DoneStep, Zenon
<1>3. Rest("upsert", e, f, g)
  BY <1>1, <1>2, Onward, Zenon
<1>10. db'.port = db.port /\ db'.options = db.options
  BY <1>1, Types DEF Settings
<1>11. ~Has(e.todo, "bind")
  BY <1>1, AtIs, UpsertBinds, Zenon
<1>12. g = "upsert" => Len(f.todo) = 4
  BY <1>1, <1>2, UpsertLeft, Zenon
<1> SUFFICES ASSUME ~overlapped
             PROVE  /\ Tidy(g, f, slot', listening')
                    /\ Matches(g, f, slot', db', ca')
                    /\ unloaded' \/ Fresh(g, f, slot', db', redactor')
  BY <1>1, <1>2, AloneFrom, AloneAt, Zenon
<1>4. /\ Tidy("upsert", e, slot, listening)
      /\ Matches("upsert", e, slot, db, ca)
      /\ unloaded \/ Fresh("upsert", e, slot, db, redactor)
  BY <1>1, AloneAt, Zenon
<1>5. Configured(f.todo) <=>
          (g \in {"publish", "push"}
           \/ (g \in {"read rules", "set map", "set detector", "bind"} /\ Has(f.todo, "bind")))
  BY DEF Configured
<1>6. Configured(e.todo) <=> FALSE
  <2>1. Here(e.todo) = "upsert"
    BY <1>1, AtIs, Zenon
  <2> QED
    BY <2>1 DEF Configured
<1> HIDE DEF e, f, g
<1>7. Tidy(g, f, slot', listening')
  BY <1>1, <1>2, <1>3, <1>4, <1>11 DEF Tidy, Follows, Rest
<1>8. Matches(g, f, slot', db', ca')
  BY <1>1, <1>2, <1>3, <1>4, <1>5, <1>6, <1>10, <1>11 DEF Matches, Tidy, Follows, Rest
<1>9. unloaded' \/ Fresh(g, f, slot', db', redactor')
  BY <1>1, <1>2, <1>3, <1>4, <1>12 DEF Fresh, With, Follows, Rest
<1> QED
  BY <1>7, <1>8, <1>9

LEMMA PushAlone ==
    ASSUME TypeInv, OneInv, NEW t \in Tasks, Push(t)
    PROVE  OneInv'
<1> DEFINE e == task[t]  f == task'[t]  g == Here(f.todo)
<1>1. /\ At(t, "push") /\ Done(t)
      /\ slot' = IF slot = None THEN None ELSE [slot EXCEPT !.options = task[t].cfg.options]
      /\ commands' = commands /\ overlapped' = overlapped /\ unloaded' = unloaded
      /\ db' = db /\ redactor' = redactor /\ listening' = listening /\ ca' = ca
  BY Zenon DEF Push, Same
<1>2. /\ \A u \in Tasks : u # t => task'[u] = task[u]
      /\ f.todo = Drop(e.todo, 1) /\ f.cfg = e.cfg
      /\ f.rules = e.rules /\ f.old = e.old /\ f.taken = e.taken /\ f.ca = e.ca
  <2>1. "push" # "read settings" /\ "push" # "read rules" /\ "push" # "take"
    OBVIOUS
  <2> QED
    BY <1>1, <2>1, DoneStep, Zenon
<1>3. Rest("push", e, f, g)
  BY <1>1, <1>2, Onward, Zenon
<1>10. slot = None => slot' = None
  BY <1>1
<1>11. slot # None => /\ slot'.port = slot.port /\ slot'.options = e.cfg.options
                      /\ slot'.ca = slot.ca /\ slot' # None
  <2> SUFFICES ASSUME slot # None
               PROVE  /\ slot'.port = slot.port /\ slot'.options = e.cfg.options
                      /\ slot'.ca = slot.ca /\ slot' # None
    OBVIOUS
  <2>1. task[t].cfg \in Settings
    BY <1>1, AtIs DEF TaskOK, Configured
  <2>2. task[t].cfg.options \in Options
    BY <2>1 DEF Settings
  <2>3. slot' = [slot EXCEPT !.options = e.cfg.options] /\ slot \in Slot
    BY <1>1, Types
  <2>4. slot' \in Slot
    BY <2>2, <2>3 DEF Slot
  <2> QED
    BY <2>3, <2>4, ControlAssumption DEF Slot
<1>12. ~Has(e.todo, "bind")
  BY <1>1, AtIs, PushBinds, Zenon
<1> SUFFICES ASSUME ~overlapped
             PROVE  /\ Tidy(g, f, slot', listening')
                    /\ Matches(g, f, slot', db', ca')
                    /\ unloaded' \/ Fresh(g, f, slot', db', redactor')
  BY <1>1, <1>2, AloneFrom, AloneAt, Zenon
<1>4. /\ Tidy("push", e, slot, listening)
      /\ Matches("push", e, slot, db, ca)
      /\ unloaded \/ Fresh("push", e, slot, db, redactor)
  BY <1>1, AloneAt, Zenon
<1>5. Configured(f.todo) <=>
          (g \in {"publish", "push"}
           \/ (g \in {"read rules", "set map", "set detector", "bind"} /\ Has(f.todo, "bind")))
  BY DEF Configured
<1>6. Configured(e.todo) <=> TRUE
  <2>1. Here(e.todo) = "push"
    BY <1>1, AtIs, Zenon
  <2> QED
    BY <2>1 DEF Configured
<1> HIDE DEF e, f, g
<1>7. Tidy(g, f, slot', listening')
  BY <1>1, <1>2, <1>3, <1>4, <1>10, <1>11, <1>12 DEF Tidy, Follows, Rest
<1>8. Matches(g, f, slot', db', ca')
  BY <1>1, <1>2, <1>3, <1>4, <1>5, <1>6, <1>10, <1>11, <1>12 DEF Matches, Tidy, Follows, Rest
<1>9. unloaded' \/ Fresh(g, f, slot', db', redactor')
  BY <1>1, <1>2, <1>3, <1>4, <1>10 DEF Fresh, With, Follows, Rest
<1> QED
  BY <1>7, <1>8, <1>9

LEMMA ReplaceCaAlone ==
    ASSUME TypeInv, OneInv, NEW t \in Tasks, ReplaceCa(t)
    PROVE  OneInv'
<1> DEFINE e == task[t]  f == task'[t]  g == Here(f.todo)
<1>1. /\ At(t, "replace") /\ Done(t)
      /\ ca' = [ca EXCEPT !.memory = task[t].ca]
      /\ commands' = commands /\ overlapped' = overlapped /\ unloaded' = unloaded
      /\ db' = db /\ redactor' = redactor /\ slot' = slot /\ listening' = listening
  BY Zenon DEF ReplaceCa, Same
<1>2. /\ \A u \in Tasks : u # t => task'[u] = task[u]
      /\ f.todo = Drop(e.todo, 1) /\ f.cfg = e.cfg
      /\ f.rules = e.rules /\ f.old = e.old /\ f.taken = e.taken /\ f.ca = e.ca
  <2>1. "replace" # "read settings" /\ "replace" # "read rules" /\ "replace" # "take"
    OBVIOUS
  <2> QED
    BY <1>1, <2>1, DoneStep, Zenon
<1>3. Rest("replace", e, f, g)
  BY <1>1, <1>2, Onward, Zenon
<1>10. ca'.memory = e.ca /\ ca'.disk = ca.disk
  BY <1>1, Types
<1> SUFFICES ASSUME ~overlapped
             PROVE  /\ Tidy(g, f, slot', listening')
                    /\ Matches(g, f, slot', db', ca')
                    /\ unloaded' \/ Fresh(g, f, slot', db', redactor')
  BY <1>1, <1>2, AloneFrom, AloneAt, Zenon
<1>4. /\ Tidy("replace", e, slot, listening)
      /\ Matches("replace", e, slot, db, ca)
      /\ unloaded \/ Fresh("replace", e, slot, db, redactor)
  BY <1>1, AloneAt, Zenon
<1>5. Configured(f.todo) <=>
          (g \in {"publish", "push"}
           \/ (g \in {"read rules", "set map", "set detector", "bind"} /\ Has(f.todo, "bind")))
  BY DEF Configured
<1>6. Configured(e.todo) <=> FALSE
  <2>1. Here(e.todo) = "replace"
    BY <1>1, AtIs, Zenon
  <2> QED
    BY <2>1 DEF Configured
<1> HIDE DEF e, f, g
<1>7. Tidy(g, f, slot', listening')
  BY <1>1, <1>2, <1>3, <1>4 DEF Tidy, Follows, Rest
<1>8. Matches(g, f, slot', db', ca')
  BY <1>1, <1>2, <1>3, <1>4, <1>5, <1>6, <1>10 DEF Matches, Tidy, Follows, Rest
<1>9. unloaded' \/ Fresh(g, f, slot', db', redactor')
  BY <1>1, <1>2, <1>3, <1>4 DEF Fresh, With, Follows, Rest
<1> QED
  BY <1>7, <1>8, <1>9

LEMMA PublishAlone ==
    ASSUME TypeInv, OneInv, NEW t \in Tasks, Publish(t)
    PROVE  OneInv'
<1> DEFINE e == task[t]  f == task'[t]  g == Here(f.todo)
<1>1. /\ At(t, "publish") /\ Done(t)
      /\ slot' = [port |-> task[t].cfg.port, options |-> task[t].cfg.options, ca |-> task[t].ca]
      /\ commands' = commands /\ overlapped' = overlapped /\ unloaded' = unloaded
      /\ db' = db /\ redactor' = redactor /\ listening' = listening /\ ca' = ca
  BY Zenon DEF Publish, Same
<1>2. /\ \A u \in Tasks : u # t => task'[u] = task[u]
      /\ f.todo = Drop(e.todo, 1) /\ f.cfg = e.cfg
      /\ f.rules = e.rules /\ f.old = e.old /\ f.taken = e.taken /\ f.ca = e.ca
  <2>1. "publish" # "read settings" /\ "publish" # "read rules" /\ "publish" # "take"
    OBVIOUS
  <2> QED
    BY <1>1, <2>1, DoneStep, Zenon
<1>3. Rest("publish", e, f, g)
  BY <1>1, <1>2, Onward, Zenon
<1>10. slot' # None /\ slot'.port = e.cfg.port /\ slot'.options = e.cfg.options /\ slot'.ca = e.ca
  <2>1. task[t] \in Task /\ task[t].cfg \in Settings
    BY <1>1, AtIs DEF TaskOK, Configured
  <2>2. task[t].cfg.port \in Ports /\ task[t].cfg.options \in Options /\ task[t].ca \in Nat
    BY <2>1 DEF Settings, Task
  <2>3. slot' \in Slot
    BY <1>1, <2>2 DEF Slot
  <2> QED
    BY <1>1, <2>3, ControlAssumption DEF Slot
<1> SUFFICES ASSUME ~overlapped
             PROVE  /\ Tidy(g, f, slot', listening')
                    /\ Matches(g, f, slot', db', ca')
                    /\ unloaded' \/ Fresh(g, f, slot', db', redactor')
  BY <1>1, <1>2, AloneFrom, AloneAt, Zenon
<1>4. /\ Tidy("publish", e, slot, listening)
      /\ Matches("publish", e, slot, db, ca)
      /\ unloaded \/ Fresh("publish", e, slot, db, redactor)
  BY <1>1, AloneAt, Zenon
<1>5. Configured(f.todo) <=>
          (g \in {"publish", "push"}
           \/ (g \in {"read rules", "set map", "set detector", "bind"} /\ Has(f.todo, "bind")))
  BY DEF Configured
<1>6. Configured(e.todo) <=> TRUE
  <2>1. Here(e.todo) = "publish"
    BY <1>1, AtIs, Zenon
  <2> QED
    BY <2>1 DEF Configured
<1> HIDE DEF e, f, g
<1>7. Tidy(g, f, slot', listening')
  BY <1>1, <1>2, <1>3, <1>4, <1>10 DEF Tidy, Follows, Rest
<1>8. Matches(g, f, slot', db', ca')
  BY <1>1, <1>2, <1>3, <1>4, <1>5, <1>6, <1>10 DEF Matches, Tidy, Follows, Rest
<1>9. unloaded' \/ Fresh(g, f, slot', db', redactor')
  BY <1>1, <1>2, <1>3, <1>4, <1>10 DEF Fresh, With, Follows, Rest
<1> QED
  BY <1>7, <1>8, <1>9

LEMMA ShutdownAlone ==
    ASSUME TypeInv, OneInv, NEW t \in Tasks, Shutdown(t)
    PROVE  OneInv'
<1> DEFINE e == task[t]  f == task'[t]  g == Here(f.todo)
<1>1. /\ At(t, "shutdown") /\ Done(t)
      /\ listening' = listening \ {task[t].taken.port}
      /\ commands' = commands /\ overlapped' = overlapped /\ unloaded' = unloaded
      /\ db' = db /\ redactor' = redactor /\ slot' = slot /\ ca' = ca
  BY Zenon DEF Shutdown, Same
<1>2. /\ \A u \in Tasks : u # t => task'[u] = task[u]
      /\ f.todo = Drop(e.todo, 1) /\ f.cfg = e.cfg
      /\ f.rules = e.rules /\ f.old = e.old /\ f.taken = e.taken /\ f.ca = e.ca
  <2>1. "shutdown" # "read settings" /\ "shutdown" # "read rules" /\ "shutdown" # "take"
    OBVIOUS
  <2> QED
    BY <1>1, <2>1, DoneStep, Zenon
<1>3. Rest("shutdown", e, f, g)
  BY <1>1, <1>2, Onward, Zenon
<1>10. listening' = listening \ {e.taken.port} /\ slot' = slot
  BY <1>1, Zenon
<1>11. ~overlapped => slot = None
  <2>1. ~overlapped => Tidy("shutdown", e, slot, listening)
    BY <1>1, AloneAt, Zenon
  <2> QED
    BY <2>1 DEF Tidy
<1> SUFFICES ASSUME ~overlapped
             PROVE  /\ Tidy(g, f, slot', listening')
                    /\ Matches(g, f, slot', db', ca')
                    /\ unloaded' \/ Fresh(g, f, slot', db', redactor')
  BY <1>1, <1>2, AloneFrom, AloneAt, Zenon
<1>4. /\ Tidy("shutdown", e, slot, listening)
      /\ Matches("shutdown", e, slot, db, ca)
      /\ unloaded \/ Fresh("shutdown", e, slot, db, redactor)
  BY <1>1, AloneAt, Zenon
<1>5. Configured(f.todo) <=>
          (g \in {"publish", "push"}
           \/ (g \in {"read rules", "set map", "set detector", "bind"} /\ Has(f.todo, "bind")))
  BY DEF Configured
<1>6. Configured(e.todo) <=> FALSE
  <2>1. Here(e.todo) = "shutdown"
    BY <1>1, AtIs, Zenon
  <2> QED
    BY <2>1 DEF Configured
<1> HIDE DEF e, f, g
<1>7. Tidy(g, f, slot', listening')
  BY <1>1, <1>2, <1>3, <1>4, <1>10 DEF Tidy, Follows, Rest
<1>8. Matches(g, f, slot', db', ca')
  BY <1>1, <1>2, <1>3, <1>4, <1>5, <1>6 DEF Matches, Tidy, Follows, Rest
<1>9. unloaded' \/ Fresh(g, f, slot', db', redactor')
  BY <1>1, <1>2, <1>3, <1>4, <1>11 DEF Fresh, With, Follows, Rest
<1> QED
  BY <1>7, <1>8, <1>9

LEMMA ReadSettingsAlone ==
    ASSUME TypeInv, OneInv, NEW t \in Tasks, ReadSettings(t)
    PROVE  OneInv'
<1> DEFINE e == task[t]  f == task'[t]  g == Here(f.todo)
<1> DEFINE m == [task[t] EXCEPT !.cfg = db]
<1>1. /\ At(t, "read settings") /\ After(t, 1, m)
      /\ commands' = commands /\ overlapped' = overlapped /\ unloaded' = unloaded
      /\ db' = db /\ redactor' = redactor /\ slot' = slot /\ listening' = listening /\ ca' = ca
  BY Zenon DEF ReadSettings, Same
<1>2. /\ \A u \in Tasks : u # t => task'[u] = task[u]
      /\ f.todo = Drop(e.todo, 1) /\ f.cfg = db
      /\ f.rules = e.rules /\ f.old = e.old /\ f.taken = e.taken /\ f.ca = e.ca
  <2>1. db \in Settings /\ task[t] \in Task
    BY <1>1, Types, AtIs, NextNat
  <2>2. /\ m \in Task /\ m.todo = task[t].todo /\ m.cfg = db
        /\ m.rules = task[t].rules /\ m.old = task[t].old /\ m.taken = task[t].taken /\ m.ca = task[t].ca
    BY <2>1 DEF Task
  <2> HIDE DEF m
  <2>3. "read settings" # "read rules" /\ "read settings" # "take"
    OBVIOUS
  <2>4. /\ \A u \in Tasks : u # t => task'[u] = task[u]
        /\ task'[t].todo = Drop(task[t].todo, 1) /\ task'[t].cfg = m.cfg
        /\ task'[t].rules = m.rules /\ task'[t].old = m.old
        /\ task'[t].taken = m.taken /\ task'[t].ca = m.ca
    BY <1>1, <2>1, <2>2, <2>3, OneStep, Zenon
  <2> QED
    BY <2>2, <2>4, Zenon
<1>3. Rest("read settings", e, f, g)
  BY <1>1, <1>2, Onward, Zenon
<1> SUFFICES ASSUME ~overlapped
             PROVE  /\ Tidy(g, f, slot', listening')
                    /\ Matches(g, f, slot', db', ca')
                    /\ unloaded' \/ Fresh(g, f, slot', db', redactor')
  BY <1>1, <1>2, AloneFrom, AloneAt, Zenon
<1>4. /\ Tidy("read settings", e, slot, listening)
      /\ Matches("read settings", e, slot, db, ca)
      /\ unloaded \/ Fresh("read settings", e, slot, db, redactor)
  BY <1>1, AloneAt, Zenon
<1>5. Configured(f.todo) <=>
          (g \in {"publish", "push"}
           \/ (g \in {"read rules", "set map", "set detector", "bind"} /\ Has(f.todo, "bind")))
  BY DEF Configured
<1>6. Configured(e.todo) <=> FALSE
  <2>1. Here(e.todo) = "read settings"
    BY <1>1, AtIs, Zenon
  <2> QED
    BY <2>1 DEF Configured
<1> HIDE DEF e, f, g
<1>7. Tidy(g, f, slot', listening')
  BY <1>1, <1>2, <1>3, <1>4 DEF Tidy, Follows, Rest
<1>8. Matches(g, f, slot', db', ca')
  BY <1>1, <1>2, <1>3, <1>4, <1>5, <1>6 DEF Matches, Tidy, Follows, Rest
<1>9. unloaded' \/ Fresh(g, f, slot', db', redactor')
  BY <1>1, <1>2, <1>3, <1>4 DEF Fresh, With, Follows, Rest
<1> QED
  BY <1>7, <1>8, <1>9

LEMMA ReadRulesAlone ==
    ASSUME TypeInv, OneInv, NEW t \in Tasks, ReadRules(t)
    PROVE  OneInv'
<1> DEFINE e == task[t]  f == task'[t]  g == Here(f.todo)
<1> DEFINE m == [task[t] EXCEPT !.rules = db.rules]
<1>1. /\ At(t, "read rules") /\ After(t, 1, m) /\ unloaded' = FALSE
      /\ commands' = commands /\ overlapped' = overlapped
      /\ db' = db /\ redactor' = redactor /\ slot' = slot /\ listening' = listening /\ ca' = ca
  BY Zenon DEF ReadRules, Same
<1>2. /\ \A u \in Tasks : u # t => task'[u] = task[u]
      /\ f.todo = Drop(e.todo, 1) /\ f.rules = db.rules
      /\ f.cfg = e.cfg /\ f.old = e.old /\ f.taken = e.taken /\ f.ca = e.ca
  <2>1. db.rules \in RuleSets /\ task[t] \in Task
    BY <1>1, Types, AtIs, NextNat
  <2>2. /\ m \in Task /\ m.todo = task[t].todo /\ m.rules = db.rules
        /\ m.cfg = task[t].cfg /\ m.old = task[t].old /\ m.taken = task[t].taken /\ m.ca = task[t].ca
    BY <2>1 DEF Task
  <2> HIDE DEF m
  <2>3. "read rules" # "read settings" /\ "read rules" # "take"
    OBVIOUS
  <2>4. /\ \A u \in Tasks : u # t => task'[u] = task[u]
        /\ task'[t].todo = Drop(task[t].todo, 1) /\ task'[t].cfg = m.cfg
        /\ task'[t].rules = m.rules /\ task'[t].old = m.old
        /\ task'[t].taken = m.taken /\ task'[t].ca = m.ca
    BY <1>1, <2>1, <2>2, <2>3, OneStep, Zenon
  <2> QED
    BY <2>2, <2>4, Zenon
<1>3. Rest("read rules", e, f, g)
  BY <1>1, <1>2, Onward, Zenon
<1> SUFFICES ASSUME ~overlapped
             PROVE  /\ Tidy(g, f, slot', listening')
                    /\ Matches(g, f, slot', db', ca')
                    /\ unloaded' \/ Fresh(g, f, slot', db', redactor')
  BY <1>1, <1>2, AloneFrom, AloneAt, Zenon
<1>4. /\ Tidy("read rules", e, slot, listening)
      /\ Matches("read rules", e, slot, db, ca)
      /\ unloaded \/ Fresh("read rules", e, slot, db, redactor)
  BY <1>1, AloneAt, Zenon
<1>5. Configured(f.todo) <=>
          (g \in {"publish", "push"}
           \/ (g \in {"read rules", "set map", "set detector", "bind"} /\ Has(f.todo, "bind")))
  BY DEF Configured
<1>6. Configured(e.todo) <=> Has(e.todo, "bind")
  <2>1. Here(e.todo) = "read rules"
    BY <1>1, AtIs, Zenon
  <2> QED
    BY <2>1 DEF Configured
<1> HIDE DEF e, f, g
<1>7. Tidy(g, f, slot', listening')
  BY <1>1, <1>2, <1>3, <1>4 DEF Tidy, Follows, Rest
<1>8. Matches(g, f, slot', db', ca')
  BY <1>1, <1>2, <1>3, <1>4, <1>5, <1>6 DEF Matches, Tidy, Follows, Rest
<1>9. unloaded' \/ Fresh(g, f, slot', db', redactor')
  BY <1>1, <1>2, <1>3, <1>4 DEF Fresh, With, Follows, Rest
<1> QED
  BY <1>7, <1>8, <1>9

LEMMA RegenerateAlone ==
    ASSUME TypeInv, OneInv, NEW t \in Tasks, Regenerate(t)
    PROVE  OneInv'
<1> DEFINE e == task[t]  f == task'[t]  g == Here(f.todo)
<1> DEFINE m == [task[t] EXCEPT !.ca = ca.made + 1]
<1>1. /\ At(t, "regenerate") /\ After(t, 1, m) /\ ca' = [ca EXCEPT !.made = @ + 1, !.disk = ca.made + 1]
      /\ commands' = commands /\ overlapped' = overlapped /\ unloaded' = unloaded
      /\ db' = db /\ redactor' = redactor /\ slot' = slot /\ listening' = listening
  BY Zenon DEF Regenerate, Same
<1>2. /\ \A u \in Tasks : u # t => task'[u] = task[u]
      /\ f.todo = Drop(e.todo, 1) /\ f.ca = ca.made + 1
      /\ f.cfg = e.cfg /\ f.old = e.old /\ f.taken = e.taken /\ f.rules = e.rules
  <2>1. ca.made + 1 \in Nat /\ task[t] \in Task
    BY <1>1, Types, AtIs, NextNat
  <2>2. /\ m \in Task /\ m.todo = task[t].todo /\ m.ca = ca.made + 1
        /\ m.cfg = task[t].cfg /\ m.old = task[t].old /\ m.taken = task[t].taken /\ m.rules = task[t].rules
    BY <2>1 DEF Task
  <2> HIDE DEF m
  <2>3. "regenerate" # "read settings" /\ "regenerate" # "read rules" /\ "regenerate" # "take"
    OBVIOUS
  <2>4. /\ \A u \in Tasks : u # t => task'[u] = task[u]
        /\ task'[t].todo = Drop(task[t].todo, 1) /\ task'[t].cfg = m.cfg
        /\ task'[t].rules = m.rules /\ task'[t].old = m.old
        /\ task'[t].taken = m.taken /\ task'[t].ca = m.ca
    BY <1>1, <2>1, <2>2, <2>3, OneStep, ZenonT(60)
  <2> QED
    BY <2>2, <2>4, Zenon
<1>3. Rest("regenerate", e, f, g)
  BY <1>1, <1>2, Onward, Zenon
<1>10. ca'.disk = f.ca /\ ca'.memory = ca.memory
  <2>1. ca'.disk = ca.made + 1 /\ ca'.memory = ca.memory
    BY <1>1, Types
  <2> QED
    BY <1>2, <2>1, Zenon
<1> SUFFICES ASSUME ~overlapped
             PROVE  /\ Tidy(g, f, slot', listening')
                    /\ Matches(g, f, slot', db', ca')
                    /\ unloaded' \/ Fresh(g, f, slot', db', redactor')
  BY <1>1, <1>2, AloneFrom, AloneAt, Zenon
<1>4. /\ Tidy("regenerate", e, slot, listening)
      /\ Matches("regenerate", e, slot, db, ca)
      /\ unloaded \/ Fresh("regenerate", e, slot, db, redactor)
  BY <1>1, AloneAt, Zenon
<1>5. Configured(f.todo) <=>
          (g \in {"publish", "push"}
           \/ (g \in {"read rules", "set map", "set detector", "bind"} /\ Has(f.todo, "bind")))
  BY DEF Configured
<1>6. Configured(e.todo) <=> FALSE
  <2>1. Here(e.todo) = "regenerate"
    BY <1>1, AtIs, Zenon
  <2> QED
    BY <2>1 DEF Configured
<1> HIDE DEF e, f, g
<1>7. Tidy(g, f, slot', listening')
  BY <1>1, <1>2, <1>3, <1>4 DEF Tidy, Follows, Rest
<1>8. Matches(g, f, slot', db', ca')
  BY <1>1, <1>2, <1>3, <1>4, <1>5, <1>6, <1>10 DEF Matches, Tidy, Follows, Rest
<1>9. unloaded' \/ Fresh(g, f, slot', db', redactor')
  BY <1>1, <1>2, <1>3, <1>4 DEF Fresh, With, Follows, Rest
<1> QED
  BY <1>7, <1>8, <1>9

LEMMA BindAlone ==
    ASSUME TypeInv, OneInv, NEW t \in Tasks, Bind(t)
    PROVE  OneInv'
<1> DEFINE e == task[t]  f == task'[t]  g == Here(f.todo)
<1> DEFINE m == [task[t] EXCEPT !.ca = ca.memory]
<1>1. /\ At(t, "bind") /\ After(t, 1, m) /\ task[t].cfg.port \notin listening
      /\ listening' = listening \cup {task[t].cfg.port}
      /\ commands' = commands /\ overlapped' = overlapped /\ unloaded' = unloaded
      /\ db' = db /\ redactor' = redactor /\ slot' = slot /\ ca' = ca
  BY Zenon DEF Bind, Same
<1>2. /\ \A u \in Tasks : u # t => task'[u] = task[u]
      /\ f.todo = Drop(e.todo, 1) /\ f.ca = ca.memory
      /\ f.cfg = e.cfg /\ f.old = e.old /\ f.taken = e.taken /\ f.rules = e.rules
  <2>0. At(t, "bind") /\ After(t, 1, m)
    BY <1>1, Zenon
  <2>1. ca.memory \in Nat /\ task[t] \in Task
    BY <1>1, Types, AtIs, NextNat
  <2>2. /\ m \in Task /\ m.todo = task[t].todo /\ m.ca = ca.memory
        /\ m.cfg = task[t].cfg /\ m.old = task[t].old /\ m.taken = task[t].taken /\ m.rules = task[t].rules
    BY <2>1 DEF Task
  <2> HIDE DEF m
  <2>3. "bind" # "read settings" /\ "bind" # "read rules" /\ "bind" # "take"
    OBVIOUS
  <2>4. /\ \A u \in Tasks : u # t => task'[u] = task[u]
        /\ task'[t].todo = Drop(task[t].todo, 1) /\ task'[t].cfg = m.cfg
        /\ task'[t].rules = m.rules /\ task'[t].old = m.old
        /\ task'[t].taken = m.taken /\ task'[t].ca = m.ca
    BY <2>0, <2>1, <2>2, <2>3, OneStep, ZenonT(60)
  <2> QED
    BY <2>2, <2>4, Zenon
<1>3. Rest("bind", e, f, g)
  BY <1>1, <1>2, Onward, Zenon
<1>10. Has(e.todo, "bind")
  BY <1>1, AtIs, HereNext, Zenon DEF Has
<1>11. listening' = listening \cup {f.cfg.port}
  BY <1>1, <1>2, Zenon
<1> SUFFICES ASSUME ~overlapped
             PROVE  /\ Tidy(g, f, slot', listening')
                    /\ Matches(g, f, slot', db', ca')
                    /\ unloaded' \/ Fresh(g, f, slot', db', redactor')
  BY <1>1, <1>2, AloneFrom, AloneAt, Zenon
<1>4. /\ Tidy("bind", e, slot, listening)
      /\ Matches("bind", e, slot, db, ca)
      /\ unloaded \/ Fresh("bind", e, slot, db, redactor)
  BY <1>1, AloneAt, Zenon
<1>5. Configured(f.todo) <=>
          (g \in {"publish", "push"}
           \/ (g \in {"read rules", "set map", "set detector", "bind"} /\ Has(f.todo, "bind")))
  BY DEF Configured
<1>6. Configured(e.todo) <=> Has(e.todo, "bind")
  <2>1. Here(e.todo) = "bind"
    BY <1>1, AtIs, Zenon
  <2> QED
    BY <2>1 DEF Configured
<1> HIDE DEF e, f, g
<1>7. Tidy(g, f, slot', listening')
  BY <1>1, <1>2, <1>3, <1>4, <1>10, <1>11 DEF Tidy, Follows, Rest
<1>8. Matches(g, f, slot', db', ca')
  BY <1>1, <1>2, <1>3, <1>4, <1>5, <1>6, <1>10 DEF Matches, Tidy, Follows, Rest
<1>9. unloaded' \/ Fresh(g, f, slot', db', redactor')
  BY <1>1, <1>2, <1>3, <1>4 DEF Fresh, With, Follows, Rest
<1> QED
  BY <1>7, <1>8, <1>9

\* Commands that fail.
LEMMA IdleRests == Here(Idle.todo) = "none" /\ ~Has(Idle.todo, "bind") /\ ~Configured(Idle.todo)
<1>1. Idle.todo = <<>> /\ Len(Idle.todo) = 0
  BY DEF Idle
<1>2. Here(Idle.todo) = "none"
  BY <1>1 DEF Here
<1>3. ~Has(Idle.todo, "bind")
  BY <1>1 DEF Has
<1> QED
  BY <1>2, <1>3 DEF Configured

LEMMA ThreeAndOne == 3 + 1 = 4
  OBVIOUS

LEMMA UpsertFailsAlone ==
    ASSUME TypeInv, OneInv, NEW t \in Tasks, UpsertFails(t)
    PROVE  OneInv'
<1> DEFINE e == task[t]  f == task'[t]  g == Here(f.todo)
<1>1. /\ At(t, "upsert") /\ Return(t)
      /\ commands' = commands /\ overlapped' = overlapped /\ db' = db /\ redactor' = redactor /\ slot' = slot
      /\ listening' = listening /\ ca' = ca
  BY Zenon DEF UpsertFails, Same
<1>2. /\ \A u \in Tasks : u # t => task'[u] = task[u]
      /\ f = Idle
  BY <1>1, ReturnStep, Zenon
<1>3. g = "none" /\ ~Has(f.todo, "bind") /\ ~Configured(f.todo)
  BY <1>2, IdleRests, Zenon
<1>10. ~Has(e.todo, "bind")
  BY <1>1, AtIs, UpsertBinds, Zenon
<1>11. unloaded \/ Len(e.todo) = 4 => unloaded'
  <2>1. unloaded' = (unloaded \/ Len(task[t].todo) = Len(Reload) + 1)
    BY Zenon DEF UpsertFails
  <2>2. Len(Reload) + 1 = 4
    <3>1. Len(Reload) = 3
      BY ReloadIs
    <3> QED
      BY <3>1, ThreeAndOne, Zenon
  <2> QED
    BY <2>1, <2>2, Zenon
<1> SUFFICES ASSUME ~overlapped
             PROVE  /\ Tidy(g, f, slot', listening')
                    /\ Matches(g, f, slot', db', ca')
                    /\ unloaded' \/ Fresh(g, f, slot', db', redactor')
  BY <1>1, <1>2, AloneFrom, AloneAt, Zenon
<1>4. /\ Tidy("upsert", e, slot, listening)
      /\ Matches("upsert", e, slot, db, ca)
      /\ unloaded \/ Fresh("upsert", e, slot, db, redactor)
  BY <1>1, AloneAt, Zenon
<1>6. Configured(e.todo) <=> FALSE
  <2>1. Here(e.todo) = "upsert"
    BY <1>1, AtIs, Zenon
  <2> QED
    BY <2>1 DEF Configured
<1> HIDE DEF e, f, g
<1>7. Tidy(g, f, slot', listening')
  BY <1>1, <1>3, <1>4, <1>10 DEF Tidy
<1>8. Matches(g, f, slot', db', ca')
  BY <1>1, <1>3, <1>4, <1>6 DEF Matches, Tidy
<1>9. unloaded' \/ Fresh(g, f, slot', db', redactor')
  BY <1>1, <1>3, <1>4, <1>11 DEF Fresh, With
<1> QED
  BY <1>7, <1>8, <1>9

LEMMA BindFailsAlone ==
    ASSUME TypeInv, OneInv, NEW t \in Tasks, BindFails(t)
    PROVE  OneInv'
<1> DEFINE e == task[t]  f == task'[t]  g == Here(f.todo)
<1>1. /\ At(t, "bind") /\ Return(t)
      /\ commands' = commands /\ overlapped' = overlapped /\ unloaded' = unloaded /\ db' = db /\ redactor' = redactor
      /\ slot' = slot /\ listening' = listening /\ ca' = ca
  BY Zenon DEF BindFails, Same
<1>2. /\ \A u \in Tasks : u # t => task'[u] = task[u]
      /\ f = Idle
  BY <1>1, ReturnStep, Zenon
<1>3. g = "none" /\ ~Has(f.todo, "bind") /\ ~Configured(f.todo)
  BY <1>2, IdleRests, Zenon
<1> SUFFICES ASSUME ~overlapped
             PROVE  /\ Tidy(g, f, slot', listening')
                    /\ Matches(g, f, slot', db', ca')
                    /\ unloaded' \/ Fresh(g, f, slot', db', redactor')
  BY <1>1, <1>2, AloneFrom, AloneAt, Zenon
<1>4. /\ Tidy("bind", e, slot, listening)
      /\ Matches("bind", e, slot, db, ca)
      /\ unloaded \/ Fresh("bind", e, slot, db, redactor)
  BY <1>1, AloneAt, Zenon
<1>6. Configured(e.todo) <=> Has(e.todo, "bind")
  <2>1. Here(e.todo) = "bind"
    BY <1>1, AtIs, Zenon
  <2> QED
    BY <2>1 DEF Configured
<1> HIDE DEF e, f, g
<1>7. Tidy(g, f, slot', listening')
  BY <1>1, <1>3, <1>4 DEF Tidy
<1>8. Matches(g, f, slot', db', ca')
  BY <1>1, <1>3, <1>4, <1>6 DEF Matches, Tidy
<1>9. unloaded' \/ Fresh(g, f, slot', db', redactor')
  BY <1>1, <1>3, <1>4 DEF Fresh, With
<1> QED
  BY <1>7, <1>8, <1>9

LEMMA RegenerateFailsAlone ==
    ASSUME TypeInv, OneInv, NEW t \in Tasks, RegenerateFails(t)
    PROVE  OneInv'
<1> DEFINE e == task[t]  f == task'[t]  g == Here(f.todo)
<1>1. /\ At(t, "regenerate") /\ Return(t)
      /\ ca' = [ca EXCEPT !.disk = None]
      /\ commands' = commands /\ overlapped' = overlapped /\ unloaded' = unloaded /\ db' = db /\ redactor' = redactor /\ slot' = slot
      /\ listening' = listening
  BY Zenon DEF RegenerateFails, Same
<1>2. /\ \A u \in Tasks : u # t => task'[u] = task[u]
      /\ f = Idle
  BY <1>1, ReturnStep, Zenon
<1>3. g = "none" /\ ~Has(f.todo, "bind") /\ ~Configured(f.todo)
  BY <1>2, IdleRests, Zenon
<1>10. ca'.memory = ca.memory /\ ca'.disk = None
  BY <1>1, Types
<1> SUFFICES ASSUME ~overlapped
             PROVE  /\ Tidy(g, f, slot', listening')
                    /\ Matches(g, f, slot', db', ca')
                    /\ unloaded' \/ Fresh(g, f, slot', db', redactor')
  BY <1>1, <1>2, AloneFrom, AloneAt, Zenon
<1>4. /\ Tidy("regenerate", e, slot, listening)
      /\ Matches("regenerate", e, slot, db, ca)
      /\ unloaded \/ Fresh("regenerate", e, slot, db, redactor)
  BY <1>1, AloneAt, Zenon
<1>6. Configured(e.todo) <=> FALSE
  <2>1. Here(e.todo) = "regenerate"
    BY <1>1, AtIs, Zenon
  <2> QED
    BY <2>1 DEF Configured
<1> HIDE DEF e, f, g
<1>7. Tidy(g, f, slot', listening')
  BY <1>1, <1>3, <1>4 DEF Tidy
<1>8. Matches(g, f, slot', db', ca')
  BY <1>1, <1>3, <1>4, <1>6, <1>10 DEF Matches, Tidy
<1>9. unloaded' \/ Fresh(g, f, slot', db', redactor')
  BY <1>1, <1>3, <1>4 DEF Fresh, With
<1> QED
  BY <1>7, <1>8, <1>9

LEMMA CheckAlone ==
    ASSUME TypeInv, OneInv, NEW t \in Tasks, Check(t)
    PROVE  OneInv'
<1> DEFINE e == task[t]  f == task'[t]  g == Here(f.todo)
<1>1. /\ At(t, "check") /\ After(t, IF slot # None THEN Len(Start) ELSE 1, task[t])
      /\ commands' = commands /\ overlapped' = overlapped /\ unloaded' = unloaded
      /\ db' = db /\ redactor' = redactor /\ slot' = slot /\ listening' = listening /\ ca' = ca
  BY Zenon DEF Check, Same
<1>3. /\ e \in Task /\ e.todo # <<>> /\ Here(e.todo) = "check" /\ Steady(e.todo)
  BY <1>1, AtIs, Zenon
<1>10. /\ \A u \in Tasks : u # t => task'[u] = task[u]
       /\ slot = None => g = "read settings" /\ Nth(f.todo, 2, "read rules")
       /\ slot # None => g \in {"none", "read rules"} /\ ~Has(f.todo, "bind")
  <2>1. CASE slot = None
    <3>1. Done(t)
      BY <1>1, <2>1, Zenon DEF Done
    <3>2. "check" # "read settings" /\ "check" # "read rules" /\ "check" # "take"
      OBVIOUS
    <3>3. /\ \A u \in Tasks : u # t => task'[u] = task[u]
          /\ f.todo = Drop(e.todo, 1)
      BY <1>1, <3>1, <3>2, DoneStep, Zenon
    <3>4. Rest("check", e, f, g)
      BY <1>1, <3>3, Onward, Zenon
    <3>5. Nth(e.todo, 3, "read rules")
      BY <1>3, CheckLoads, Zenon
    <3> HIDE DEF e, f, g
    <3>6. g = "read settings"
      BY <3>4 DEF Rest, Follows
    <3>7. Nth(f.todo, 2, "read rules")
      BY <3>4, <3>5, Zenon DEF Rest
    <3> QED
      BY <2>1, <3>3, <3>6, <3>7, Zenon
  <2>2. CASE slot # None
    <3>1. Len(Start) = 7
      BY StartIs
    <3>2. After(t, 7, e)
      BY <1>1, <2>2, <3>1, Zenon
    <3>3. /\ 7 \in 0 .. Len(e.todo) /\ Here(Drop(e.todo, 7)) \in {"none", "read rules"}
          /\ ~Has(Drop(e.todo, 7), "bind")
      BY <1>3, SkipStart, Zenon
    <3>4. task \in [Tasks -> Task]
      BY DEF TypeInv, TypeOK
    <3>5. /\ \A u \in Tasks : u # t => task'[u] = task[u]
          /\ f.todo = Drop(e.todo, 7)
      BY <1>3, <3>2, <3>3, <3>4, AfterIs, Zenon
    <3> QED
      BY <2>2, <3>3, <3>5, Zenon
  <2> QED
    BY <2>1, <2>2
<1>2. \A u \in Tasks : u # t => task'[u] = task[u]
  BY <1>10, Zenon
<1> SUFFICES ASSUME ~overlapped
             PROVE  /\ Tidy(g, f, slot', listening')
                    /\ Matches(g, f, slot', db', ca')
                    /\ unloaded' \/ Fresh(g, f, slot', db', redactor')
  BY <1>1, <1>2, AloneFrom, AloneAt, Zenon
<1>4. /\ Tidy("check", e, slot, listening)
      /\ Matches("check", e, slot, db, ca)
      /\ unloaded \/ Fresh("check", e, slot, db, redactor)
  BY <1>1, AloneAt, Zenon
<1>5. Configured(f.todo) <=>
          (g \in {"publish", "push"}
           \/ (g \in {"read rules", "set map", "set detector", "bind"} /\ Has(f.todo, "bind")))
  BY DEF Configured
<1> HIDE DEF e, f, g
<1>7. Tidy(g, f, slot', listening')
  BY <1>1, <1>4, <1>10 DEF Tidy
<1>8. Matches(g, f, slot', db', ca')
  BY <1>1, <1>4, <1>5, <1>10 DEF Matches
<1>9. unloaded' \/ Fresh(g, f, slot', db', redactor')
  BY <1>1, <1>4, <1>10 DEF Fresh, With
<1> QED
  BY <1>7, <1>8, <1>9

LEMMA SkipTwo ==
    ASSUME NEW todo, Steady(todo), 2 \in 0 .. Len(todo), NEW x, Nth(todo, 3, x)
    PROVE  Here(Drop(todo, 2)) = x
<1> DEFINE r == Drop(todo, 2)
<1>1. todo \in Seq(Steps)
  BY DEF Steady
<1>2. /\ r \in Seq(Steps) /\ Len(r) = Len(todo) - 2
      /\ \A i \in 1 .. Len(r) : r[i] = todo[i + 2]
  BY <1>1, DropIs
<1> HIDE DEF r
<1>3. Len(todo) >= 3 /\ todo[3] = x
  BY DEF Nth
<1>4. r # <<>> /\ r[1] = x
  BY <1>1, <1>2, <1>3
<1>5. Here(r) = x
  BY <1>4, Zenon DEF Here
<1> QED
  BY <1>5 DEF r

LEMMA TakeAlone ==
    ASSUME TypeInv, OneInv, NEW t \in Tasks, Take(t)
    PROVE  OneInv'
<1> DEFINE e == task[t]  f == task'[t]  g == Here(f.todo)  m == [task[t] EXCEPT !.taken = slot]
<1>1. /\ At(t, "take") /\ slot' = None /\ After(t, IF slot = None THEN 2 ELSE 1, m)
      /\ commands' = commands /\ overlapped' = overlapped /\ unloaded' = unloaded
      /\ db' = db /\ redactor' = redactor /\ listening' = listening /\ ca' = ca
  BY Zenon DEF Take, Same
<1>3. /\ e \in Task /\ e.todo # <<>> /\ Here(e.todo) = "take" /\ Steady(e.todo)
  BY <1>1, AtIs, Zenon
<1>10. slot \in Slot \cup {None}
  BY Types
<1>11. m \in Task /\ m.todo = e.todo /\ m.taken = slot
  BY <1>3, <1>10 DEF Task
<1>12. 1 \in 0 .. Len(e.todo) /\ 2 \in 0 .. Len(e.todo)
  BY <1>3, SecondStep, SkipStop, Zenon
<1>13. task \in [Tasks -> Task]
  BY DEF TypeInv, TypeOK
<1> HIDE DEF m
<1>2. /\ \A u \in Tasks : u # t => task'[u] = task[u]
      /\ f.todo = Drop(e.todo, IF slot = None THEN 2 ELSE 1) /\ f.taken = slot
  <2> DEFINE n == IF slot = None THEN 2 ELSE 1
  <2>1. n \in 0 .. Len(m.todo)
    BY <1>11, <1>12, Zenon
  <2> HIDE DEF n
  <2>2. After(t, n, m)
    BY <1>1, Zenon DEF n
  <2>3. /\ \A u \in Tasks : u # t => task'[u] = task[u]
        /\ f.todo = Drop(m.todo, n) /\ f.taken = m.taken
    BY <1>11, <1>13, <2>1, <2>2, AfterIs, Zenon
  <2> QED
    BY <1>11, <2>3, Zenon DEF n
<1>14. slot = None => g \in {"none", "check", "regenerate"} /\ (Nth(e.todo, 3, "check") => g = "check")
  <2> SUFFICES ASSUME slot = None
               PROVE  g \in {"none", "check", "regenerate"} /\ (Nth(e.todo, 3, "check") => g = "check")
    OBVIOUS
  <2>1. f.todo = Drop(e.todo, 2)
    BY <1>2, Zenon
  <2> QED
    BY <1>3, <1>12, <2>1, SkipStop, SkipTwo, Zenon
<1>15. slot # None => g = "shutdown" /\ (Nth(e.todo, 3, "check") => Nth(f.todo, 2, "check"))
  <2> SUFFICES ASSUME slot # None
               PROVE  g = "shutdown" /\ (Nth(e.todo, 3, "check") => Nth(f.todo, 2, "check"))
    OBVIOUS
  <2>1. f.todo = Drop(e.todo, 1)
    BY <1>2, Zenon
  <2>2. Rest("take", e, f, g)
    BY <1>1, <2>1, Onward, Zenon
  <2> HIDE DEF e, f, g
  <2> QED
    BY <2>2 DEF Rest, Follows
<1> SUFFICES ASSUME ~overlapped
             PROVE  /\ Tidy(g, f, slot', listening')
                    /\ Matches(g, f, slot', db', ca')
                    /\ unloaded' \/ Fresh(g, f, slot', db', redactor')
  BY <1>1, <1>2, AloneFrom, AloneAt, Zenon
<1>4. /\ Tidy("take", e, slot, listening)
      /\ Matches("take", e, slot, db, ca)
      /\ unloaded \/ Fresh("take", e, slot, db, redactor)
  BY <1>1, AloneAt, Zenon
<1>5. Configured(f.todo) <=>
          (g \in {"publish", "push"}
           \/ (g \in {"read rules", "set map", "set detector", "bind"} /\ Has(f.todo, "bind")))
  BY DEF Configured
<1> HIDE DEF e, f, g
<1>7. Tidy(g, f, slot', listening')
  BY <1>1, <1>2, <1>4, <1>14, <1>15 DEF Tidy
<1>8. Matches(g, f, slot', db', ca')
  BY <1>1, <1>4, <1>5, <1>14, <1>15 DEF Matches
<1>9. unloaded' \/ Fresh(g, f, slot', db', redactor')
  BY <1>1, <1>4, <1>14, <1>15 DEF Fresh, With
<1> QED
  BY <1>7, <1>8, <1>9

LEMMA FollowUpAlone ==
    ASSUME TypeInv, OneInv, NEW t \in Tasks, FollowUp(t)
    PROVE  OneInv'
<1> DEFINE e == task[t]  f == task'[t]  g == Here(f.todo)
           restart == task[t].old.port # db.port /\ slot # None
           reload == task[t].old.rules # db.rules
<1>1. /\ At(t, "follow up")
      /\ commands' = commands /\ overlapped' = overlapped /\ unloaded' = unloaded
      /\ db' = db /\ redactor' = redactor /\ slot' = slot /\ listening' = listening /\ ca' = ca
  BY Zenon DEF FollowUp, Same
<1>2. /\ \A u \in Tasks : u # t => task'[u] = task[u]
      /\ FollowedUp(f.todo, restart, reload)
  BY FollowUpStep, Zenon
<1> SUFFICES ASSUME ~overlapped
             PROVE  /\ Tidy(g, f, slot', listening')
                    /\ Matches(g, f, slot', db', ca')
                    /\ unloaded' \/ Fresh(g, f, slot', db', redactor')
  BY <1>1, <1>2, AloneFrom, AloneAt, Zenon
<1>4. /\ Tidy("follow up", e, slot, listening)
      /\ Matches("follow up", e, slot, db, ca)
      /\ unloaded \/ Fresh("follow up", e, slot, db, redactor)
  BY <1>1, AloneAt, Zenon
<1>5. Configured(f.todo) <=>
          (g \in {"publish", "push"}
           \/ (g \in {"read rules", "set map", "set detector", "bind"} /\ Has(f.todo, "bind")))
  BY DEF Configured
<1>6. /\ restart <=> (e.old.port # db.port /\ slot # None)
      /\ reload <=> e.old.rules # db.rules
  BY Zenon
<1>3. /\ restart => g = "take" /\ Nth(f.todo, 3, "check")
      /\ ~restart => /\ g = "read settings" /\ Nth(f.todo, 2, "push") /\ ~Has(f.todo, "bind")
                     /\ reload => Nth(f.todo, 3, "read rules")
  BY <1>2, Zenon DEF FollowedUp
<1> HIDE DEF e, f, g, restart, reload
<1>7. Tidy(g, f, slot', listening')
  BY <1>1, <1>3, <1>4 DEF Tidy
<1>8. Matches(g, f, slot', db', ca')
  BY <1>1, <1>3, <1>4, <1>5, <1>6 DEF Matches
<1>9. unloaded' \/ Fresh(g, f, slot', db', redactor')
  BY <1>1, <1>3, <1>4, <1>6 DEF Fresh, With
<1> QED
  BY <1>7, <1>8, <1>9

LEMMA OpensAlone ==
    ASSUME TypeInv, OneInv, NEW t \in Tasks, Opens(t)
    PROVE  OneInv'
<1> DEFINE f == task'[t]  g == Here(f.todo)
<1>1. PICK steps, old : Begin(t, steps, old) /\ Opening(steps, old, db, db')
  BY Zenon DEF Opens
<1>2. redactor' = redactor /\ slot' = slot /\ listening' = listening /\ ca' = ca
  BY Zenon DEF Opens
<1>3. /\ overlapped' = (overlapped \/ \E u \in Tasks : Busy(u)) /\ unloaded' = unloaded
  BY <1>1, Zenon DEF Begin
<1>4. /\ Steady(steps) /\ steps # <<>>
      /\ steps[1] \in {"check", "take", "read rules", "upsert", "follow up"}
      /\ steps[1] = "read rules" => ~Has(steps, "bind")
      /\ old \in Settings \cup {None} /\ db' \in Settings
      /\ steps[1] = "follow up" => old \in Settings
  BY <1>1 DEF Opening
<1>5. /\ \A u \in Tasks : u # t => task'[u] = task[u]
      /\ f.todo = steps /\ f.old = old
  BY <1>1, <1>4, BeginStep, Zenon
<1>6. g = steps[1]
  BY <1>4, <1>5, Zenon DEF Here
<1>7. ~overlapped' => ~overlapped /\ \A u \in Tasks : ~Busy(u)
  BY <1>3, Zenon
<1> SUFFICES ASSUME ~overlapped'
             PROVE  /\ Tidy(g, f, slot', listening')
                    /\ Matches(g, f, slot', db', ca')
                    /\ unloaded' \/ Fresh(g, f, slot', db', redactor')
  BY <1>5, <1>7, AloneFrom, Zenon
<1>8. Good(Idle)
  BY <1>7, Zenon DEF OneInv
<1>9. /\ Tidy("none", Idle, slot, listening)
      /\ Matches("none", Idle, slot, db, ca)
      /\ unloaded \/ Fresh("none", Idle, slot, db, redactor)
  BY <1>8, IdleRests, Zenon DEF Good
<1>10. Configured(f.todo) <=>
          (g \in {"publish", "push"}
           \/ (g \in {"read rules", "set map", "set detector", "bind"} /\ Has(f.todo, "bind")))
  BY DEF Configured
<1>11. /\ g \in {"check", "take", "read rules", "upsert", "follow up"}
       /\ g \in {"read rules", "upsert", "follow up"} => ~Has(f.todo, "bind")
       /\ g = "follow up" => f.old = db
       /\ g # "follow up" => db'.port = db.port /\ db'.options = db.options
       /\ g \notin {"follow up", "read rules"} => db' = db
  BY <1>1, <1>5, <1>6 DEF Opening
<1> HIDE DEF f, g
<1>12. Tidy(g, f, slot', listening')
  BY <1>2, <1>9, <1>11 DEF Tidy
<1>13. Matches(g, f, slot', db', ca')
  BY <1>2, <1>9, <1>10, <1>11 DEF Matches
<1>14. unloaded' \/ Fresh(g, f, slot', db', redactor')
  BY <1>2, <1>3, <1>9, <1>11 DEF Fresh, With
<1> QED
  BY <1>12, <1>13, <1>14
-----------------------------------------------------------------------------
LEMMA InitOne == Init => OneInv
<1> SUFFICES ASSUME Init PROVE OneInv
  OBVIOUS
<1>1. /\ redactor = [map |-> db.rules, detector |-> db.rules] /\ slot = None /\ listening = {}
      /\ ca = [made |-> 0, disk |-> 0, memory |-> 0] /\ task = [t \in Tasks |-> Idle]
  BY DEF Init
<1>2. \A t \in Tasks : ~Busy(t)
  <2>1. Idle.todo = <<>>
    BY DEF Idle
  <2> QED
    BY <1>1, <2>1, Zenon DEF Busy
<1>3. Alone
  BY <1>2, Zenon DEF Alone
<1>4. Tidy("none", Idle, slot, listening)
  BY <1>1, IdleRests DEF Tidy
<1>5. Matches("none", Idle, slot, db, ca)
  <2>1. ca.disk = ca.memory
    BY <1>1
  <2> QED
    BY <1>1, <2>1, IdleRests DEF Matches
<1>6. Fresh("none", Idle, slot, db, redactor)
  <2>1. With(redactor, db.rules)
    BY <1>1 DEF With
  <2> QED
    BY <2>1 DEF Fresh
<1>7. Good(Idle)
  BY <1>4, <1>5, <1>6, IdleRests, Zenon DEF Good
<1> QED
  BY <1>2, <1>3, <1>7, Zenon DEF OneInv

LEMMA NextOne == TypeInv /\ OneInv /\ [Next]_vars => OneInv'
<1> SUFFICES ASSUME TypeInv, OneInv, [Next]_vars PROVE OneInv'
  OBVIOUS
<1>1. CASE UNCHANGED vars
  <2>1. /\ db' = db /\ redactor' = redactor /\ slot' = slot /\ listening' = listening
        /\ ca' = ca /\ task' = task /\ overlapped' = overlapped /\ unloaded' = unloaded
    BY <1>1, Zenon DEF vars
  <2>2. Good(Idle)' <=> Good(Idle)
    BY <2>1, Zenon DEF Good
  <2>3. \A t \in Tasks : (Busy(t)' <=> Busy(t)) /\ (Good(task[t])' <=> Good(task[t]))
    BY <2>1, Zenon DEF Good, Busy
  <2>4. Alone' <=> Alone
    BY <2>3, Zenon DEF Alone
  <2> QED
    BY <2>1, <2>2, <2>3, <2>4, Zenon DEF OneInv
<1>2. CASE Next
  <2>1. PICK t \in Tasks :
          \/ ProxyCommand(t) \/ RegenerateCa(t) \/ ImportRules(t)
          \/ \E s \in Settings : SaveSettings(t, s)
          \/ \E rules \in RuleSets : ChangeRules(t, rules)
          \/ \E rules \in RuleSets : Upsert(t, rules)
          \/ UpsertFails(t)
          \/ FollowUp(t) \/ Check(t) \/ ReadSettings(t)
          \/ ReadRules(t) \/ SetMap(t) \/ SetDetector(t)
          \/ Bind(t) \/ BindFails(t) \/ Publish(t) \/ Push(t)
          \/ Take(t) \/ Shutdown(t)
          \/ Regenerate(t) \/ RegenerateFails(t) \/ ReplaceCa(t)
    BY <1>2, Zenon DEF Next
  <2>2. CASE ProxyCommand(t) \/ RegenerateCa(t) \/ ImportRules(t)
    BY <2>2, ProxyCommandOpens, RegenerateCaOpens, ImportRulesOpens, OpensAlone, Zenon
  <2>3. CASE \E s \in Settings : SaveSettings(t, s)
    BY <2>3, SaveSettingsOpens, OpensAlone, Zenon
  <2>4. CASE \E rules \in RuleSets : ChangeRules(t, rules) \/ Upsert(t, rules)
    BY <2>4, ChangeRulesOpens, OpensAlone, UpsertAlone, Zenon
  <2>5. CASE UpsertFails(t) \/ FollowUp(t) \/ Check(t) \/ ReadSettings(t)
    BY <2>5, UpsertFailsAlone, FollowUpAlone, CheckAlone, ReadSettingsAlone, Zenon
  <2>6. CASE ReadRules(t) \/ SetMap(t) \/ SetDetector(t)
    BY <2>6, ReadRulesAlone, SetMapAlone, SetDetectorAlone, Zenon
  <2>7. CASE Bind(t) \/ BindFails(t) \/ Publish(t) \/ Push(t)
    BY <2>7, BindAlone, BindFailsAlone, PublishAlone, PushAlone, Zenon
  <2>8. CASE Take(t) \/ Shutdown(t)
    BY <2>8, TakeAlone, ShutdownAlone, Zenon
  <2>9. CASE Regenerate(t) \/ RegenerateFails(t) \/ ReplaceCa(t)
    BY <2>9, RegenerateAlone, RegenerateFailsAlone, ReplaceCaAlone, Zenon
  <2> QED
    BY <2>1, <2>2, <2>3, <2>4, <2>5, <2>6, <2>7, <2>8, <2>9, Zenon
<1> QED
  BY <1>1, <1>2

LEMMA OneHolds == Spec => [](TypeInv /\ OneInv)
<1>1. Init => TypeInv /\ PortsInv /\ OneInv
  BY InitInv, InitOne, Zenon
<1>2. TypeInv /\ PortsInv /\ OneInv /\ [Next]_vars => (TypeInv /\ PortsInv /\ OneInv)'
  BY NextInv, NextOne, Zenon
<1> QED
  BY <1>1, <1>2, PTL DEF Spec

\* What OneInv says when nothing runs.
LEMMA SettledIs ==
    ASSUME OneInv, Settled
    PROVE  /\ Tidy("none", Idle, slot, listening)
           /\ Matches("none", Idle, slot, db, ca)
           /\ unloaded \/ Fresh("none", Idle, slot, db, redactor)
<1>1. Good(Idle)
  BY Zenon DEF OneInv, Settled
<1> QED
  BY <1>1, IdleRests, Zenon DEF Good
-----------------------------------------------------------------------------
\* Whatever is shown as running accepts connections on its port, in whatever way the commands of
\* several windows and of the tray overlap (start_proxy and stop_proxy of state.rs hold no lock
\* over their steps): each port with an accept loop has one owner, the running proxy, a command
\* about to publish its proxy or one about to shut it down, and only its owner ends the loop.
THEOREM ShownAccepts == Spec => []ShownIsListening
<1>1. PortsInv => ShownIsListening
  BY Zenon DEF PortsInv, ShownIsListening
<1> QED
  BY <1>1, InitInv, NextInv, PTL DEF Spec

\* The comment of start_proxy in state.rs, "the redactor is consistent with the store": commands
\* given one at a time, whatever they are, in whatever order, and wherever they fail, leave the
\* map and the detector with the stored rules, unless an import broke off after it had stored
\* a rule (import_rules of commands.rs) and nothing was loaded since.
THEOREM RedactorAsStored == Spec => []RulesApplied
<1>1. OneInv => RulesApplied
  <2> SUFFICES ASSUME OneInv, Settled, ~unloaded
               PROVE  redactor.map = db.rules /\ redactor.detector = db.rules
    BY Zenon DEF RulesApplied
  <2>1. Fresh("none", Idle, slot, db, redactor)
    BY SettledIs, Zenon
  <2> QED
    BY <2>1 DEF Fresh, With
<1> QED
  BY <1>1, OneHolds, PTL

\* What a proxy that is shown as running does, once the commands given one at a time are done:
\* it has the port and the options that the settings view shows, and it signs with the authority
\* that the user is shown, which is the one on disk unless a new one could not be written
\* (save_settings, push_config and regenerate_ca).
THEOREM ProxyAsStored == Spec => []RunningAsStored
<1>1. OneInv => RunningAsStored
  <2> SUFFICES ASSUME OneInv, Settled, slot # None
               PROVE  /\ slot.port = db.port /\ slot.options = db.options
                      /\ slot.ca = ca.memory /\ ca.disk \in {None, ca.memory}
    BY Zenon DEF RunningAsStored
  <2>1. Matches("none", Idle, slot, db, ca)
    BY SettledIs, Zenon
  <2> QED
    BY <2>1 DEF Matches
<1> QED
  BY <1>1, OneHolds, PTL

\* Commands one at a time leave no accept loop behind (stop_proxy takes the handle out of its slot
\* before it shuts the proxy down, start_proxy publishes it after the bind): what listens is the
\* proxy in the slot, and nothing does when there is none.
THEOREM NoLoopLeft == Spec => []NoOrphan
<1>1. OneInv => NoOrphan
  <2> SUFFICES ASSUME OneInv, Settled
               PROVE  listening = IF slot = None THEN {} ELSE {slot.port}
    BY Zenon DEF NoOrphan
  <2>1. Tidy("none", Idle, slot, listening)
    BY SettledIs, Zenon
  <2> QED
    BY <2>1 DEF Tidy
<1> QED
  BY <1>1, OneHolds, PTL
=============================================================================
