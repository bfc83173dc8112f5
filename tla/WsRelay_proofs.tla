--------------------------- MODULE WsRelay_proofs ---------------------------
(* Every turn of a WebSocket connection, and the connection, leave one record each, for   *)
(* all bodies, answers and numbers of turns: the records are sent in the order of the     *)
(* turns, that of the connection last.  When the client waits for its answers, the record *)
(* of a turn has the usage that the events of its own answer report, and the client gets  *)
(* every answer restored as a whole: while it arrives, the one restorer of the connection *)
(* does what one of its own would do, whose theorems (Restorers_proofs) are taken over.   *)
(* The record of the turn has the size and the restorations of what the client got: sums  *)
(* over the frames are, block by block, sums over the texts, and what the restorer puts   *)
(* back is counted in the tail and the text of each event.                                *)
EXTENDS WsRelay, FiniteSetTheorems, SequenceTheorems, WellFoundedInduction, TLAPS

\* None is not a record.
NoneIsNoRecord == "turn" \notin DOMAIN None

\* The record is that of turn t.
OfTurn(record, t) == "turn" \in DOMAIN record /\ record.turn = t

\* The records of the first n turns.
InOrder(records, n) ==
    /\ records \in Seq(ToSet(records))
    /\ Len(records) = n
    /\ \A i \in 1 .. n : records[i].turn = i

\* How many turns have ended.
Closed == IF current = None THEN asked ELSE asked - 1

\* The open record is that of the last turn.
TurnIsLast == current # None => asked > 0 /\ OfTurn(current, asked)

\* The records before the end, ...
Running ==
    phase # "over" => InOrder(logs, Closed) /\ OfTurn(fin, 0)

\* ... and after it.
Over ==
    phase = "over" =>
        /\ current = None
        /\ \E turns, record : InOrder(turns, asked) /\ record.turn = 0 /\ logs = Append(turns, record)

\* The inductive invariant of the records.
IInv ==
    /\ NoneIsNoRecord
    /\ asked \in Nat
    /\ phase \in {"connecting", "upgrading", "tunnel"} => asked = 0 /\ current = None
    /\ TurnIsLast /\ Running /\ Over
-----------------------------------------------------------------------------
\* One record more, of the next turn.
LEMMA OneMore ==
    ASSUME NEW records, NEW n \in Nat, InOrder(records, n), NEW record
    PROVE  /\ Append(records, record) \in Seq(ToSet(Append(records, record)))
           /\ Len(Append(records, record)) = n + 1
           /\ \A i \in 1 .. n : Append(records, record)[i].turn = i
           /\ Append(records, record)[n + 1] = record
           /\ record.turn = n + 1 => InOrder(Append(records, record), n + 1)
<1> DEFINE longer == Append(records, record)
<1>1. PICK S : S = ToSet(records) \cup {record}
  OBVIOUS
<1>2. records \in Seq(S) /\ record \in S /\ Len(records) = n
  BY <1>1 DEF InOrder
<1>3. /\ longer \in Seq(S) /\ Len(longer) = n + 1 /\ longer[n + 1] = record
      /\ \A i \in 1 .. n : longer[i] = records[i]
  BY <1>2
<1> HIDE DEF longer
<1>4. DOMAIN longer = 1 .. n + 1 /\ longer = [i \in 1 .. n + 1 |-> longer[i]]
  BY <1>3
<1>5. longer \in Seq(ToSet(longer))
  <2>1. ToSet(longer) = {longer[i] : i \in 1 .. n + 1}
    BY <1>4 DEF ToSet
  <2>2. \A i \in 1 .. n + 1 : longer[i] \in ToSet(longer)
    BY <2>1
  <2>3. longer \in [1 .. n + 1 -> ToSet(longer)]
    BY <1>4, <2>2
  <2> QED
    BY <2>3
<1>6. \A i \in 1 .. n : longer[i].turn = i
  BY <1>3 DEF InOrder
<1>7. record.turn = n + 1 => InOrder(longer, n + 1)
  BY <1>3, <1>5, <1>6 DEF InOrder
<1> QED
  BY <1>3, <1>5, <1>6, <1>7 DEF longer

\* What is noted in a record leaves its turn.
LEMMA SameTurn ==
    ASSUME NEW record, NEW t, OfTurn(record, t), NoneIsNoRecord
    PROVE  /\ \A error : OfTurn(Ended(record, error), t)
           /\ \A frames, usage, count : /\ OfTurn(Observe(record, frames, usage, count), t)
                                        /\ Observe(record, frames, usage, count) # None
<1>1. record # None
  BY DEF OfTurn, NoneIsNoRecord
<1>2. \A error : OfTurn(Ended(record, error), t)
  BY DEF OfTurn, Ended
<1>3. \A frames, usage, count : OfTurn(Observe(record, frames, usage, count), t)
  BY <1>1 DEF OfTurn, Observe
<1> QED
  BY <1>2, <1>3 DEF OfTurn, NoneIsNoRecord

\* The record of the turn that is open, whatever was noted in it, makes the turns complete.
LEMMA FinishCompletes ==
    ASSUME IInv, phase # "over", NEW turn, NEW error,
           current = None => turn = None,
           current # None => turn # None /\ OfTurn(turn, asked)
    PROVE  InOrder(FinishTurn(turn, error), asked)
<1>1. CASE current = None
  BY <1>1 DEF IInv, Running, Closed, FinishTurn
<1>2. CASE current # None
  <2>1. InOrder(logs, asked - 1) /\ asked - 1 \in Nat
    BY <1>2 DEF IInv, Running, Closed, TurnIsLast
  <2>2. Ended(turn, error).turn = (asked - 1) + 1
    BY <1>2, SameTurn DEF IInv, OfTurn
  <2>3. InOrder(Append(logs, Ended(turn, error)), (asked - 1) + 1)
    BY <2>1, <2>2, OneMore
  <2> QED
    BY <1>2, <2>1, <2>3 DEF FinishTurn, IInv
<1> QED
  BY <1>1, <1>2

\* A record that is sent for the connection ends it.
LEMMA ConnectionEnds ==
    ASSUME NEW turns, InOrder(turns, asked), OfTurn(fin, 0), NEW record, OfTurn(record, 0), IInv,
           asked' = asked, current' = None, phase' = "over", logs' = Append(turns, record)
    PROVE  IInv'
<1>1. InOrder(turns, asked) /\ record.turn = 0 /\ logs' = Append(turns, record)
  BY DEF OfTurn
<1>2. PICK n : n = asked /\ InOrder(turns, n)
  OBVIOUS
<1>3. \E t, r : InOrder(t, asked') /\ r.turn = 0 /\ logs' = Append(t, r)
  BY <1>1, <1>2
<1> QED
  BY <1>3 DEF IInv, TurnIsLast, Running, Over
-----------------------------------------------------------------------------
\* The records of a connection that has not begun.
LEMMA InvInit == ASSUME NoneIsNoRecord PROVE Init => IInv
<1> SUFFICES ASSUME Init PROVE IInv
  OBVIOUS
<1>1. InOrder(<<>>, 0)
  BY DEF InOrder, ToSet
<1>2. OfTurn(fin, 0)
  BY DEF Init, Template, OfTurn
<1> QED
  BY <1>1, <1>2 DEF Init, IInv, TurnIsLast, Running, Over, Closed

\* Every step keeps the order of the records.
LEMMA InvNext == IInv /\ [Next]_vars => IInv'
<1> SUFFICES ASSUME IInv, [Next]_vars PROVE IInv'
  OBVIOUS
<1>1. ASSUME NEW record, phase \in {"connecting", "upgrading", "tunnel"}, OfTurn(record, 0),
             FinishConnection(record)
      PROVE  IInv'
  <2>1. asked = 0 /\ current = None /\ phase # "over"
    BY <1>1 DEF IInv
  <2>2. InOrder(logs, asked) /\ OfTurn(fin, 0)
    BY <2>1 DEF IInv, Running, Closed
  <2> QED
    BY <1>1, <2>1, <2>2, ConnectionEnds DEF FinishConnection, peers
<1>2. CASE Dropped
  <2>1. phase \in {"connecting", "upgrading"} /\ OfTurn(fin, 0)
    BY <1>2 DEF Dropped, IInv, Running
  <2> QED
    BY <1>1, <1>2, <2>1 DEF Dropped
<1>3. CASE Refused
  <2>1. phase = "connecting" /\ OfTurn([fin EXCEPT !.status = 400], 0)
    BY <1>3 DEF Refused, IInv, Running, OfTurn
  <2> QED
    BY <1>1, <1>3, <2>1 DEF Refused
<1>4. ASSUME NEW error, TunnelEnds(error) PROVE IInv'
  <2>1. phase = "tunnel" /\ OfTurn([fin EXCEPT !.error = error], 0)
    BY <1>4 DEF TunnelEnds, IInv, Running, OfTurn
  <2> QED
    BY <1>1, <1>4, <2>1 DEF TunnelEnds
<1>5. ASSUME phase # "over", phase' # "over", logs' = logs, asked' = asked, OfTurn(fin', 0),
             phase' \in {"connecting", "upgrading", "tunnel"} => asked = 0 /\ current = None,
             \/ current' = current
             \/ current # None /\ current' # None /\ OfTurn(current', asked)
      PROVE  IInv'
  <2>1. TurnIsLast' /\ Closed' = Closed
    BY <1>5 DEF IInv, TurnIsLast, Closed
  <2>2. PICK n : n = Closed /\ InOrder(logs, n)
    BY <1>5 DEF IInv, Running
  <2>3. InOrder(logs', Closed')
    BY <1>5, <2>1, <2>2
  <2>4. InOrder(logs, Closed)'
    BY <2>3 DEF InOrder
  <2> QED
    BY <1>5, <2>1, <2>4 DEF IInv, Running, Over, OfTurn
<1>6. CASE Switch
  <2>1. OfTurn(fin', 0)
    BY <1>6 DEF Switch, IInv, Running, OfTurn
  <2> QED
    BY <1>5, <1>6, <2>1 DEF Switch, peers, IInv
<1>7. CASE Upgraded
  BY <1>5, <1>7 DEF Upgraded, peers, IInv, Running, OfTurn
<1>8. ASSUME NEW error, Closes(error) PROVE IInv'
  BY <1>5, <1>8 DEF Closes, peers, IInv, Running, OfTurn
<1>9. ASSUME NEW body, NEW ok, ClientRequest(body, ok) PROVE IInv'
  <2>1. /\ phase = "relaying" /\ fin' = fin /\ asked' = asked + 1 /\ logs' = FinishTurn(current, None)
        /\ current' = [Template(session) EXCEPT !.turn = asked + 1] /\ phase' \in {"relaying", "closing"}
    BY <1>9 DEF ClientRequest, Sent
  <2>2. OfTurn(current', asked + 1) /\ current' # None
    BY <2>1 DEF Template, OfTurn, IInv, NoneIsNoRecord
  <2>3. InOrder(FinishTurn(current, None), asked)
    BY <2>1, FinishCompletes DEF IInv, TurnIsLast
  <2>4. Closed' = asked
    BY <2>1, <2>2 DEF Closed, IInv
  <2>5. PICK n : n = asked /\ InOrder(FinishTurn(current, None), n)
    BY <2>3
  <2>6. Running'
    BY <2>1, <2>4, <2>5 DEF Running, IInv, OfTurn
  <2> QED
    BY <2>1, <2>2, <2>6 DEF IInv, TurnIsLast, Over
<1>10. ASSUME NEW body, NEW ok, ClientText(body, ok) PROVE IInv'
  BY <1>5, <1>10 DEF ClientText, Sent, peers, IInv, Running, OfTurn
<1>11. ASSUME NEW answer, Begin(answer) PROVE IInv'
  BY <1>5, <1>11 DEF Begin, relay, IInv, Running, OfTurn
<1>12. ASSUME NEW n, ServerText(n) PROVE IInv'
  <2>1. /\ phase = "relaying" /\ phase' \in {"relaying", "closing"} /\ fin' = fin /\ asked' = asked
        /\ \E ev, out :
              LET turn == Observe(current, out.frames, ParseUsage(session.api, ev), out.count) IN
              /\ logs' = IF IsTerminal(ev) THEN FinishTurn(turn, None) ELSE logs
              /\ current' = IF IsTerminal(ev) THEN None ELSE turn
    BY <1>12 DEF ServerText, Sent
  <2>2. PICK ev, out :
          LET turn == Observe(current, out.frames, ParseUsage(session.api, ev), out.count) IN
          /\ logs' = IF IsTerminal(ev) THEN FinishTurn(turn, None) ELSE logs
          /\ current' = IF IsTerminal(ev) THEN None ELSE turn
    BY <2>1
  <2> DEFINE turn == Observe(current, out.frames, ParseUsage(session.api, ev), out.count)
  <2>3. \/ logs' = FinishTurn(turn, None) /\ current' = None
        \/ logs' = logs /\ current' = turn
    BY <2>2
  <2>4. current = None => turn = None
    BY DEF Observe
  <2>5. current # None => turn # None /\ OfTurn(turn, asked)
    BY SameTurn DEF IInv, TurnIsLast
  <2> HIDE DEF turn
  <2>6. CASE logs' = FinishTurn(turn, None) /\ current' = None
    <3>1. PICK m : m = asked /\ InOrder(FinishTurn(turn, None), m)
      BY <2>1, <2>4, <2>5, FinishCompletes
    <3>2. Running'
      BY <2>1, <2>6, <3>1 DEF Running, Closed, IInv, OfTurn
    <3> QED
      BY <2>1, <2>6, <3>2 DEF IInv, TurnIsLast, Over
  <2>7. CASE logs' = logs /\ current' = turn
    <3>1. current' = current \/ (current # None /\ current' # None /\ OfTurn(current', asked))
      BY <2>4, <2>5, <2>7
    <3>2. phase # "over" /\ phase' # "over" /\ OfTurn(fin', 0)
      BY <2>1 DEF IInv, Running, OfTurn
    <3> QED
      BY <1>5, <2>1, <2>7, <3>1, <3>2
  <2> QED
    BY <2>3, <2>6, <2>7
<1>13. CASE GiveUp
  BY <1>5, <1>13 DEF GiveUp, relay, IInv, Running, OfTurn
<1>14. CASE ServerPlain
  <2>1. /\ phase = "relaying" /\ phase' = phase /\ fin' = fin /\ logs' = logs /\ asked' = asked
        /\ current' = current \/ (current # None /\ current' = [current EXCEPT !.restored = @ + 1])
    BY <1>14 DEF ServerPlain
  <2>2. ASSUME current # None, current' = [current EXCEPT !.restored = @ + 1]
        PROVE  OfTurn(current', asked) /\ current' # None
    BY <2>2 DEF IInv, TurnIsLast, OfTurn, NoneIsNoRecord
  <2>3. current' = current \/ (current # None /\ current' # None /\ OfTurn(current', asked))
    BY <2>1, <2>2
  <2>4. phase # "over" /\ phase' # "over" /\ OfTurn(fin', 0)
    BY <2>1 DEF IInv, Running, OfTurn
  <2> QED
    BY <1>5, <2>1, <2>3, <2>4
<1>15. CASE OnClose
  <2>1. /\ phase = "closing" /\ phase' = "over" /\ asked' = asked /\ current' = None
        /\ logs' = Append(FinishTurn(current, failure), fin)
    BY <1>15 DEF OnClose, peers
  <2>2. InOrder(FinishTurn(current, failure), asked) /\ OfTurn(fin, 0)
    BY <2>1, FinishCompletes DEF IInv, TurnIsLast, Running
  <2> QED
    BY <2>1, <2>2, ConnectionEnds
<1>16. CASE UNCHANGED vars
  BY <1>16 DEF vars, relay, peers, IInv, TurnIsLast, Running, Over, Closed, InOrder, OfTurn
<1> QED
  BY <1>2, <1>3, <1>4, <1>6, <1>7, <1>8, <1>9, <1>10, <1>11, <1>12, <1>13, <1>14, <1>15, <1>16 DEF Next
-----------------------------------------------------------------------------
\* What the order of the records says of their number.
LEMMA InvRecordedOnce == IInv => RecordedOnce
<1> SUFFICES ASSUME IInv PROVE RecordedOnce
  OBVIOUS
<1>1. asked \in Nat /\ Closed \in Nat
  BY DEF IInv, TurnIsLast, Closed
<1>2. CASE phase # "over"
  <2>1. Len(logs) = Closed /\ DOMAIN logs = 1 .. Closed /\ \A i \in 1 .. Closed : logs[i].turn = i
    BY <1>2 DEF IInv, Running, InOrder
  <2>2. RecordsOf(0) = {} /\ \A t \in Nat : t > Closed => RecordsOf(t) = {}
    BY <1>1, <2>1 DEF RecordsOf
  <2>3. \A t \in 1 .. Closed : RecordsOf(t) = {t}
    BY <2>1 DEF RecordsOf
  <2>4. ASSUME NEW t \in 1 .. asked
        PROVE  Cardinality(RecordsOf(t)) = IF current # None /\ current.turn = t THEN 0 ELSE 1
    <3>1. CASE t \in 1 .. Closed
      <4>1. ~(current # None /\ current.turn = t)
        BY <3>1 DEF IInv, TurnIsLast, OfTurn, Closed
      <4>2. Cardinality(RecordsOf(t)) = 1
        BY <2>3, <3>1, FS_Singleton
      <4> QED
        BY <4>1, <4>2
    <3>2. CASE t \notin 1 .. Closed
      <4>1. t > Closed /\ t \in Nat
        BY <1>1, <3>2
      <4>2. current # None /\ current.turn = t
        BY <4>1, <1>1 DEF IInv, TurnIsLast, OfTurn, Closed
      <4>3. Cardinality(RecordsOf(t)) = 0
        BY <2>2, <4>1, FS_EmptySet
      <4> QED
        BY <4>2, <4>3
    <3> QED
      BY <3>1, <3>2
  <2>5. Cardinality(RecordsOf(0)) = 0
    BY <2>2, FS_EmptySet
  <2>6. Len(logs) <= asked + 1
    BY <1>1, <2>1 DEF Closed
  <2> QED
    BY <1>2, <2>4, <2>5, <2>6 DEF RecordedOnce
<1>3. CASE phase = "over"
  <2>1. PICK turns, record : InOrder(turns, asked) /\ record.turn = 0 /\ logs = Append(turns, record)
    BY <1>3 DEF IInv, Over
  <2>2. current = None
    BY <1>3 DEF IInv, Over
  <2>3. /\ Len(logs) = asked + 1 /\ logs \in Seq(ToSet(logs))
        /\ \A i \in 1 .. asked : logs[i].turn = i
        /\ logs[asked + 1].turn = 0
    BY <1>1, <2>1, OneMore
  <2>4. DOMAIN logs = 1 .. asked + 1
    BY <2>3
  <2>5. RecordsOf(0) = {asked + 1} /\ \A t \in 1 .. asked : RecordsOf(t) = {t}
    BY <1>1, <2>3, <2>4 DEF RecordsOf
  <2>6. Cardinality(RecordsOf(0)) = 1 /\ \A t \in 1 .. asked : Cardinality(RecordsOf(t)) = 1
    BY <2>5, FS_Singleton
  <2> QED
    BY <1>1, <1>3, <2>2, <2>3, <2>6 DEF RecordedOnce
<1> QED
  BY <1>2, <1>3

\* Every turn leaves one record, and the connection one (LogFinalizer, finish_turn), however
\* the sides interleave, close or break, for any number of turns, bodies and answers.
THEOREM EachTurnRecordedOnce == ASSUME NoneIsNoRecord PROVE Spec => []RecordedOnce
<1>1. Spec => []IInv
  BY InvInit, InvNext, PTL DEF Spec
<1> QED
  BY <1>1, InvRecordedOnce, PTL
-----------------------------------------------------------------------------
\* None is no usage.
NoneIsNoUsage == "error" \notin DOMAIN None

\* A record has the fields that are written in it.
Shaped(record) == {"turn", "status", "error", "usage", "bytes", "restored"} \subseteq DOMAIN record

\* What a record has noted when the API has reported this.
Noted(usage, reported) ==
    \/ usage = None /\ reported = NoUsage
    \/ usage # None /\ usage = reported /\ "error" \in DOMAIN usage

\* What has been reported with one usage more.
Noting(reported, usage) == IF usage = NoUsage THEN reported ELSE Merge(reported, usage)

\* The turns that have an answer.
Begun == {t \in Turns : answers[t] # None}

\* Types of the turns and of the open record.
TurnTypes ==
    /\ asked \in 0 .. MaxTurns /\ session.api \in Apis
    /\ DOMAIN answers = Turns /\ \A t \in Begun : answers[t] \in Answers[session.api]
    /\ place \in [Turns -> Nat] /\ \A t \in Turns : t \notin Begun => place[t] = 0
    /\ current # None => Shaped(current)

\* The answers come in the order of the turns, and an orderly client has had all but the
\* last one, which is arriving if it has begun.
AnswersInOrder ==
    /\ \E n \in 0 .. asked : Begun = 1 .. n /\ answering \in {0, n}
    /\ answered \subseteq Begun /\ answering \notin answered
    /\ orderly => 1 .. asked - 1 \subseteq answered
    /\ orderly /\ phase = "relaying" /\ asked \in Begun /\ asked \notin answered =>
        answering = asked /\ place[asked] < Len(answers[asked].events)

\* The inductive invariant of the turns.
TurnsInv == IInv /\ TurnTypes /\ AnswersInOrder

\* While the last request of such a client waits for the rest of its answer, its record is open
\* and has what the answer has reported so far.
OpenRecordIsTrue ==
    orderly /\ phase = "relaying" /\ asked > 0 /\ asked \notin answered =>
        /\ current # None
        /\ asked \notin Begun => current.usage = None
        /\ asked \in Begun =>
            Noted(current.usage, Reported(session.api, answers[asked].events)[place[asked]])

\* The record of a turn t among the records of turns, whose usage is known.
Tells(record, t) ==
    record.turn = t =>
        /\ record.usage # None /\ record.usage = answers[t].usage

\* A record that was sent for turn t has what its answer reported.
RecordTells(record, t) ==
    record.turn = t =>
        /\ record.usage = answers[t].usage
        /\ answers[t].usage.error # None => record.error = answers[t].usage.error

\* All records, open or sent.
RecordsTell ==
    /\ \A t \in answered : current # None => Tells(current, t)
    /\ \A t \in answered : \A i \in DOMAIN logs : RecordTells(logs[i], t)

\* The inductive invariant of the usage.
UsageInv ==
    /\ NoneIsNoUsage /\ AnswersReport
    /\ TurnsInv /\ OpenRecordIsTrue /\ RecordsTell
-----------------------------------------------------------------------------
\* A set of numbers that is not empty has a least one.
LEMMA Least == ASSUME NEW S, S \subseteq Nat, S # {} PROVE \E x \in S : \A y \in S : x <= y
<1> DEFINE Below == {0 .. x : x \in S}
           R == StrictSubsetOrdering(Nat)
<1>1. IsWellFoundedOn(R, FiniteSubsetsOf(Nat))
  BY FS_StrictSubsetOrderingWellFounded
<1>2. ASSUME NEW x \in S PROVE 0 .. x \in FiniteSubsetsOf(Nat)
  <2>1. IsFiniteSet(0 .. x)
    BY FS_Interval
  <2> QED
    BY <2>1 DEF FiniteSubsetsOf
<1>3. PICK x \in S : \A y \in S : <<0 .. y, 0 .. x>> \notin R
  <2>1. Below \subseteq FiniteSubsetsOf(Nat) /\ Below # {}
    BY <1>2
  <2>2. PICK b \in Below : \A c \in Below : <<c, b>> \notin R
    <3> HIDE DEF Below, R
    <3> QED
      BY <1>1, <2>1, WFMin
  <2> HIDE DEF R
  <2> QED
    BY <2>2
<1>4. ASSUME NEW y \in S, y < x PROVE FALSE
  <2>1. 0 .. y \subseteq 0 .. x /\ 0 .. y # 0 .. x /\ 0 .. x \subseteq Nat
    BY <1>4
  <2> QED
    BY <1>3, <2>1 DEF StrictSubsetOrdering
<1> QED
  BY <1>3, <1>4

\* What the API has reported, event by event.
Reports(told, api, events, m) ==
    told = [n \in 0 .. m |-> IF n = 0 THEN NoUsage ELSE Noting(told[n - 1], ParseUsage(api, events[n]))]

\* What has been reported is a function that exists, for every number of events.
LEMMA ReportedIs ==
    ASSUME NEW api, NEW events, Len(events) \in Nat
    PROVE  Reports(Reported(api, events), api, events, Len(events))
<1> DEFINE bad == {m \in Nat : ~ \E told : Reports(told, api, events, m)}
<1>1. bad = {}
  <2> SUFFICES ASSUME bad # {} PROVE FALSE
    OBVIOUS
  <2>1. PICK m \in bad : \A k \in bad : m <= k
    BY Least
  <2>2. CASE m = 0
    <3> DEFINE told == [n \in 0 .. 0 |-> NoUsage]
    <3>1. Reports(told, api, events, 0)
      BY DEF Reports
    <3> QED
      BY <2>1, <2>2, <3>1
  <2>3. CASE m # 0
    <3>1. m - 1 \in Nat /\ m - 1 \notin bad
      BY <2>1, <2>3
    <3>2. PICK f : Reports(f, api, events, m - 1)
      BY <3>1
    <3> DEFINE told == [n \in 0 .. m |-> IF n = m THEN Noting(f[m - 1], ParseUsage(api, events[m])) ELSE f[n]]
    <3>3. ASSUME NEW n \in 0 .. m
          PROVE  told[n] = IF n = 0 THEN NoUsage ELSE Noting(told[n - 1], ParseUsage(api, events[n]))
      <4>1. CASE n = m
        <5>1. told[n - 1] = f[m - 1] /\ n # 0
          BY <2>3, <3>1, <4>1
        <5> QED
          BY <4>1, <5>1
      <4>2. CASE n = 0
        BY <2>3, <3>1, <3>2, <4>2 DEF Reports
      <4>3. CASE n # m /\ n # 0
        <5>1. n \in 0 .. m - 1 /\ n - 1 \in 0 .. m - 1
          BY <3>1, <4>3
        <5>2. told[n] = f[n] /\ told[n - 1] = f[n - 1]
          BY <3>1, <4>3, <5>1
        <5>3. f[n] = Noting(f[n - 1], ParseUsage(api, events[n]))
          BY <3>2, <4>3, <5>1 DEF Reports
        <5> QED
          BY <4>3, <5>2, <5>3
      <4> QED
        BY <4>1, <4>2, <4>3
    <3>4. told = [n \in 0 .. m |-> told[n]]
      OBVIOUS
    <3> HIDE DEF told
    <3>5. Reports(told, api, events, m)
      BY <3>3, <3>4 DEF Reports
    <3> QED
      BY <2>1, <3>5
  <2> QED
    BY <2>2, <2>3
<1>2. \E told : Reports(told, api, events, Len(events))
  BY <1>1
<1>3. Reported(api, events) = CHOOSE told : Reports(told, api, events, Len(events))
  BY DEF Reported, Reports, Noting
<1> QED
  BY <1>2, <1>3

\* One event more, and what it adds.
LEMMA ReportedStep ==
    ASSUME NEW api, NEW events, Len(events) \in Nat
    PROVE  LET told == Reported(api, events) IN
           /\ told[0] = NoUsage
           /\ \A n \in 0 .. Len(events) - 1 : told[n + 1] = Noting(told[n], ParseUsage(api, events[n + 1]))
<1>1. Reports(Reported(api, events), api, events, Len(events))
  BY ReportedIs
<1>2. PICK told : told = Reported(api, events)
  OBVIOUS
<1>3. told[0] = NoUsage
  BY <1>1, <1>2 DEF Reports
<1>4. ASSUME NEW n \in 0 .. Len(events) - 1
      PROVE  told[n + 1] = Noting(told[n], ParseUsage(api, events[n + 1]))
  <2>1. n + 1 \in 0 .. Len(events) /\ n + 1 # 0 /\ (n + 1) - 1 = n
    OBVIOUS
  <2> QED
    BY <1>1, <1>2, <2>1 DEF Reports
<1> QED
  BY <1>2, <1>3, <1>4
-----------------------------------------------------------------------------
\* What is noted in an open record.
LEMMA ObserveNotes ==
    ASSUME NEW record, Shaped(record), record # None, NoneIsNoUsage, NoneIsNoRecord,
           NEW frames, NEW usage, NEW count
    PROVE  LET noted == Observe(record, frames, usage, count) IN
           /\ Shaped(noted) /\ noted # None /\ noted.turn = record.turn
           /\ \A reported : Noted(record.usage, reported) => Noted(noted.usage, Noting(reported, usage))
<1> DEFINE merged == Merge(OrElse(record.usage, NoUsage), usage)
           noted == Observe(record, frames, usage, count)
<1>1. /\ DOMAIN noted = DOMAIN record /\ noted.turn = record.turn
      /\ noted.usage = IF usage = NoUsage THEN record.usage ELSE merged
  BY DEF Observe, Shaped
<1>2. Shaped(noted) /\ noted # None
  BY <1>1 DEF Shaped, NoneIsNoRecord
<1>3. ASSUME NEW reported, Noted(record.usage, reported) PROVE Noted(noted.usage, Noting(reported, usage))
  <2>1. CASE usage = NoUsage
    BY <1>1, <1>3, <2>1 DEF Noting
  <2>2. CASE usage # NoUsage
    <3>1. OrElse(record.usage, NoUsage) = reported
      BY <1>3 DEF Noted, OrElse
    <3>2. "error" \in DOMAIN reported
      BY <1>3 DEF Noted, NoUsage
    <3>3. "error" \in DOMAIN Merge(reported, usage)
      BY <3>2 DEF Merge
    <3>4. Merge(reported, usage) # None
      BY <3>3 DEF NoneIsNoUsage
    <3>5. noted.usage = Merge(reported, usage) /\ Noting(reported, usage) = Merge(reported, usage)
      BY <1>1, <2>2, <3>1 DEF Noting
    <3> QED
      BY <3>3, <3>4, <3>5 DEF Noted
  <2> QED
    BY <2>1, <2>2
<1> QED
  BY <1>1, <1>2, <1>3

\* What is noted in a record keeps its fields.
LEMMA ObserveShaped ==
    ASSUME NEW record, Shaped(record), record # None, NEW frames, NEW usage, NEW count
    PROVE  Shaped(Observe(record, frames, usage, count))
  BY DEF Observe, Shaped

\* The record that is sent for a turn tells what it had noted, and the error above all.
LEMMA EndedTells ==
    ASSUME NEW record, Shaped(record), NEW t, Tells(record, t), NEW error
    PROVE  RecordTells(Ended(record, error), t)
<1>1. /\ Ended(record, error).turn = record.turn /\ Ended(record, error).usage = record.usage
      /\ Ended(record, error).error =
            IF record.usage = None THEN error ELSE OrElse(record.usage.error, error)
  BY DEF Ended, Shaped
<1> QED
  BY <1>1 DEF Tells, RecordTells, OrElse

\* So do all records when the open one is sent.
LEMMA FinishTells ==
    ASSUME NEW S, logs \in Seq(ToSet(logs)), \A t \in S : \A i \in DOMAIN logs : RecordTells(logs[i], t),
           NEW turn, turn # None => Shaped(turn) /\ \A t \in S : Tells(turn, t), NEW error
    PROVE  /\ FinishTurn(turn, error) \in Seq(ToSet(logs) \cup {Ended(turn, error)})
           /\ \A t \in S : \A i \in DOMAIN FinishTurn(turn, error) : RecordTells(FinishTurn(turn, error)[i], t)
<1> DEFINE ended == Ended(turn, error)
           longer == Append(logs, ended)
<1>1. CASE turn = None
  BY <1>1 DEF FinishTurn
<1>2. CASE turn # None
  <2>1. \A t \in S : RecordTells(ended, t)
    BY <1>2, EndedTells
  <2> HIDE DEF ended
  <2>2. PICK C : C = ToSet(logs) \cup {ended}
    OBVIOUS
  <2>3. logs \in Seq(C) /\ ended \in C
    BY <2>2
  <2>4. /\ longer \in Seq(C) /\ \A i \in DOMAIN longer : i \in DOMAIN logs \/ i = Len(logs) + 1
        /\ \A i \in DOMAIN logs : longer[i] = logs[i]
        /\ longer[Len(logs) + 1] = ended
    BY <2>3
  <2> HIDE DEF longer
  <2>5. ASSUME NEW t \in S, NEW i \in DOMAIN longer PROVE RecordTells(longer[i], t)
    BY <2>1, <2>4, <2>5
  <2> QED
    BY <1>2, <2>2, <2>4, <2>5 DEF FinishTurn, longer, ended
<1> QED
  BY <1>1, <1>2
-----------------------------------------------------------------------------
\* The turns and their answers.
LEMMA TurnsInit == ASSUME NoneIsNoRecord, Init PROVE TurnsInv
<1>1. IInv
  BY InvInit
<1>2. TurnTypes /\ Begun = {}
  BY RelayAssumption DEF Init, TurnTypes, Begun, Turns
<1>3. AnswersInOrder
  <2>1. Begun = 1 .. 0 /\ 0 \in 0 .. asked /\ answering = 0 /\ answered = {} /\ asked = 0
    BY <1>2 DEF Init
  <2> QED
    BY <2>1 DEF AnswersInOrder
<1> QED
  BY <1>1, <1>2, <1>3 DEF TurnsInv

\* Before the end the records that were sent are those of the turns that have ended.
LEMMA SentBefore ==
    ASSUME IInv, phase # "over"
    PROVE  /\ logs \in Seq(ToSet(logs))
           /\ current # None => /\ current.turn = asked /\ asked > 0
                                /\ \A i \in DOMAIN logs : logs[i].turn \in 1 .. asked - 1
<1>1. InOrder(logs, Closed) /\ asked \in Nat /\ TurnIsLast
  BY DEF IInv, Running
<1>2. ASSUME current # None
      PROVE  current.turn = asked /\ asked > 0 /\ \A i \in DOMAIN logs : logs[i].turn \in 1 .. asked - 1
  <2>1. current.turn = asked /\ asked > 0 /\ Closed = asked - 1
    BY <1>1, <1>2 DEF TurnIsLast, OfTurn, Closed
  <2>2. DOMAIN logs = 1 .. asked - 1
    BY <1>1, <2>1 DEF InOrder
  <2> QED
    BY <1>1, <2>1, <2>2 DEF InOrder
<1> QED
  BY <1>1, <1>2 DEF InOrder

\* The turn whose answer is arriving is the last one, if the client is orderly, and it has not
\* been answered in any case.
LEMMA AnsweringLast ==
    ASSUME TurnsInv, answering # 0
    PROVE  /\ answering \in 1 .. asked /\ answering \in Begun /\ asked \notin answered
           /\ answering \in Turns /\ asked \in 0 .. MaxTurns /\ session.api \in Apis
           /\ orderly => answering = asked /\ asked \in Begun
           /\ answers[answering] \in Answers[session.api]
           /\ answers[answering].events \in Seq(ToSet(answers[answering].events))
<1>1. PICK n : n \in 0 .. asked /\ Begun = 1 .. n /\ answering = n
  BY DEF TurnsInv, AnswersInOrder
<1>2. asked \in 0 .. MaxTurns /\ MaxTurns \in Nat \ {0} /\ session.api \in Apis
  BY RelayAssumption DEF TurnsInv, TurnTypes
<1>3. answering \in 1 .. asked /\ answering \in Begun /\ answering \in Turns
  BY <1>1, <1>2 DEF Turns
<1>4. asked \notin answered
  <2> SUFFICES ASSUME asked \in answered PROVE FALSE
    OBVIOUS
  <2>1. asked \in Begun /\ answering \notin answered
    BY DEF TurnsInv, AnswersInOrder
  <2> QED
    BY <1>1, <1>2, <2>1
<1>5. ASSUME orderly PROVE answering = asked
  <2>1. 1 .. asked - 1 \subseteq answered /\ answering \notin answered
    BY <1>5 DEF TurnsInv, AnswersInOrder
  <2> QED
    BY <1>2, <1>3, <2>1
<1>6. answers[answering] \in Answers[session.api]
  BY <1>3 DEF TurnsInv, TurnTypes
<1>7. answers[answering].events \in Seq(ToSet(answers[answering].events))
  BY <1>2, <1>6, RelayAssumption
<1> QED
  BY <1>2, <1>3, <1>4, <1>5, <1>6, <1>7

\* A step that has nothing to do with answers keeps their order.
LEMMA TurnsStay ==
    ASSUME TurnsInv, IInv', UNCHANGED <<session, asked, answering, answers, place, answered>>,
           orderly' => orderly, current' # None => Shaped(current'),
           phase' = "relaying" => phase = "relaying" \/ asked = 0
    PROVE  TurnsInv'
<1>1. TurnTypes'
  BY DEF TurnsInv, TurnTypes, Begun
<1>2. asked = 0 => asked \notin Begun
  BY DEF Begun, Turns
<1>3. AnswersInOrder'
  BY <1>2 DEF TurnsInv, AnswersInOrder, Begun
<1> QED
  BY <1>1, <1>3 DEF TurnsInv

\* A new turn has not begun.
LEMMA RequestTurns ==
    ASSUME TurnsInv, NEW body, NEW ok, ClientRequest(body, ok), IInv'
    PROVE  /\ TurnsInv' /\ current' # None /\ current'.usage = None /\ current'.turn = asked + 1
           /\ asked' \notin Begun' /\ asked' = asked + 1 /\ answered \subseteq 1 .. asked
<1>1. /\ phase = "relaying" /\ asked < MaxTurns /\ asked' = asked + 1
      /\ current' = [Template(session) EXCEPT !.turn = asked + 1]
      /\ orderly' = (orderly /\ asked \in answered \cup {0})
      /\ UNCHANGED <<session, answering, answers, place, answered>>
  BY DEF ClientRequest
<1>2. asked \in 0 .. MaxTurns /\ MaxTurns \in Nat \ {0}
  BY RelayAssumption DEF TurnsInv, TurnTypes
<1>3. Shaped(current') /\ current' # None /\ current'.usage = None /\ current'.turn = asked + 1
  BY <1>1 DEF Shaped, Template, TurnsInv, IInv, NoneIsNoRecord
<1>4. PICK n \in 0 .. asked : Begun = 1 .. n /\ answering \in {0, n}
  BY DEF TurnsInv, AnswersInOrder
<1>5. answered \subseteq 1 .. asked
  BY <1>2, <1>4 DEF TurnsInv, AnswersInOrder
<1>6. TurnTypes'
  BY <1>1, <1>2, <1>3 DEF TurnsInv, TurnTypes, Begun
<1>7. Begun' = Begun /\ asked' \notin Begun'
  BY <1>1, <1>2, <1>4 DEF Begun
<1>8. \E m \in 0 .. asked' : Begun' = 1 .. m /\ answering' \in {0, m}
  BY <1>1, <1>2, <1>4, <1>7
<1>9. orderly' => 1 .. asked' - 1 \subseteq answered'
  <2> SUFFICES ASSUME orderly' PROVE 1 .. asked \subseteq answered
    BY <1>1, <1>2
  <2>1. 1 .. asked - 1 \subseteq answered /\ (asked \in answered \/ asked = 0)
    BY <1>1 DEF TurnsInv, AnswersInOrder
  <2> QED
    BY <1>2, <2>1
<1>10. AnswersInOrder'
  BY <1>1, <1>7, <1>8, <1>9 DEF TurnsInv, AnswersInOrder
<1> QED
  BY <1>1, <1>3, <1>5, <1>6, <1>7, <1>10 DEF TurnsInv

\* The upstream begins with the answer to the next turn; for an orderly client that is the last.
LEMMA BeginTurns ==
    ASSUME TurnsInv, NEW answer \in Answers[session.api], Begin(answer), IInv'
    PROVE  /\ TurnsInv' /\ UNCHANGED <<session, relay, request, asked, place, delivered, orderly, answered, plain>>
           /\ \E t \in 1 .. asked :
                 /\ t \in Turns /\ t \notin Begun /\ t \notin answered /\ Begun' = Begun \cup {t}
                 /\ answers'[t] = answer /\ \A u \in Turns : u # t => answers'[u] = answers[u]
                 /\ place[t] = 0 /\ (orderly => t = asked)
           /\ answer.events \in Seq(ToSet(answer.events)) /\ answer.events # <<>>
<1> DEFINE t == Cardinality(Begun) + 1
<1>1. /\ phase = "relaying" /\ answering = 0 /\ t <= asked /\ answering' = t
      /\ answers' = [answers EXCEPT ![t] = answer]
      /\ UNCHANGED <<session, relay, request, asked, place, delivered, orderly, answered, plain>>
  BY DEF Begin, Begun
<1>2. PICK n \in 0 .. asked : Begun = 1 .. n
  BY DEF TurnsInv, AnswersInOrder
<1>3. asked \in 0 .. MaxTurns /\ MaxTurns \in Nat \ {0}
  BY RelayAssumption DEF TurnsInv, TurnTypes
<1>4. t = n + 1
  <2>1. Cardinality(1 .. n) = n
    BY <1>3, FS_Interval
  <2> QED
    BY <1>2, <2>1
<1> HIDE DEF t
<1>5. t \in Turns /\ t \in 1 .. asked /\ t \notin Begun
  BY <1>1, <1>2, <1>3, <1>4 DEF Turns
<1>6. /\ answer # None /\ answer.events \in Seq(ToSet(answer.events)) /\ answer.events # <<>>
      /\ Len(answer.events) \in Nat /\ Len(answer.events) > 0
  <2>1. session.api \in Apis
    BY DEF TurnsInv, TurnTypes
  <2>2. answer # None /\ answer.events \in Seq(ToSet(answer.events)) /\ answer.events # <<>>
    BY <2>1, RelayAssumption
  <2> QED
    BY <2>2
<1>7. answers'[t] = answer /\ DOMAIN answers' = Turns /\ \A u \in Turns : u # t => answers'[u] = answers[u]
  BY <1>1, <1>5 DEF TurnsInv, TurnTypes
<1>8. Begun' = Begun \cup {t} /\ Begun' = 1 .. t
  <2>1. Begun' = Begun \cup {t}
    BY <1>5, <1>6, <1>7 DEF Begun
  <2> QED
    BY <1>2, <1>3, <1>4, <2>1
<1>9. TurnTypes'
  <2>1. \A u \in Begun' : answers'[u] \in Answers[session.api]
    BY <1>7, <1>5 DEF TurnsInv, TurnTypes, Begun
  <2>2. \A u \in Turns : u \notin Begun' => place[u] = 0
    BY <1>7, <1>6 DEF TurnsInv, TurnTypes, Begun
  <2> QED
    BY <1>1, <1>7, <2>1, <2>2 DEF TurnsInv, TurnTypes, relay
<1>10. t \notin answered /\ place[t] = 0
  BY <1>5 DEF TurnsInv, AnswersInOrder, TurnTypes
<1>11. ASSUME orderly PROVE t = asked
  <2>1. 1 .. asked - 1 \subseteq Begun
    BY <1>11 DEF TurnsInv, AnswersInOrder
  <2> QED
    BY <1>2, <1>3, <1>4, <1>5, <2>1
<1>12. AnswersInOrder'
  <2>1. t \in 0 .. asked
    BY <1>5
  <2>2. answered \subseteq Begun'
    BY <1>8 DEF TurnsInv, AnswersInOrder
  <2>3. orderly => 1 .. asked - 1 \subseteq answered
    BY DEF TurnsInv, AnswersInOrder
  <2>4. orderly => answers'[asked] = answer /\ place[asked] < Len(answers'[asked].events)
    BY <1>6, <1>7, <1>10, <1>11
  <2> QED
    BY <1>1, <1>8, <1>10, <1>11, <2>1, <2>2, <2>3, <2>4 DEF AnswersInOrder
<1> QED
  BY <1>1, <1>5, <1>6, <1>7, <1>8, <1>9, <1>10, <1>11, <1>12 DEF TurnsInv

\* An event of the answer.
LEMMA EventTurns ==
    ASSUME TurnsInv, NEW n, ServerText(n), IInv'
    PROVE  TurnsInv'
<1> DEFINE a == answers[answering]
           ev == a.events[place[answering] + 1]
           last == place[answering] + 1 = Len(a.events)
<1>1. /\ phase = "relaying" /\ answering # 0
      /\ place' = [place EXCEPT ![answering] = @ + 1]
      /\ answering' = IF last THEN 0 ELSE answering
      /\ UNCHANGED <<session, fin, failure, request, asked, answers, orderly, plain>>
  BY DEF ServerText
<1>2. PICK out :
        LET turn == Observe(current, out.frames, ParseUsage(session.api, ev), out.count) IN
        /\ Sent(n = Len(out.frames))
        /\ current' = IF IsTerminal(ev) THEN None ELSE turn
        /\ answered' = IF last /\ orderly /\ answering = asked /\ n = Len(out.frames)
                       THEN answered \cup {asked} ELSE answered
  BY DEF ServerText
<1> DEFINE turn == Observe(current, out.frames, ParseUsage(session.api, ev), out.count)
<1>3. /\ answering \in 1 .. asked /\ answering \in Begun /\ asked \notin answered
      /\ orderly => answering = asked /\ asked \in Begun
      /\ asked \in 0 .. MaxTurns /\ answering \in Turns
  BY <1>1, AnsweringLast
<1>4. Len(a.events) \in Nat
  <2>1. a.events \in Seq(ToSet(a.events))
    BY <1>1, AnsweringLast
  <2> QED
    BY <2>1
<1>5. place[answering] \in Nat /\ place'[answering] = place[answering] + 1
  BY <1>1, <1>3 DEF TurnsInv, TurnTypes
<1>6. current' # None => Shaped(current')
  <2>1. current = None => turn = None
    BY DEF Observe
  <2>2. current # None => Shaped(current)
    BY DEF TurnsInv, TurnTypes
  <2>3. current # None => Shaped(turn)
    BY <2>2, ObserveShaped
  <2> QED
    BY <1>2, <2>1, <2>3
<1>7. answered' = answered \/ (answered' = answered \cup {asked} /\ last /\ orderly)
  BY <1>2
<1>8. TurnTypes'
  <2>1. place' \in [Turns -> Nat] /\ \A t \in Turns : t \notin Begun => place'[t] = 0
    BY <1>1, <1>3, <1>5 DEF TurnsInv, TurnTypes
  <2>2. Begun' = Begun
    BY <1>1 DEF Begun
  <2> QED
    BY <1>1, <1>6, <2>1, <2>2 DEF TurnsInv, TurnTypes
<1>9. AnswersInOrder'
  <2>1. Begun' = Begun
    BY <1>1 DEF Begun
  <2>2. PICK m \in 0 .. asked : Begun = 1 .. m /\ answering = m
    BY <1>1 DEF TurnsInv, AnswersInOrder
  <2>3. answering' \in {0, m} /\ asked' = asked /\ orderly' = orderly
    BY <1>1, <2>2
  <2>4. answered' \subseteq Begun
    BY <1>3, <1>7 DEF TurnsInv, AnswersInOrder
  <2>5. answering' \notin answered'
    <3>1. CASE last
      BY <1>1, <1>3, <2>2, <2>4, <3>1
    <3>2. CASE ~last
      BY <1>1, <1>7, <3>2 DEF TurnsInv, AnswersInOrder
    <3> QED
      BY <3>1, <3>2
  <2>6. orderly => 1 .. asked - 1 \subseteq answered'
    BY <1>7 DEF TurnsInv, AnswersInOrder
  <2>7. \E k \in 0 .. asked' : Begun' = 1 .. k /\ answering' \in {0, k}
    BY <2>1, <2>2, <2>3
  <2>8. ASSUME orderly, phase' = "relaying", asked \notin answered'
        PROVE  answering' = asked /\ place'[asked] < Len(answers'[asked].events)
    <3>1. answering = asked /\ asked \in Begun
      BY <1>3, <2>8
    <3>2. n = Len(out.frames)
      BY <1>2, <2>8 DEF Sent
    <3>3. ~last
      BY <1>2, <2>8, <3>1, <3>2
    <3>4. place[asked] < Len(a.events)
      BY <1>1, <1>3, <2>8, <3>1 DEF TurnsInv, AnswersInOrder
    <3> QED
      BY <1>1, <1>4, <1>5, <3>1, <3>3, <3>4
  <2> QED
    BY <2>1, <2>3, <2>4, <2>5, <2>6, <2>7, <2>8 DEF AnswersInOrder
<1> QED
  BY <1>8, <1>9 DEF TurnsInv

\* Every step keeps the order of the turns.
LEMMA TurnsNext == TurnsInv /\ [Next]_vars => TurnsInv'
<1> SUFFICES ASSUME TurnsInv, [Next]_vars PROVE TurnsInv'
  OBVIOUS
<1>1. IInv'
  BY InvNext DEF TurnsInv
<1>2. current # None => Shaped(current)
  BY DEF TurnsInv, TurnTypes
<1>3. phase \in {"connecting", "upgrading", "tunnel"} => asked = 0
  BY DEF TurnsInv, IInv
<1>4. ASSUME NEW record, FinishConnection(record) PROVE TurnsInv'
  BY <1>1, <1>2, <1>4, TurnsStay DEF FinishConnection, peers
<1>5. CASE Dropped
  BY <1>4, <1>5 DEF Dropped
<1>6. CASE Refused
  <2>1. PICK record : record = [fin EXCEPT !.status = 400]
    OBVIOUS
  <2> QED
    BY <1>4, <1>6, <2>1 DEF Refused
<1>7. ASSUME NEW error, TunnelEnds(error) PROVE TurnsInv'
  <2>1. PICK record : record = [fin EXCEPT !.error = error]
    OBVIOUS
  <2> QED
    BY <1>4, <1>7, <2>1 DEF TunnelEnds
<1>8. CASE Switch \/ Upgraded
  BY <1>1, <1>2, <1>3, <1>8, TurnsStay DEF Switch, Upgraded, peers
<1>9. ASSUME NEW error, Closes(error) PROVE TurnsInv'
  BY <1>1, <1>2, <1>9, TurnsStay DEF Closes, peers
<1>10. ASSUME NEW body, NEW ok, ClientRequest(body, ok) PROVE TurnsInv'
  BY <1>1, <1>10, RequestTurns
<1>11. ASSUME NEW body, NEW ok, ClientText(body, ok) PROVE TurnsInv'
  BY <1>1, <1>2, <1>11, TurnsStay DEF ClientText, peers
<1>12. ASSUME NEW answer \in Answers[session.api], Begin(answer) PROVE TurnsInv'
  BY <1>1, <1>12, BeginTurns
<1>13. ASSUME NEW n, ServerText(n) PROVE TurnsInv'
  BY <1>1, <1>13, EventTurns
<1>14. CASE GiveUp
  <2>1. /\ UNCHANGED <<session, phase, current, logs, asked, answers, place, answered>>
        /\ phase = "relaying" /\ answering' = 0 /\ orderly' = FALSE
    BY <1>14 DEF GiveUp, relay
  <2>2. TurnTypes'
    BY <2>1 DEF TurnsInv, TurnTypes, Begun
  <2>3. answered \subseteq Begun /\ 0 \notin Begun
    BY DEF TurnsInv, AnswersInOrder, Begun, Turns
  <2>4. Begun' = Begun
    BY <2>1 DEF Begun
  <2>5. \E n \in 0 .. asked : Begun = 1 .. n
    BY DEF TurnsInv, AnswersInOrder
  <2>6. AnswersInOrder'
    BY <2>1, <2>3, <2>4, <2>5 DEF AnswersInOrder
  <2> QED
    BY <1>1, <2>2, <2>6 DEF TurnsInv
<1>15. CASE ServerPlain
  <2>1. /\ UNCHANGED <<session, phase, asked, answering, answers, place, orderly, answered>>
        /\ current' = current \/ (current # None /\ current' = [current EXCEPT !.restored = @ + 1])
    BY <1>15 DEF ServerPlain
  <2>2. current' # None => Shaped(current')
    BY <1>2, <2>1 DEF Shaped
  <2> QED
    BY <1>1, <2>1, <2>2, TurnsStay
<1>16. CASE OnClose
  BY <1>1, <1>16, TurnsStay DEF OnClose, peers
<1>17. CASE UNCHANGED vars
  BY <1>1, <1>2, <1>17, TurnsStay DEF vars, relay, peers
<1> QED
  BY <1>5, <1>6, <1>7, <1>8, <1>9, <1>10, <1>11, <1>12, <1>13, <1>14, <1>15, <1>16, <1>17 DEF Next
-----------------------------------------------------------------------------
\* The usage of the turns.
LEMMA UsageInit == ASSUME NoneIsNoUsage, NoneIsNoRecord, AnswersReport, Init PROVE UsageInv
<1>1. TurnsInv
  BY TurnsInit
<1>2. OpenRecordIsTrue /\ RecordsTell
  BY DEF Init, OpenRecordIsTrue, RecordsTell
<1> QED
  BY <1>1, <1>2 DEF UsageInv

\* A step that has nothing to do with answers keeps what is said of their usage.
LEMMA UsageStays ==
    ASSUME UsageInv, TurnsInv', UNCHANGED <<session, asked, answers, place, answered>>,
           orderly' => orderly,
           phase' = "relaying" => phase = "relaying" \/ asked = 0,
           phase' = "relaying" /\ orderly' /\ current # None => current' # None /\ current'.usage = current.usage,
           \A t \in answered : current' # None => Tells(current', t),
           \A t \in answered : \A i \in DOMAIN logs' : RecordTells(logs'[i], t)
    PROVE  UsageInv'
<1>1. OpenRecordIsTrue'
  BY DEF UsageInv, OpenRecordIsTrue, Begun
<1>2. RecordsTell'
  BY DEF RecordsTell, Tells, RecordTells
<1> QED
  BY <1>1, <1>2 DEF UsageInv, AnswersReport, Reported, NoneIsNoUsage

\* Nothing happens to the records either.
LEMMA UsageIdle ==
    ASSUME UsageInv, TurnsInv', UNCHANGED <<session, asked, answers, place, answered, current, logs>>,
           orderly' => orderly,
           phase' = "relaying" => phase = "relaying" \/ asked = 0
    PROVE  UsageInv'
  BY UsageStays DEF UsageInv, RecordsTell

\* The record of a connection that never relays, or its end.
LEMMA ConnectionKeeps ==
    ASSUME UsageInv, NEW record, phase \in {"connecting", "upgrading", "tunnel"}, FinishConnection(record), TurnsInv'
    PROVE  UsageInv'
<1>1. answered = {} /\ current = None
  <2>1. asked = 0 /\ current = None
    BY DEF UsageInv, TurnsInv, IInv
  <2> QED
    BY <2>1 DEF UsageInv, TurnsInv, AnswersInOrder
<1>2. phase' = "over" /\ current' = current /\ UNCHANGED <<session, asked, answers, place, answered, orderly>>
  BY DEF FinishConnection, peers
<1> QED
  BY <1>1, <1>2, UsageStays

\* The last record is sent, and then that of the connection.
LEMMA OnCloseKeeps == ASSUME UsageInv, OnClose, TurnsInv' PROVE UsageInv'
<1> DEFINE turns == FinishTurn(current, failure)
           all == Append(turns, fin)
<1>1. phase = "closing" /\ phase' = "over" /\ current' = None /\ logs' = all
  BY DEF OnClose
<1>2. logs \in Seq(ToSet(logs)) /\ fin.turn = 0
  BY <1>1, SentBefore DEF UsageInv, TurnsInv, IInv, Running, OfTurn
<1>3. /\ turns \in Seq(ToSet(logs) \cup {Ended(current, failure)})
      /\ \A t \in answered : \A i \in DOMAIN turns : RecordTells(turns[i], t)
  <2>1. current # None => Shaped(current) /\ \A t \in answered : Tells(current, t)
    BY DEF UsageInv, TurnsInv, TurnTypes, RecordsTell
  <2>2. \A t \in answered : \A i \in DOMAIN logs : RecordTells(logs[i], t)
    BY DEF UsageInv, RecordsTell
  <2> QED
    BY <1>2, <2>1, <2>2, FinishTells
<1>4. \A t \in answered : RecordTells(fin, t)
  <2>1. answered \subseteq 1 .. asked /\ asked \in Nat
    BY DEF UsageInv, TurnsInv, TurnTypes, AnswersInOrder
  <2> QED
    BY <1>2, <2>1 DEF RecordTells
<1> HIDE DEF turns
<1>5. PICK C : C = ToSet(logs) \cup {Ended(current, failure)} \cup {fin}
  OBVIOUS
<1>6. turns \in Seq(C) /\ fin \in C
  BY <1>3, <1>5
<1>7. /\ \A i \in DOMAIN all : i \in DOMAIN turns \/ i = Len(turns) + 1
      /\ \A i \in DOMAIN turns : all[i] = turns[i]
      /\ all[Len(turns) + 1] = fin
  BY <1>6
<1> HIDE DEF all
<1>8. ASSUME NEW t \in answered, NEW i \in DOMAIN all PROVE RecordTells(all[i], t)
  BY <1>3, <1>4, <1>7
<1> QED
  BY <1>1, <1>8, UsageStays DEF OnClose, peers

\* A new turn has not been answered, and its record is empty.
LEMMA RequestKeeps == ASSUME UsageInv, NEW body, NEW ok, ClientRequest(body, ok), IInv' PROVE UsageInv'
<1>1. TurnsInv
  BY DEF UsageInv
<1>2. /\ TurnsInv' /\ current' # None /\ current'.usage = None /\ current'.turn = asked + 1
      /\ asked' \notin Begun' /\ asked' = asked + 1 /\ answered \subseteq 1 .. asked
  BY <1>1, RequestTurns
<1>3. phase = "relaying" /\ logs' = FinishTurn(current, None) /\ UNCHANGED <<session, answers, answered>>
  BY DEF ClientRequest
<1>4. asked \in Nat
  BY <1>1 DEF TurnsInv, IInv
<1>5. OpenRecordIsTrue'
  BY <1>2 DEF OpenRecordIsTrue
<1>6. RecordsTell'
  <2>1. \A t \in answered : \A i \in DOMAIN logs' : RecordTells(logs'[i], t)
    <3>1. current # None => Shaped(current) /\ \A t \in answered : Tells(current, t)
      BY DEF UsageInv, TurnsInv, TurnTypes, RecordsTell
    <3>2. \A t \in answered : \A i \in DOMAIN logs : RecordTells(logs[i], t)
      BY DEF UsageInv, RecordsTell
    <3>3. logs \in Seq(ToSet(logs))
      BY <1>1, <1>3, SentBefore DEF TurnsInv
    <3> QED
      BY <1>3, <3>1, <3>2, <3>3, FinishTells
  <2>2. \A t \in answered : current'.turn # t
    BY <1>2, <1>4
  <2> QED
    BY <1>3, <2>1, <2>2 DEF RecordsTell, Tells, RecordTells
<1> QED
  BY <1>2, <1>3, <1>5, <1>6 DEF UsageInv, AnswersReport, Reported, NoneIsNoUsage

\* The upstream begins to answer: nothing has been reported.
LEMMA BeginKeeps == ASSUME UsageInv, NEW answer \in Answers[session.api], Begin(answer), IInv' PROVE UsageInv'
<1>1. TurnsInv
  BY DEF UsageInv
<1>2. /\ TurnsInv' /\ UNCHANGED <<session, relay, request, asked, place, delivered, orderly, answered, plain>>
      /\ answer.events \in Seq(ToSet(answer.events))
  BY <1>1, BeginTurns
<1>3. PICK t \in 1 .. asked :
                 /\ t \in Turns /\ t \notin Begun /\ t \notin answered /\ Begun' = Begun \cup {t}
                 /\ answers'[t] = answer /\ \A u \in Turns : u # t => answers'[u] = answers[u]
                 /\ place[t] = 0 /\ (orderly => t = asked)
  BY <1>1, BeginTurns
<1>4. phase = "relaying" /\ asked \in Nat
  BY <1>1 DEF Begin, TurnsInv, IInv
<1>5. OpenRecordIsTrue'
  <2> SUFFICES ASSUME orderly PROVE OpenRecordIsTrue'
    BY <1>2 DEF OpenRecordIsTrue
  <2>1. t = asked /\ asked \notin answered /\ asked > 0 /\ asked \notin Begun /\ place[asked] = 0
    BY <1>3, <1>4
  <2>2. current # None /\ current.usage = None
    BY <1>4, <2>1 DEF UsageInv, OpenRecordIsTrue
  <2>3. Reported(session.api, answer.events)[0] = NoUsage
    <3>1. Len(answer.events) \in Nat
      BY <1>2
    <3> QED
      BY <3>1, ReportedStep
  <2>4. Noted(current.usage, Reported(session.api, answer.events)[0])
    BY <2>2, <2>3 DEF Noted
  <2>5. asked' = asked /\ answers'[asked] = answer /\ UNCHANGED <<place, session, current>> /\ asked' \in Begun'
    BY <1>2, <1>3, <2>1 DEF relay
  <2> QED
    BY <2>1, <2>2, <2>4, <2>5 DEF OpenRecordIsTrue
<1>6. RecordsTell'
  <2>1. \A u \in answered : answers'[u] = answers[u]
    BY <1>1, <1>3 DEF TurnsInv, AnswersInOrder, Begun
  <2> QED
    BY <1>2, <2>1 DEF UsageInv, RecordsTell, Tells, RecordTells, relay
<1> QED
  BY <1>2, <1>5, <1>6 DEF UsageInv, AnswersReport, Reported, NoneIsNoUsage

\* An event of the answer is noted in the record of its turn, and sends it when it is terminal.
LEMMA EventKeeps == ASSUME UsageInv, NEW n, ServerText(n), TurnsInv' PROVE UsageInv'
<1> DEFINE a == answers[answering]
           ev == a.events[place[answering] + 1]
           last == place[answering] + 1 = Len(a.events)
<1>0. TurnsInv
  BY DEF UsageInv
<1>1. /\ phase = "relaying" /\ answering # 0
      /\ place' = [place EXCEPT ![answering] = @ + 1]
      /\ answering' = IF last THEN 0 ELSE answering
      /\ UNCHANGED <<session, fin, failure, request, asked, answers, orderly, plain>>
  BY DEF ServerText
<1>2. PICK out :
        LET turn == Observe(current, out.frames, ParseUsage(session.api, ev), out.count) IN
        /\ Sent(n = Len(out.frames))
        /\ logs' = IF IsTerminal(ev) THEN FinishTurn(turn, None) ELSE logs
        /\ current' = IF IsTerminal(ev) THEN None ELSE turn
        /\ answered' = IF last /\ orderly /\ answering = asked /\ n = Len(out.frames)
                       THEN answered \cup {asked} ELSE answered
  BY DEF ServerText
<1> DEFINE turn == Observe(current, out.frames, ParseUsage(session.api, ev), out.count)
<1>3. /\ answering \in 1 .. asked /\ answering \in Begun /\ asked \notin answered
      /\ answering \in Turns /\ asked \in 0 .. MaxTurns /\ session.api \in Apis
      /\ orderly => answering = asked /\ asked \in Begun
      /\ a \in Answers[session.api] /\ a.events \in Seq(ToSet(a.events))
  BY <1>0, <1>1, AnsweringLast
<1>4. asked \in Nat
  BY <1>0 DEF TurnsInv, IInv
<1>5. Len(a.events) \in Nat
  BY <1>3
<1>6. current # None => Shaped(current) /\ current.turn = asked
  BY <1>0, <1>1, SentBefore DEF TurnsInv, TurnTypes
<1>7. /\ current = None => turn = None
      /\ current # None =>
            /\ turn # None /\ Shaped(turn) /\ turn.turn = asked
            /\ \A reported : Noted(current.usage, reported)
                    => Noted(turn.usage, Noting(reported, ParseUsage(session.api, ev)))
  <2>1. current = None => turn = None
    BY DEF Observe
  <2>2. NoneIsNoUsage /\ NoneIsNoRecord
    BY DEF UsageInv, TurnsInv, IInv
  <2> QED
    BY <1>6, <2>1, <2>2, ObserveNotes
<1>8. /\ logs' = IF IsTerminal(ev) THEN FinishTurn(turn, None) ELSE logs
      /\ current' = IF IsTerminal(ev) THEN None ELSE turn
  BY <1>2
<1>9. place[answering] \in Nat /\ place'[answering] = place[answering] + 1
  BY <1>0, <1>1, <1>3 DEF TurnsInv, TurnTypes
\* What the open record has noted with this event, when the client is orderly.
<1>10. ASSUME orderly
       PROVE  /\ answering = asked /\ turn # None
              /\ place[asked] < Len(a.events)
              /\ Noted(turn.usage, Reported(session.api, a.events)[place[asked] + 1])
  <2>1. asked > 0 /\ asked \in Begun /\ answering = asked
    BY <1>3, <1>4, <1>10
  <2>2. /\ current # None /\ place[asked] < Len(a.events)
        /\ Noted(current.usage, Reported(session.api, a.events)[place[asked]])
    BY <1>0, <1>1, <1>3, <1>10, <2>1 DEF UsageInv, OpenRecordIsTrue, TurnsInv, AnswersInOrder
  <2>3. place[asked] \in 0 .. Len(a.events) - 1
    BY <1>5, <1>9, <2>1, <2>2
  <2>4. Reported(session.api, a.events)[place[asked] + 1]
            = Noting(Reported(session.api, a.events)[place[asked]],
                     ParseUsage(session.api, a.events[place[asked] + 1]))
    BY <1>5, <2>3, ReportedStep
  <2>5. ev = a.events[place[asked] + 1]
    BY <2>1
  <2> QED
    BY <1>7, <2>1, <2>2, <2>4, <2>5
<1>11. answered' = answered \/ (answered' = answered \cup {asked} /\ last /\ orderly)
  BY <1>2
\* The answer is complete, and the record has all that it reports.
<1>12. ASSUME last, orderly PROVE Tells(turn, asked)
  <2>1. a.usage = Reported(session.api, a.events)[Len(a.events)] /\ a.usage # NoUsage
    BY <1>3 DEF UsageInv, AnswersReport
  <2>2. Noted(turn.usage, a.usage)
    BY <1>10, <1>12, <2>1
  <2>3. turn.usage # None /\ turn.usage = a.usage
    BY <2>1, <2>2 DEF Noted
  <2> QED
    BY <1>10, <1>12, <2>3 DEF Tells
<1> HIDE DEF turn
<1>13. \A t \in answered' : turn # None => Tells(turn, t)
  <2>1. \A t \in answered : turn # None => turn.turn # t
    BY <1>3, <1>7
  <2> QED
    BY <1>11, <1>12, <2>1 DEF Tells
<1>14. \A t \in answered' : \A i \in DOMAIN logs : RecordTells(logs[i], t)
  <2>1. \A t \in answered : \A i \in DOMAIN logs : RecordTells(logs[i], t)
    BY DEF UsageInv, RecordsTell
  <2>2. ASSUME orderly PROVE \A i \in DOMAIN logs : logs[i].turn # asked
    <3>1. current # None
      BY <1>7, <1>10, <2>2
    <3>2. \A i \in DOMAIN logs : logs[i].turn \in 1 .. asked - 1
      BY <1>0, <1>1, <3>1, SentBefore DEF TurnsInv
    <3> QED
      BY <1>4, <3>2
  <2> QED
    BY <1>11, <2>1, <2>2 DEF RecordTells
<1>15. OpenRecordIsTrue'
  <2> SUFFICES ASSUME orderly, phase' = "relaying", asked \notin answered'
               PROVE  /\ current' # None /\ asked \in Begun'
                      /\ Noted(current'.usage, Reported(session'.api, answers'[asked].events)[place'[asked]])
    BY <1>1 DEF OpenRecordIsTrue
  <2>1. answering = asked /\ asked \in Begun'
    BY <1>1, <1>3 DEF Begun
  <2>2. ~last
    <3>1. n = Len(out.frames)
      BY <1>2 DEF Sent
    <3> QED
      BY <1>2, <2>1, <3>1
  <2>3. place[asked] + 1 < Len(a.events)
    BY <1>5, <1>9, <1>10, <2>1, <2>2
  <2>4. ~IsTerminal(ev)
    <3>1. place[asked] + 1 \in 1 .. Len(a.events) - 1
      BY <1>5, <1>9, <2>1, <2>3
    <3> QED
      BY <1>3, <2>1, <3>1 DEF UsageInv, AnswersReport
  <2>5. current' = turn /\ turn # None
    BY <1>8, <1>10, <2>4
  <2>6. place'[asked] = place[asked] + 1 /\ answers'[asked] = a /\ session' = session
    BY <1>1, <1>9, <2>1
  <2> QED
    BY <1>10, <2>1, <2>5, <2>6
<1>16. RecordsTell'
  <2>1. \A t \in answered' : \A i \in DOMAIN logs' : RecordTells(logs'[i], t)
    <3>1. CASE IsTerminal(ev)
      <4>1. logs \in Seq(ToSet(logs))
        BY <1>0, <1>1, SentBefore DEF TurnsInv
      <4>2. logs' = FinishTurn(turn, None)
        BY <1>8, <3>1
      <4>3. turn # None => Shaped(turn) /\ \A t \in answered' : Tells(turn, t)
        BY <1>7, <1>13
      <4>4. PICK S : S = answered'
        OBVIOUS
      <4> QED
        BY <1>14, <4>1, <4>2, <4>3, <4>4, FinishTells
    <3>2. CASE ~IsTerminal(ev)
      BY <1>8, <1>14, <3>2
    <3> QED
      BY <3>1, <3>2
  <2>2. \A t \in answered' : current' # None => Tells(current', t)
    BY <1>8, <1>13
  <2> QED
    BY <1>1, <2>1, <2>2 DEF RecordsTell, Tells, RecordTells
<1> QED
  BY <1>1, <1>15, <1>16 DEF UsageInv, AnswersReport, Reported, NoneIsNoUsage

\* Every step keeps what the records say of the usage.
LEMMA UsageNext == UsageInv /\ [Next]_vars => UsageInv'
<1> SUFFICES ASSUME UsageInv, [Next]_vars PROVE UsageInv'
  OBVIOUS
<1>1. IInv' /\ TurnsInv'
  BY InvNext, TurnsNext DEF UsageInv, TurnsInv
<1>2. ASSUME NEW record, phase \in {"connecting", "upgrading", "tunnel"}, FinishConnection(record)
      PROVE  UsageInv'
  BY <1>1, <1>2, ConnectionKeeps
<1>3. CASE Dropped
  BY <1>2, <1>3 DEF Dropped
<1>4. CASE Refused
  <2>1. PICK record : record = [fin EXCEPT !.status = 400]
    OBVIOUS
  <2> QED
    BY <1>2, <1>4, <2>1 DEF Refused
<1>5. ASSUME NEW error, TunnelEnds(error) PROVE UsageInv'
  <2>1. PICK record : record = [fin EXCEPT !.error = error]
    OBVIOUS
  <2> QED
    BY <1>2, <1>5, <2>1 DEF TunnelEnds
<1>6. CASE Switch \/ Upgraded
  <2>1. asked = 0
    BY <1>6 DEF Switch, Upgraded, UsageInv, TurnsInv, IInv
  <2> QED
    BY <1>1, <1>6, <2>1, UsageIdle DEF Switch, Upgraded, peers
<1>7. CASE \E error : Closes(error)
  BY <1>1, <1>7, UsageIdle DEF Closes, peers
<1>8. ASSUME NEW body, NEW ok, ClientRequest(body, ok) PROVE UsageInv'
  BY <1>1, <1>8, RequestKeeps
<1>9. ASSUME NEW body, NEW ok, ClientText(body, ok) PROVE UsageInv'
  BY <1>1, <1>9, UsageIdle DEF ClientText, peers
<1>10. ASSUME NEW answer \in Answers[session.api], Begin(answer) PROVE UsageInv'
  BY <1>1, <1>10, BeginKeeps
<1>11. ASSUME NEW n, ServerText(n) PROVE UsageInv'
  BY <1>1, <1>11, EventKeeps
<1>12. CASE GiveUp
  BY <1>1, <1>12, UsageIdle DEF GiveUp, relay
<1>13. CASE ServerPlain
  <2>1. /\ UNCHANGED <<session, phase, logs, asked, answers, place, orderly, answered>>
        /\ current' = current \/ (current # None /\ current' = [current EXCEPT !.restored = @ + 1])
    BY <1>13 DEF ServerPlain
  <2>2. CASE current' = current
    BY <1>1, <2>1, <2>2, UsageIdle
  <2>3. CASE current # None /\ current' = [current EXCEPT !.restored = @ + 1]
    <3>1. Shaped(current)
      BY <2>3 DEF UsageInv, TurnsInv, TurnTypes
    <3>2. current'.usage = current.usage /\ current'.turn = current.turn /\ current' # None
      BY <2>3, <3>1 DEF Shaped, UsageInv, TurnsInv, IInv, NoneIsNoRecord
    <3>3. \A t \in answered : Tells(current', t)
      BY <2>3, <3>2 DEF UsageInv, RecordsTell, Tells
    <3>4. \A t \in answered : \A i \in DOMAIN logs' : RecordTells(logs'[i], t)
      BY <2>1 DEF UsageInv, RecordsTell
    <3> QED
      BY <1>1, <2>1, <3>2, <3>3, <3>4, UsageStays
  <2> QED
    BY <2>1, <2>2, <2>3
<1>14. CASE OnClose
  BY <1>1, <1>14, OnCloseKeeps
<1>15. CASE UNCHANGED vars
  BY <1>1, <1>15, UsageIdle DEF vars, relay, peers
<1> QED
  BY <1>3, <1>4, <1>5, <1>6, <1>7, <1>8, <1>9, <1>10, <1>11, <1>12, <1>13, <1>14, <1>15 DEF Next

\* The invariant is enough for the property.
LEMMA UsageIsOfItsTurn == UsageInv => UsageOfItsTurn
  BY DEF UsageInv, RecordsTell, RecordTells, UsageOfItsTurn, RecordsOf

\* The record of a turn has what the API reported in its answer, when the client waits for it, for
\* all answers that report something and end with their terminal event, if they have one: usage
\* that comes in several events is noted in the record of its own turn, also when that is sent by
\* the next request or the end of the connection.
THEOREM TurnHasItsUsage ==
    ASSUME NoneIsNoRecord, NoneIsNoUsage, AnswersReport PROVE Spec => []UsageOfItsTurn
<1>1. Init => UsageInv
  BY UsageInit
<1>2. Spec => []UsageInv
  BY <1>1, UsageNext, PTL DEF Spec
<1> QED
  BY <1>2, UsageIsOfItsTurn, PTL
-----------------------------------------------------------------------------
\* Flattening, one text after the other.
Flattens(flat, s, n) == flat = [i \in 1 .. n |-> IF i = 1 THEN s[i] ELSE flat[i - 1] \o s[i]]

\* There is such a function for every number of texts.
LEMMA FlatteningExists == ASSUME NEW s, NEW n \in Nat PROVE \E flat : Flattens(flat, s, n)
<1> DEFINE bad == {m \in Nat : ~ \E flat : Flattens(flat, s, m)}
<1>1. bad = {}
  <2> SUFFICES ASSUME bad # {} PROVE FALSE
    OBVIOUS
  <2>1. PICK m \in bad : \A k \in bad : m <= k
    BY Least
  <2>2. CASE m = 0
    <3> DEFINE flat == [i \in 1 .. 0 |-> <<>>]
    <3>1. Flattens(flat, s, 0)
      BY DEF Flattens
    <3> QED
      BY <2>1, <2>2, <3>1
  <2>3. CASE m # 0
    <3>1. m - 1 \in Nat /\ m - 1 \notin bad
      BY <2>1, <2>3
    <3>2. PICK f : Flattens(f, s, m - 1)
      BY <3>1
    <3> DEFINE flat == [i \in 1 .. m |-> IF i # m THEN f[i] ELSE IF i = 1 THEN s[i] ELSE f[i - 1] \o s[i]]
    <3>3. ASSUME NEW i \in 1 .. m
          PROVE  flat[i] = IF i = 1 THEN s[i] ELSE flat[i - 1] \o s[i]
      <4>1. CASE i = m
        <5>1. i # 1 => i - 1 \in 1 .. m /\ i - 1 # m
          BY <3>1, <4>1
        <5>2. i # 1 => flat[i - 1] = f[i - 1]
          BY <5>1
        <5> QED
          BY <4>1, <5>2
      <4>2. CASE i # m
        <5>1. i \in 1 .. m - 1 /\ (i # 1 => i - 1 \in 1 .. m - 1 /\ i - 1 # m)
          BY <3>1, <4>2
        <5>2. flat[i] = f[i] /\ (i # 1 => flat[i - 1] = f[i - 1])
          BY <3>1, <4>2, <5>1
        <5>3. f[i] = IF i = 1 THEN s[i] ELSE f[i - 1] \o s[i]
          BY <3>2, <5>1 DEF Flattens
        <5> HIDE DEF flat
        <5> QED
          BY <5>2, <5>3
      <4> QED
        BY <4>1, <4>2
    <3>4. flat = [i \in 1 .. m |-> flat[i]]
      OBVIOUS
    <3> HIDE DEF flat
    <3>5. Flattens(flat, s, m)
      BY <3>3, <3>4 DEF Flattens
    <3> QED
      BY <2>1, <3>5
  <2> QED
    BY <2>2, <2>3
<1> QED
  BY <1>1

\* FlattenSeq is its last value.
LEMMA FlattenIs ==
    ASSUME NEW s, NEW n \in Nat, Len(s) = n
    PROVE  \E flat : Flattens(flat, s, n) /\ (n # 0 => FlattenSeq(s) = flat[n])
<1> DEFINE flat == CHOOSE x : Flattens(x, s, n)
<1>1. Flattens(flat, s, n)
  BY FlatteningExists
<1>2. n # 0 => FlattenSeq(s) = flat[n]
  BY DEF FlattenSeq, Flattens
<1> QED
  BY <1>1, <1>2

\* Its value at i.
LEMMA FlatteningAt ==
    ASSUME NEW f, NEW s, NEW n, Flattens(f, s, n), NEW i \in 1 .. n
    PROVE  f[i] = IF i = 1 THEN s[i] ELSE f[i - 1] \o s[i]
<1> DEFINE G(g) == [j \in 1 .. n |-> IF j = 1 THEN s[j] ELSE g[j - 1] \o s[j]]
<1>1. f = G(f)
  BY DEF Flattens
<1>2. PICK g : g = f
  OBVIOUS
<1>3. f[i] = G(g)[i]
  BY <1>1, <1>2
<1> QED
  BY <1>2, <1>3

\* There is one such function only.
LEMMA FlatteningUnique ==
    ASSUME NEW s, NEW n \in Nat, NEW r, NEW m \in 1 .. n, NEW f, NEW g, Flattens(f, s, n), Flattens(g, r, m),
           \A i \in 1 .. m : r[i] = s[i]
    PROVE  f[m] = g[m]
<1> DEFINE bad == {i \in 1 .. m : f[i] # g[i]}
<1>1. bad = {}
  <2> SUFFICES ASSUME bad # {} PROVE FALSE
    OBVIOUS
  <2>1. PICK i \in bad : \A k \in bad : i <= k
    <3>1. bad \subseteq Nat
      OBVIOUS
    <3> HIDE DEF bad
    <3> QED
      BY <3>1, Least
  <2>2. f[i] = (IF i = 1 THEN s[i] ELSE f[i - 1] \o s[i]) /\ g[i] = (IF i = 1 THEN r[i] ELSE g[i - 1] \o r[i])
    <3>1. i \in 1 .. n /\ i \in 1 .. m
      OBVIOUS
    <3>2. f[i] = (IF i = 1 THEN s[i] ELSE f[i - 1] \o s[i])
      BY <3>1, FlatteningAt
    <3>3. g[i] = (IF i = 1 THEN r[i] ELSE g[i - 1] \o r[i])
      BY <3>1, FlatteningAt
    <3> QED
      BY <3>2, <3>3
  <2>3. i # 1 => i - 1 \in 1 .. m /\ i - 1 \notin bad
    BY <2>1
  <2> QED
    BY <2>1, <2>2, <2>3
<1> QED
  BY <1>1

\* One text more.
LEMMA FlattenStep ==
    ASSUME NEW n \in Nat, NEW s, NEW r, Len(s) = n + 1, Len(r) = n, \A i \in 1 .. n : r[i] = s[i],
           n = 0 => r = <<>>, NEW C, s[1] \in Seq(C)
    PROVE  FlattenSeq(s) = FlattenSeq(r) \o s[n + 1]
<1>1. PICK f : Flattens(f, s, n + 1) /\ FlattenSeq(s) = f[n + 1]
  BY FlattenIs
<1>2. CASE n = 0
  <2>1. f[1] = s[1]
    BY <1>1, <1>2 DEF Flattens
  <2>2. FlattenSeq(r) = <<>>
    BY <1>2 DEF FlattenSeq
  <2>3. <<>> \o s[1] = s[1]
    BY ConcatEmptySeq
  <2> QED
    BY <1>1, <1>2, <2>1, <2>2, <2>3
<1>3. CASE n # 0
  <2>1. PICK g : Flattens(g, r, n) /\ FlattenSeq(r) = g[n]
    BY <1>3, FlattenIs
  <2>2. f[n] = g[n]
    BY <1>1, <1>3, <2>1, FlatteningUnique
  <2>3. f[n + 1] = f[n] \o s[n + 1]
    <3>1. PICK m : m = n + 1
      OBVIOUS
    <3>2. m \in 1 .. m /\ m # 1 /\ m - 1 = n /\ Flattens(f, s, m)
      BY <1>1, <1>3, <3>1
    <3>3. \A i \in 1 .. m : f[i] = IF i = 1 THEN s[i] ELSE f[i - 1] \o s[i]
      BY <3>2, FlatteningAt
    <3>4. f[m] = f[m - 1] \o s[m]
      BY <3>2, <3>3
    <3> QED
      BY <3>1, <3>2, <3>4
  <2> QED
    BY <1>1, <2>1, <2>2, <2>3
<1> QED
  BY <1>2, <1>3
-----------------------------------------------------------------------------
\* An event of an answer as the restorer sees it.
EventOf(api, ev) ==
    [carriers |-> CarriersOf(api, ev), ends |-> Ends(api, ev),
     terminator |-> IF Ends(api, ev) = {} THEN None ELSE TerminatorOf(api, ev)]

\* The events of all answers.
Sources == UNION {UNION {{<<api, ev>> : ev \in ToSet(a.events)} : a \in Answers[api]} : api \in Apis}

\* The events that the restorer may receive.
SseEvents == {EventOf(p[1], p[2]) : p \in Sources}

\* The restorer of the connection while it works on the answer to the last turn.
Event == place[asked] - Len(answers[asked].events)

\* The texts that have come of the answer to the last turn, ...
Got == Gathered(session.api, answers[asked].events, place[asked])

\* ... and the blocks that have ended.
Over1 == EndedBy(session.api, answers[asked].events, place[asked])

\* The restorer of the relay is that of a response, event by event.
P == INSTANCE Restorers_proofs WITH
    Aliases <- Live, Original <- [a \in Live |-> Original], PREFIX <- <<"PG_">>,
    EntityChars <- {}, HexChars <- {}, HASH_HEX_LEN <- 1,
    Streams <- {}, LeadBytes <- {}, ContBytes <- {}, FirstTables <- {}, MaxChanges <- 0,
    stream <- <<>>, arrived <- 0, known <- Live, noted <- Live, table <- Live, changes <- 0,
    carry <- <<>>, emitted <- <<>>, done <- FALSE, split <- FALSE,
    Keys <- Keys, Events <- SseEvents, Tables <- {Live}, MaxEvents <- 0, None <- None,
    live <- Live, events <- Event, pending <- pending, received <- Got,
    delivered <- delivered[asked], ended <- Over1, finished <- FALSE

\* None is no tail.
NoneIsNoTail == "tail" \notin DOMAIN None

\* The one alias.
LEMMA LiveIs == Live = {Alias} /\ Alias = <<"start", "end">> /\ Original = <<"original">> /\ IsFiniteSet(Live)
  BY FS_Singleton DEF Live, Alias, Original

\* A text is one of its own characters.
LEMMA TextsAre ==
    ASSUME NEW x, NEW S, x \in Seq(S) PROVE x \in Seq(ToSet(x))
<1>1. \A i \in 1 .. Len(x) : x[i] \in ToSet(x)
  BY DEF ToSet
<1>2. x \in [1 .. Len(x) -> ToSet(x)] /\ Len(x) \in Nat
  BY <1>1
<1> QED
  BY <1>2

\* The assumptions of the restorer hold of the alias and the texts of a connection.
LEMMA AliasHolds == P!AliasAssumption
<1>1. Alias \in Seq({"start", "end"}) /\ Original \in Seq({"original"}) /\ <<"PG_">> \in Seq({"PG_"})
  BY DEF Alias, Original
<1>2. Alias \in Seq(ToSet(Alias)) /\ Original \in Seq(ToSet(Original)) /\ <<"PG_">> \in Seq(ToSet(<<"PG_">>))
  BY <1>1, TextsAre
<1> QED
  BY <1>2, LiveIs DEF P!AliasAssumption, P!IsText, P!ToSet, ToSet

\* Words are no bytes that a chunk could cut.
LEMMA Utf8 == ASSUME NEW x, Len(x) \in Nat PROVE P!IsUtf8(x)
<1> DEFINE S == 0 .. Len(x)
<1>1. P!ValidUpTo(x) = P!Max(S)
  <2>1. S = {n \in 0 .. Len(x) : \A i \in 1 .. n :
            /\ x[i] \in {} <=> i > 1 /\ x[i - 1] \in {}
            /\ x[i] \in {} => i < n}
    OBVIOUS
  <2> QED
    BY <2>1 DEF P!ValidUpTo
<1>2. P!Max(S) = Len(x)
  <2>1. Len(x) \in S /\ \A y \in S : Len(x) >= y
    OBVIOUS
  <2>2. \A z \in S : (\A y \in S : z >= y) => z = Len(x)
    OBVIOUS
  <2> HIDE DEF S
  <2> QED
    BY <2>1, <2>2 DEF P!Max
<1> QED
  BY <1>1, <1>2 DEF P!IsUtf8

\* No character of these texts is cut by a chunk.
LEMMA StreamHolds == P!StreamAssumption
<1>1. Len(Alias) \in Nat /\ Len(<<"PG_">>) \in Nat
  BY DEF Alias
<1> QED
  BY <1>1, LiveIs, Utf8 DEF P!StreamAssumption

\* A terminator ends the blocks that it is the beginning of.
LEMMA EndsWhat == ASSUME NEW api, NEW ev
  PROVE /\ P!Terminated(EventOf(api, ev).terminator) = Ends(api, ev) /\ Ends(api, ev) \subseteq Keys
        /\ EventOf(api, ev).terminator = None <=> Ends(api, ev) = {}
  BY DEF P!Terminated, Sse!Terminated, P!IsPrefix, Sse!IsPrefix, Ends, EventOf

\* What an event of an answer carries.
Carrying(api, events, n) ==
    LET cs == CarriersOf(api, events[n]) IN
    \/ cs = <<>>
    \/ \E k \in Keys \ EndedBy(api, events, n - 1) : \E text :
        /\ cs = <<[key |-> k, text |-> text]>> /\ Ends(api, events[n]) = {}
        /\ text \in Seq(ToSet(text) \ ToSet(Original))

\* This is what AnswersArrive says of an event.
LEMMA Carries ==
    ASSUME AnswersArrive, NEW api \in Apis, NEW a \in Answers[api], NEW n \in DOMAIN a.events
    PROVE  Carrying(api, a.events, n)
<1> DEFINE cs == CarriersOf(api, a.events[n])
<1>1. \/ cs = <<>>
      \/ /\ cs = <<cs[1]>> /\ Ends(api, a.events[n]) = {}
         /\ cs[1].key \in Keys \ EndedBy(api, a.events, n - 1)
         /\ cs[1].text \in Seq(ToSet(cs[1].text) \ ToSet(Original))
  BY DEF AnswersArrive
<1>2. ASSUME cs = <<cs[1]>> PROVE cs[1] = [key |-> cs[1].key, text |-> cs[1].text]
  <2>1. 1 \in DOMAIN cs
    BY <1>2
  <2>2. \A i \in DOMAIN cs : cs[i] = [key |-> cs[i].key, text |-> cs[i].text]
    BY DEF CarriersOf
  <2> HIDE DEF cs
  <2> QED
    BY <2>1, <2>2
<1> HIDE DEF cs
<1> QED
  BY <1>1, <1>2 DEF Carrying, cs

\* A text in a larger set of characters.
LEMMA TextsIn == ASSUME NEW x, NEW S, NEW T, x \in Seq(ToSet(x) \ S), ToSet(x) \subseteq T PROVE x \in Seq(T)
<1>1. ToSet(x) \ S \subseteq T
  OBVIOUS
<1> DEFINE U == ToSet(x) \ S
<1> HIDE DEF U
<1> QED
  BY <1>1 DEF U

\* The assumptions of the restorer hold of the events of the answers.
LEMMA EventHolds ==
    ASSUME AnswersArrive, NoneIsNoTail
    PROVE  P!EventAssumption
<1>1. ASSUME NEW e \in SseEvents
      PROVE  /\ e.ends \subseteq Keys /\ (e.terminator = None <=> e.ends = {})
             /\ e.carriers \in Seq(P!Carriers)
  <2>1. PICK api, a, ev : api \in Apis /\ a \in Answers[api] /\ ev \in ToSet(a.events) /\ e = EventOf(api, ev)
    BY DEF SseEvents, Sources
  <2>2. PICK n \in DOMAIN a.events : ev = a.events[n]
    BY <2>1, Zenon DEF ToSet
  <2>3. Carrying(api, a.events, n)
    BY <2>1, <2>2, Carries, SMTT(60)
  <2>4. e.carriers = CarriersOf(api, a.events[n]) /\ e.ends = Ends(api, ev)
    BY <2>1, <2>2 DEF EventOf
  <2>5. ASSUME NEW k \in Keys, NEW text, e.carriers = <<[key |-> k, text |-> text]>>,
               text \in Seq(ToSet(text) \ ToSet(Original))
        PROVE  e.carriers \in Seq(P!Carriers)
    <3>1. P!ToSet(text) \subseteq P!Characters
      <4>1. 1 \in DOMAIN e.carriers /\ e.carriers[1].text = text
        BY <2>5
      <4> QED
        BY <4>1 DEF P!Characters
    <3>2. text \in Seq(P!Characters)
      <4>1. ToSet(text) \subseteq P!Characters
        BY <3>1 DEF ToSet, P!ToSet
      <4> QED
        BY <2>5, <4>1, TextsIn
    <3>3. [key |-> k, text |-> text] \in P!Carriers
      BY <3>2 DEF P!Carriers
    <3> QED
      BY <2>5, <3>3
  <2>6. e.carriers \in Seq(P!Carriers)
    <3>1. CASE e.carriers = <<>>
      BY <3>1
    <3>2. CASE e.carriers # <<>>
      <4>1. \E k \in Keys : \E text :
                e.carriers = <<[key |-> k, text |-> text]>> /\ text \in Seq(ToSet(text) \ ToSet(Original))
        BY <2>3, <2>4, <3>2, Zenon DEF Carrying
      <4>2. PICK k \in Keys :
                \E text : e.carriers = <<[key |-> k, text |-> text]>> /\ text \in Seq(ToSet(text) \ ToSet(Original))
        BY <4>1
      <4>3. PICK text : e.carriers = <<[key |-> k, text |-> text]>> /\ text \in Seq(ToSet(text) \ ToSet(Original))
        BY <4>2
      <4> QED
        BY <2>5, <4>3
    <3> QED
      BY <3>1, <3>2
  <2> QED
    BY <2>1, <2>6, EndsWhat DEF EventOf
<1>2. None \notin P!PendingTails
  BY DEF NoneIsNoTail, P!PendingTails
<1> QED
  BY <1>1, <1>2, LiveIs, RelayAssumption DEF P!EventAssumption, P!IsFiniteSet, IsFiniteSet

\* The events of the answers can be restored exactly.
LEMMA EventsPlain == ASSUME AnswersArrive PROVE P!PlainEvents
<1> SUFFICES ASSUME NEW e \in SseEvents
             PROVE  /\ Len(e.carriers) <= 1
                    /\ e.carriers = <<>> \/ e.ends = {}
                    /\ \A k \in Keys : k \in e.ends <=> e.terminator # None /\ P!IsPrefix(e.terminator, k)
  BY Zenon DEF P!PlainEvents
<1>1. PICK api, a, ev : api \in Apis /\ a \in Answers[api] /\ ev \in ToSet(a.events) /\ e = EventOf(api, ev)
  BY DEF SseEvents, Sources
<1>2. PICK n \in DOMAIN a.events : ev = a.events[n]
  BY <1>1, Zenon DEF ToSet
<1>3. Carrying(api, a.events, n)
  BY <1>1, <1>2, Carries
<1>4. e.carriers = CarriersOf(api, a.events[n]) /\ e.ends = Ends(api, a.events[n])
  BY <1>1, <1>2 DEF EventOf
<1>5. Len(e.carriers) <= 1 /\ (e.carriers = <<>> \/ e.ends = {})
  <2>1. e.carriers = <<>> \/ \E c : e.carriers = <<c>> /\ e.ends = {}
    BY <1>3, <1>4, Zenon DEF Carrying
  <2>2. CASE e.carriers = <<>>
    BY <2>2
  <2>3. CASE e.carriers # <<>>
    <3>1. PICK c : e.carriers = <<c>> /\ e.ends = {}
      BY <2>1, <2>3
    <3>2. Len(<<c>>) = 1
      OBVIOUS
    <3> QED
      BY <3>1, <3>2
  <2> QED
    BY <2>2, <2>3
<1>6. P!Terminated(e.terminator) = e.ends
  BY <1>1, EndsWhat DEF EventOf
<1>7. ASSUME NEW k \in Keys PROVE k \in e.ends <=> e.terminator # None /\ P!IsPrefix(e.terminator, k)
  BY <1>6, <1>7, Zenon DEF P!Terminated
<1> QED
  BY <1>5, <1>7

\* The one alias can be told apart from everything.
LEMMA AliasDistinct == P!Distinct(Live)
<1>1. P!NoOverlap(Live)
  <2> SUFFICES ASSUME NEW len \in 1 .. 1
               PROVE  ~P!IsPlaceholderPrefix(P!Suffix(Alias, len)) /\ ~P!IsPrefix(P!Suffix(Alias, len), Alias)
    <3>1. \A a \in Live : a = Alias /\ Len(a) - 1 = 1
      BY LiveIs
    <3> QED
      BY <3>1 DEF P!NoOverlap
  <2>1. P!Suffix(Alias, len) = <<"end">>
    <3>1. len = 1 /\ Len(Alias) = 2
      BY LiveIs
    <3>2. SubSeq(<<"start", "end">>, 2, 2) = <<"end">>
      <4> DEFINE s == SubSeq(<<"start", "end">>, 2, 2)
      <4>1. s \in Seq({"start", "end"}) /\ Len(s) = 1 /\ s[1] = "end"
        <5>1. <<"start", "end">> \in Seq({"start", "end"})
          OBVIOUS
        <5> QED
          BY <5>1
      <4> HIDE DEF s
      <4>2. s = <<"end">>
        BY <4>1
      <4> QED
        BY <4>2 DEF s
    <3> QED
      BY <3>1, <3>2, LiveIs DEF P!Suffix
  <2>2. ~P!IsPrefix(<<"end">>, Alias) /\ ~P!IsPrefix(<<"end">>, <<"PG_">>) /\ ~P!IsPrefix(<<"PG_">>, <<"end">>)
    BY LiveIs DEF P!IsPrefix
  <2> QED
    BY <2>1, <2>2 DEF P!IsPlaceholderPrefix, P!Splits
<1>2. P!NoneWithin(Live) /\ P!InertOriginals(Live)
  BY LiveIs DEF P!NoneWithin, P!InertOriginals, P!ToSet
<1>3. P!WellShaped(Live)
  BY LiveIs DEF P!WellShaped, P!IsPlaceholder, P!IsPrefix
<1> QED
  BY <1>1, <1>2, <1>3 DEF P!Distinct

\* The restorer of a response and that of a connection are written with the same operators.
LEMMA SameRestore == ASSUME NEW l, NEW t PROVE P!Restore(l, t) = Sse!Restore(l, t)
  BY SMTT(60) DEF P!Restore, Sse!Restore, P!At, Sse!At, P!Longest, Sse!Longest, P!IsPrefix, Sse!IsPrefix

\* The same of what is held back.
LEMMA SameHoldback == ASSUME NEW l, NEW n, NEW t PROVE P!Holdback(l, n, t) = Sse!Holdback(l, n, t)
  BY SMTT(60) DEF P!Holdback, Sse!Holdback, P!IsPlaceholder, Sse!IsPlaceholder, P!IsPrefix, Sse!IsPrefix,
         P!IsStrictPrefix, Sse!IsStrictPrefix, P!HasShape, Sse!HasShape, P!Splits, Sse!Splits,
         P!Max, Sse!Max, P!HeldLengths, Sse!HeldLengths, P!MaxLen, Sse!MaxLen, P!Suffix, Sse!Suffix,
         P!IsPlaceholderPrefix, Sse!IsPlaceholderPrefix

\* The same of a text that the restorer passes over.
LEMMA SameCarry == ASSUME NEW acc, NEW i PROVE P!Carry(acc, i) = Sse!Carry(acc, i)
  BY SameRestore, SameHoldback DEF P!Carry, Sse!Carry

\* The same of flushing.
LEMMA SameFlush ==
    ASSUME NEW held, NEW keys
    PROVE  /\ P!FlushPending(held, keys) = Sse!FlushPending(held, keys)
           /\ P!FlushOrders(held, keys) = Sse!FlushOrders(held, keys)
  BY DEF P!FlushPending, Sse!FlushPending, P!FlushOrders, Sse!FlushOrders, P!SetToSeqs, Sse!SetToSeqs,
         P!IsInjective, Sse!IsInjective, P!Cardinality, Sse!Cardinality

\* The same of a tail that is sent.
LEMMA SameFlushed == ASSUME NEW p PROVE P!Flushed(p) = Sse!Flushed(p)
  BY SameRestore DEF P!Flushed, Sse!Flushed

\* The same of the texts of an event.
LEMMA SameText == ASSUME NEW cs, NEW k PROVE P!TextOf(cs, k) = Sse!TextOf(cs, k)
  BY DEF P!TextOf, Sse!TextOf, P!FlattenSeq, Sse!FlattenSeq

\* The same of flattening.
LEMMA SameFlatten == ASSUME NEW s PROVE P!FlattenSeq(s) = Sse!FlattenSeq(s)
  BY DEF P!FlattenSeq, Sse!FlattenSeq

\* The same of the texts of all frames.
LEMMA SameTextOfAll == ASSUME NEW out, NEW k PROVE P!TextOfAll(out, k) = Sse!TextOfAll(out, k)
<1>1. [i \in DOMAIN out |-> P!TextOf(out[i], k)] = [i \in DOMAIN out |-> Sse!TextOf(out[i], k)]
  BY SameText
<1> QED
  BY <1>1, SameFlatten, Zenon DEF P!TextOfAll, Sse!TextOfAll

\* The fold over the texts of an event, which is over none or one.
RelayIter(base, n, it) ==
    it = [s \in SUBSET (1 .. n) |->
            IF s = {} THEN base ELSE Sse!Carry(it[s \ {Max(s)}], [i \in 1 .. n |-> i][Max(s)])]

\* The fold over the texts of an event, when there are none or one.
LEMMA RelayFold ==
    ASSUME NEW base, NEW n \in {0, 1}
    PROVE  FoldLeft(LAMBDA acc, i : Sse!Carry(acc, i), base, [i \in 1 .. n |-> i])
                = IF n = 0 THEN base ELSE Sse!Carry(base, 1)
<1> DEFINE it == CHOOSE x : RelayIter(base, n, x)
           f == FoldLeft(LAMBDA acc, i : Sse!Carry(acc, i), base, [i \in 1 .. n |-> i])
<1>1. f = it[1 .. n]
  BY Zenon DEF FoldLeft, MapThenFoldSet, RelayIter
<1> HIDE DEF f
<1> SUFFICES f = IF n = 0 THEN base ELSE Sse!Carry(base, 1)
  BY DEF f
<1>2. Max({1}) = 1
  BY DEF Max
<1>3. CASE n = 0
  <2>1. 1 .. n = {} /\ SUBSET (1 .. n) = {{}}
    BY <1>3
  <2>2. RelayIter(base, n, [s \in SUBSET (1 .. n) |-> base])
    BY <2>1 DEF RelayIter
  <2>3. RelayIter(base, n, it)
    BY <2>2
  <2> HIDE DEF it
  <2>4. it[{}] = base
    BY <2>1, <2>3 DEF RelayIter
  <2> QED
    BY <1>1, <1>3, <2>1, <2>4
<1>4. CASE n = 1
  <2>1. 1 .. n = {1} /\ SUBSET (1 .. n) = {{}, {1}} /\ {1} # {} /\ {1} \ {1} = {}
    BY <1>4
  <2> DEFINE jt == [s \in SUBSET (1 .. n) |-> IF s = {} THEN base ELSE Sse!Carry(base, 1)]
  <2>2. RelayIter(base, n, jt)
    <3>1. jt[{}] = base
      BY <2>1
    <3>2. ASSUME NEW s \in SUBSET (1 .. n), s # {}
          PROVE  s = {1} /\ s \ {Max(s)} = {} /\ [i \in 1 .. n |-> i][Max(s)] = 1
      BY <1>2, <1>4, <2>1, <3>2
    <3>3. jt = [s \in SUBSET (1 .. n) |->
                  IF s = {} THEN base ELSE Sse!Carry(jt[s \ {Max(s)}], [i \in 1 .. n |-> i][Max(s)])]
      BY <3>1, <3>2
    <3> HIDE DEF jt
    <3> QED
      BY <3>3 DEF RelayIter
  <2>3. RelayIter(base, n, it)
    BY <2>2
  <2> HIDE DEF it
  <2>4. it[{}] = base
    BY <2>1, <2>3 DEF RelayIter
  <2>5. it[{1}] = Sse!Carry(it[{1} \ {Max({1})}], [i \in 1 .. n |-> i][Max({1})])
    BY <2>1, <2>3 DEF RelayIter
  <2>6. it[{1}] = Sse!Carry(base, 1)
    BY <1>2, <1>4, <2>1, <2>4, <2>5
  <2> QED
    BY <1>1, <1>4, <2>1, <2>6
<1> QED
  BY <1>3, <1>4
-----------------------------------------------------------------------------
\* The events of an answer are received by the restorer.
LEMMA EventIn ==
    ASSUME NEW api \in Apis, NEW a \in Answers[api], NEW n \in DOMAIN a.events
    PROVE  EventOf(api, a.events[n]) \in SseEvents
<1>1. a.events[n] \in ToSet(a.events)
  BY DEF ToSet
<1>2. <<api, a.events[n]>> \in Sources
  <2>1. <<api, a.events[n]>> \in {<<api, ev>> : ev \in ToSet(a.events)}
    BY <1>1
  <2>2. <<api, a.events[n]>> \in UNION {{<<api, ev>> : ev \in ToSet(c.events)} : c \in Answers[api]}
    BY <2>1
  <2> QED
    BY <2>2 DEF Sources
<1>3. \A p \in Sources : EventOf(p[1], p[2]) \in SseEvents
  BY Zenon DEF SseEvents
<1>4. EventOf(<<api, a.events[n]>>[1], <<api, a.events[n]>>[2]) \in SseEvents
  BY <1>2, <1>3, Zenon
<1> QED
  BY <1>4

\* An event carries at most one text, and then it ends no block.
LEMMA CarriersTyped ==
    ASSUME AnswersArrive, NoneIsNoTail, NEW api \in Apis, NEW a \in Answers[api], NEW n \in DOMAIN a.events
    PROVE  /\ CarriersOf(api, a.events[n]) \in Seq(P!Carriers)
           /\ \/ Len(CarriersOf(api, a.events[n])) = 0
              \/ Len(CarriersOf(api, a.events[n])) = 1 /\ Ends(api, a.events[n]) = {}
<1> DEFINE cs == CarriersOf(api, a.events[n])
<1>1. cs \in Seq(P!Carriers)
  <2>1. EventOf(api, a.events[n]) \in SseEvents /\ P!EventAssumption
    BY EventIn, EventHolds
  <2> QED
    BY <2>1 DEF P!EventAssumption, EventOf
<1>2. Carrying(api, a.events, n)
  BY Carries
<1>3. cs = <<>> \/ \E c : cs = <<c>> /\ Ends(api, a.events[n]) = {}
  BY <1>2, Zenon DEF Carrying
<1> HIDE DEF cs
<1>4. Len(<<>>) = 0 /\ \A c : Len(<<c>>) = 1
  OBVIOUS
<1> QED
  BY <1>1, <1>3, <1>4 DEF cs

\* The texts of a block that an event brings.
LEMMA TextType ==
    ASSUME AnswersArrive, NoneIsNoTail, NEW cs \in Seq(P!Carriers), Len(cs) \in {0, 1}, NEW k
    PROVE  Sse!TextOf(cs, k) \in Seq(P!Characters)
<1>1. P!TextOf(cs, k) \in Seq(P!Characters)
  <2> DEFINE C == P!Characters
  <2>1. CASE Len(cs) = 0
    <3>1. P!TextOf(cs, k) = <<>>
      BY <2>1, AliasHolds, StreamHolds, EventHolds, P!TextOfNone
    <3> HIDE DEF C
    <3>2. <<>> \in Seq(C)
      OBVIOUS
    <3> QED
      BY <3>1, <3>2 DEF C
  <2>2. CASE Len(cs) = 1
    <3>1. P!TextOf(cs, k) = IF cs[1].key = k THEN cs[1].text ELSE <<>>
      BY <2>2, AliasHolds, StreamHolds, EventHolds, P!TextOfOne
    <3>2. cs[1] \in P!Carriers
      <4> DEFINE D == P!Carriers
      <4> HIDE DEF D
      <4> QED
        BY <2>2 DEF D
    <3> HIDE DEF C
    <3>3. cs[1].text \in Seq(C) /\ <<>> \in Seq(C)
      BY <3>2 DEF P!Carriers, C
    <3> QED
      BY <3>1, <3>3, SMTT(60) DEF C
  <2> QED
    BY <2>1, <2>2
<1>2. P!TextOf(cs, k) = Sse!TextOf(cs, k)
  BY SameText
<1> QED
  BY <1>1, <1>2, Zenon

\* One event more.
LEMMA GatheredStep ==
    ASSUME AnswersArrive, NoneIsNoTail, NEW api \in Apis, NEW a \in Answers[api],
           NEW n \in Nat, n < Len(a.events)
    PROVE  Gathered(api, a.events, n + 1)
             = [k \in Keys |-> Gathered(api, a.events, n)[k] \o Sse!TextOf(CarriersOf(api, a.events[n + 1]), k)]
<1>1. a.events \in Seq(ToSet(a.events))
  BY RelayAssumption
<1>2. Len(a.events) \in Nat /\ DOMAIN a.events = 1 .. Len(a.events)
  BY <1>1, SMTT(60)
<1>3. ASSUME NEW k \in Keys
      PROVE  Gathered(api, a.events, n + 1)[k]
                 = Gathered(api, a.events, n)[k] \o Sse!TextOf(CarriersOf(api, a.events[n + 1]), k)
  <2> DEFINE s == [i \in 1 .. n + 1 |-> Sse!TextOf(CarriersOf(api, a.events[i]), k)]
             r == [i \in 1 .. n |-> Sse!TextOf(CarriersOf(api, a.events[i]), k)]
  <2>1. s[1] \in Seq(P!Characters)
    <3>1. 1 \in DOMAIN a.events
      BY <1>2
    <3>2. CarriersOf(api, a.events[1]) \in Seq(P!Carriers) /\ Len(CarriersOf(api, a.events[1])) \in {0, 1}
      BY <3>1, CarriersTyped
    <3>3. 1 \in 1 .. n + 1
      OBVIOUS
    <3> QED
      BY <3>2, <3>3, TextType
  <2>2. Len(s) = n + 1 /\ Len(r) = n /\ (\A i \in 1 .. n : r[i] = s[i]) /\ (n = 0 => r = <<>>)
    OBVIOUS
  <2>3. FlattenSeq(s) = FlattenSeq(r) \o s[n + 1]
    <3> HIDE DEF s, r
    <3> QED
      BY <2>1, <2>2, FlattenStep
  <2>4. s[n + 1] = Sse!TextOf(CarriersOf(api, a.events[n + 1]), k)
    OBVIOUS
  <2> HIDE DEF s, r
  <2>5. Gathered(api, a.events, n + 1)[k] = FlattenSeq(s) /\ Gathered(api, a.events, n)[k] = FlattenSeq(r)
    BY DEF Gathered, s, r
  <2> QED
    BY <2>3, <2>4, <2>5
<1>4. Gathered(api, a.events, n + 1) = [k \in Keys |-> Gathered(api, a.events, n + 1)[k]]
  BY DEF Gathered
<1> QED
  BY <1>3, <1>4

\* The blocks that are ended after one event more.
LEMMA EndedStep ==
    ASSUME NEW api, NEW events, NEW n \in Nat
    PROVE  EndedBy(api, events, n + 1) = EndedBy(api, events, n) \cup Ends(api, events[n + 1])
<1>1. 1 .. n + 1 = 1 .. n \cup {n + 1}
  OBVIOUS
<1> QED
  BY <1>1, Zenon DEF EndedBy
-----------------------------------------------------------------------------
\* The fold over the texts of an event, step by step.
LEMMA FoldUnfolds ==
    ASSUME AnswersArrive, NoneIsNoTail, NEW base, NEW n \in Nat
    PROVE  \E g : /\ g[0] = base
                  /\ \A m \in 1 .. n : g[m] = P!Carry(g[m - 1], m)
                  /\ P!FoldLeft(P!Carry, base, [i \in 1 .. n |-> i]) = g[n]
<1>1. P!EventAssumption /\ P!AliasAssumption /\ P!StreamAssumption
  BY AliasHolds, StreamHolds, EventHolds
<1> QED
  BY <1>1, P!CarryFold, ZenonT(60)

\* The restorer passes over the one text of an event, or over none.
LEMMA ProcessedIs ==
    ASSUME AnswersArrive, NoneIsNoTail, NEW e, Len(e.carriers) \in {0, 1}, e.carriers \in Seq(P!Carriers)
    PROVE  P!Processed(e) = Restoring(e.carriers)
<1> DEFINE cs == e.carriers
           n == Len(cs)
           base == [event |-> cs, pending |-> pending]
<1>1. DOMAIN cs = 1 .. n /\ n \in Nat
  BY DEF cs
<1> HIDE DEF cs, n
<1>2. Restoring(cs) = IF n = 0 THEN base ELSE Sse!Carry(base, 1)
  <2> DEFINE f == FoldLeft(LAMBDA acc, i : Sse!Carry(acc, i), base, [i \in 1 .. n |-> i])
  <2>1. Restoring(cs) = f
    BY <1>1, Zenon DEF Restoring
  <2> HIDE DEF base
  <2>2. f = IF n = 0 THEN base ELSE Sse!Carry(base, 1)
    BY RelayFold DEF n, cs
  <2> QED
    BY <2>1, <2>2
<1>3. P!Processed(e) = IF n = 0 THEN base ELSE P!Carry(base, 1)
  <2> DEFINE f == P!FoldLeft(P!Carry, base, [i \in 1 .. n |-> i])
  <2>1. P!Processed(e) = f
    BY <1>1, Zenon DEF P!Processed, cs
  <2>2. \E g : /\ g[0] = base
               /\ \A m \in 1 .. n : g[m] = P!Carry(g[m - 1], m)
               /\ f = g[n]
    <3>1. n \in Nat
      BY <1>1
    <3> HIDE DEF base
    <3> QED
      BY <3>1, FoldUnfolds, ZenonT(60)
  <2> HIDE DEF f, base
  <2>3. PICK g : /\ g[0] = base
                 /\ \A m \in 1 .. n : g[m] = P!Carry(g[m - 1], m)
                 /\ f = g[n]
    BY <2>2
  <2>4. n = 0 \/ n = 1
    BY DEF n, cs
  <2>5. n = 1 => g[1] = P!Carry(g[0], 1)
    BY <2>3
  <2> QED
    BY <2>1, <2>3, <2>4, <2>5
<1>4. P!Carry(base, 1) = Sse!Carry(base, 1)
  BY SameCarry
<1> QED
  BY <1>2, <1>3, <1>4 DEF cs

\* What flushing sends before the event.
LEMMA FramesSeq ==
    ASSUME NEW held, NEW keys, keys \subseteq Keys, NEW order \in Sse!FlushOrders(held, keys), NEW event
    PROVE  LET frames == [i \in DOMAIN order |-> Sse!Flushed(held[order[i]])] \o <<event>> IN
           SubSeq(frames, 1, Len(frames)) = frames
<1> DEFINE S == {k \in keys : held[k] # None}
           f == [i \in DOMAIN order |-> Sse!Flushed(held[order[i]])]
           frames == f \o <<event>>
<1>1. IsFiniteSet(S)
  BY RelayAssumption, FS_Subset
<1>2. PICK m \in Nat : m = Sse!Cardinality(S) /\ order \in [1 .. m -> S]
  <2>1. Sse!Cardinality(S) = Cardinality(S)
    BY Zenon DEF Sse!Cardinality, Cardinality, IsFiniteSet, Sse!IsFiniteSet
  <2>2. Cardinality(S) \in Nat
    BY <1>1, FS_CardinalityType
  <2> HIDE DEF S
  <2>3. order \in [1 .. Sse!Cardinality(S) -> S]
    BY DEF Sse!FlushOrders, Sse!SetToSeqs, S
  <2> QED
    BY <2>1, <2>2, <2>3
<1>3. DOMAIN f = 1 .. m
  BY <1>2
<1> HIDE DEF f
<1>4. PICK C : C = {f[i] : i \in 1 .. m} \cup {event}
  OBVIOUS
<1>5. f = [i \in 1 .. m |-> f[i]]
  BY <1>3 DEF f
<1>6. f \in Seq(C) /\ <<event>> \in Seq(C)
  BY <1>4, <1>5
<1>7. frames \in Seq(C)
  BY <1>6
<1> HIDE DEF frames
<1> QED
  BY <1>7, SubSeqFull DEF frames, f
-----------------------------------------------------------------------------
\* The restorer is one that its theorems are about.
LEMMA RestorerHolds ==
    ASSUME AnswersArrive, NoneIsNoTail
    PROVE  P!EventAssumption /\ P!AliasAssumption /\ P!StreamAssumption
  BY AliasHolds, StreamHolds, EventHolds

\* An event of the answer to an orderly client, whose frames all reach it, is one that the
\* restorer receives.
LEMMA EventReceived ==
    ASSUME AnswersArrive, NoneIsNoTail, TurnsInv, DOMAIN delivered = Turns, orderly, session.restore,
           NEW n, ServerText(n), phase' = "relaying"
    PROVE  LET a == answers[asked] IN
           /\ place[asked] + 1 \in DOMAIN a.events
           /\ P!Receive(EventOf(session.api, a.events[place[asked] + 1]))
<1> DEFINE a == answers[asked]
           m == place[asked]
           ev == a.events[m + 1]
           e == EventOf(session.api, ev)
           cs == CarriersOf(session.api, ev)
           acc == Restoring(cs)
           keys == Ends(session.api, ev)
<1>1. /\ answering = asked /\ asked \in Begun /\ asked \in Turns /\ session.api \in Apis
      /\ a \in Answers[session.api] /\ asked \notin answered /\ phase = "relaying"
  <2>1. phase = "relaying" /\ answering # 0
    BY DEF ServerText
  <2> QED
    BY <2>1, AnsweringLast
<1>2. m \in Nat /\ m < Len(a.events) /\ a.events \in Seq(ToSet(a.events))
  BY <1>1, RelayAssumption DEF TurnsInv, TurnTypes, AnswersInOrder
<1>3. m + 1 \in DOMAIN a.events /\ Len(a.events) \in Nat
  BY <1>2
<1>4. PICK out \in Frames(ev) :
        /\ Sent(n = Len(out.frames))
        /\ Deliver(asked, out.frames, n)
        /\ pending' = out.pending
  BY <1>1 DEF ServerText
<1>5. /\ place' = [place EXCEPT ![asked] = @ + 1]
      /\ UNCHANGED <<session, asked, answers>>
  BY <1>1 DEF ServerText
<1>6. n = Len(out.frames)
  BY <1>4, SMTT(60) DEF Sent
<1>7. PICK order \in Sse!FlushOrders(acc.pending, keys) :
        /\ out.frames = [i \in DOMAIN order |-> Sse!Flushed(acc.pending[order[i]])] \o <<acc.event>>
        /\ out.pending = Sse!FlushPending(acc.pending, keys)
  <2>1. Frames(ev) =
          {[frames |-> [i \in DOMAIN order |-> Sse!Flushed(acc.pending[order[i]])] \o <<acc.event>>,
            pending |-> Sse!FlushPending(acc.pending, keys), count |-> restored + PutBack(cs)] :
              order \in Sse!FlushOrders(acc.pending, keys)}
    BY Zenon DEF Frames, Ends
  <2> HIDE DEF acc, keys, cs
  <2>2. PICK order \in Sse!FlushOrders(acc.pending, keys) :
          out = [frames |-> [i \in DOMAIN order |-> Sse!Flushed(acc.pending[order[i]])] \o <<acc.event>>,
                 pending |-> Sse!FlushPending(acc.pending, keys), count |-> restored + PutBack(cs)]
    BY <1>4, <2>1, Zenon
  <2> QED
    BY <2>2
<1>8. e.carriers = cs /\ e.ends = keys /\ P!Terminated(e.terminator) = keys /\ keys \subseteq Keys
  BY EndsWhat DEF EventOf
<1>9. cs \in Seq(P!Carriers) /\ Len(cs) \in {0, 1}
  BY <1>1, <1>3, CarriersTyped, SMTT(60)
<1>10. P!Processed(e) = acc
  BY <1>8, <1>9, ProcessedIs
<1> HIDE DEF acc, keys, cs, e
<1>11. SubSeq(out.frames, 1, n) = out.frames
  <2> DEFINE frames == [i \in DOMAIN order |-> Sse!Flushed(acc.pending[order[i]])] \o <<acc.event>>
  <2>1. out.frames = frames
    BY <1>7, SMTT(60)
  <2>2. SubSeq(frames, 1, Len(frames)) = frames
    BY <1>7, <1>8, FramesSeq
  <2> QED
    BY <1>6, <2>1, <2>2, Zenon
<1>12. pending' = P!FlushPending(acc.pending, P!Terminated(e.terminator))
  BY <1>4, <1>7, <1>8, SameFlush, SMTT(60)
<1>13. order \in P!FlushOrders(acc.pending, P!Terminated(e.terminator))
  BY <1>7, <1>8, SameFlush, SMTT(60)
<1>14. out.frames = [i \in DOMAIN order |-> P!Flushed(acc.pending[order[i]])] \o <<acc.event>>
  BY <1>7, SameFlushed
<1>15. P!Deliver(out.frames)
  <2>1. delivered'[asked] = [k \in Keys |-> delivered[asked][k] \o Sse!TextOfAll(out.frames, k)]
    <3>1. delivered' = [delivered EXCEPT ![asked] = [k \in Keys |-> @[k] \o Sse!TextOfAll(out.frames, k)]]
      BY <1>4, <1>11 DEF Deliver
    <3> QED
      BY <1>1, <3>1, SMTT(60)
  <2>2. asked' = asked
    BY <1>5
  <2> QED
    BY <2>1, <2>2, SameTextOfAll DEF P!Deliver
<1>16. place'[asked] = m + 1 /\ Event' = Event + 1 /\ Event < 0
  <2>1. place'[asked] = m + 1
    BY <1>1, <1>5 DEF TurnsInv, TurnTypes
  <2>2. Event' = place'[asked] - Len(a.events) /\ Event = m - Len(a.events)
    BY <1>5 DEF Event
  <2> QED
    BY <1>2, <1>3, <2>1, <2>2, SMTT(60)
<1>17. Got' = [k \in Keys |-> Got[k] \o P!TextOf(e.carriers, k)]
  <2>1. Got' = Gathered(session.api, a.events, m + 1) /\ Got = Gathered(session.api, a.events, m)
    BY <1>5, <1>16 DEF Got
  <2>2. Gathered(session.api, a.events, m + 1) = [k \in Keys |-> Got[k] \o Sse!TextOf(cs, k)]
    <3>1. Gathered(session.api, a.events, m + 1)
            = [k \in Keys |-> Gathered(session.api, a.events, m)[k]
                                   \o Sse!TextOf(CarriersOf(session.api, a.events[m + 1]), k)]
      BY <1>1, <1>2, GatheredStep
    <3> QED
      BY <2>1, <3>1, ZenonT(60) DEF cs
  <2>3. \A k : P!TextOf(e.carriers, k) = Sse!TextOf(cs, k)
    BY <1>8, SameText
  <2> QED
    BY <2>1, <2>2, <2>3
<1>18. Over1' = Over1 \cup e.ends
  <2>1. Over1' = EndedBy(session.api, a.events, m + 1) /\ Over1 = EndedBy(session.api, a.events, m)
    BY <1>5, <1>16 DEF Over1
  <2>2. EndedBy(session.api, a.events, m + 1)
            = EndedBy(session.api, a.events, m) \cup Ends(session.api, a.events[m + 1])
    BY <1>2, EndedStep
  <2> QED
    BY <1>8, <2>1, <2>2, Zenon DEF keys
<1>19. \A i \in DOMAIN e.carriers : e.carriers[i].key \notin Over1
  <2>1. Carrying(session.api, a.events, m + 1)
    BY <1>1, <1>3, Carries
  <2>2. \/ cs = <<>>
        \/ \E k \in Keys \ EndedBy(session.api, a.events, (m + 1) - 1) : \E text : cs = <<[key |-> k, text |-> text]>>
    BY <2>1, Zenon DEF Carrying, cs
  <2>3. (m + 1) - 1 = m
    BY <1>2
  <2>4. cs = <<>> \/ \E k \in Keys \ Over1 : \E text : cs = <<[key |-> k, text |-> text]>>
    BY <2>2, <2>3 DEF Over1
  <2>5. ASSUME NEW k \in Keys \ Over1, NEW text, cs = <<[key |-> k, text |-> text]>>, NEW i \in DOMAIN cs
        PROVE  cs[i].key \notin Over1
    <3>1. i = 1 /\ cs[1] = [key |-> k, text |-> text]
      BY <2>5
    <3> QED
      BY <3>1
  <2>6. cs = <<>> => DOMAIN cs = {}
    OBVIOUS
  <2> QED
    BY <1>8, <2>4, <2>5, <2>6
<1>20. P!RestoreJsonEvent(e)
  <2>1. P!Processed(e) = P!FoldLeft(P!Carry, [event |-> e.carriers, pending |-> pending],
                                    [i \in DOMAIN e.carriers |-> i])
    BY DEF P!Processed
  <2>2. P!Deliver([i \in DOMAIN order |-> P!Flushed(acc.pending[order[i]])] \o <<acc.event>>)
    BY <1>14, <1>15
  <2> QED
    BY <1>10, <1>12, <1>13, <1>17, <1>18, <2>1, <2>2, Zenon DEF P!RestoreJsonEvent
<1>21. P!Receive(e)
  BY <1>16, <1>19, <1>20 DEF P!Receive
<1> QED
  BY <1>3, <1>21 DEF e
-----------------------------------------------------------------------------
\* The restorer holds nothing between the answers to an orderly client, and while one arrives
\* it is as the restorer of a response of its own would be.
Arriving == asked \in Begun \ answered

RestorerInTurn ==
    orderly /\ session.restore /\ phase \notin {"closing", "over"} =>
        IF Arriving THEN P!PlainInv ELSE pending = [k \in Keys |-> None]

\* The inductive invariant of the texts.
TextInv ==
    /\ NoneIsNoTail /\ AnswersArrive /\ TurnsInv
    /\ DOMAIN delivered = Turns
    /\ \A t \in Turns \ Begun : delivered[t] = [k \in Keys |-> <<>>]
    /\ RestorerInTurn /\ TextOfItsTurn
-----------------------------------------------------------------------------
\* Nothing has been sent or held.
LEMMA TextInit == ASSUME NoneIsNoRecord, NoneIsNoTail, AnswersArrive, Init PROVE TextInv
<1>1. TurnsInv
  BY TurnsInit
<1>2. ~Arriving
  BY DEF Arriving, Begun, Init, Turns
<1> QED
  BY <1>1, <1>2 DEF Init, TextInv, RestorerInTurn, TextOfItsTurn

\* No event of the answer has come.
LEMMA StartArriving ==
    NoneIsNoTail /\ AnswersArrive /\ place[asked] = 0
        /\ pending = [k \in Keys |-> None] /\ delivered[asked] = [k \in Keys |-> <<>>] => P!PlainInv
<1> SUFFICES ASSUME NoneIsNoTail, AnswersArrive, place[asked] = 0, pending = [k \in Keys |-> None],
                    delivered[asked] = [k \in Keys |-> <<>>]
             PROVE  P!PlainInv
  OBVIOUS
<1>1. Got = [k \in Keys |-> <<>>]
  <2> DEFINE Texts(k, i) == Sse!TextOf(CarriersOf(session.api, answers[asked].events[i]), k)
  <2>1. \A k \in Keys : FlattenSeq([i \in 1 .. 0 |-> Texts(k, i)]) = <<>>
    <3> SUFFICES ASSUME NEW k \in Keys
                 PROVE  FlattenSeq([i \in 1 .. 0 |-> Texts(k, i)]) = <<>>
      OBVIOUS
    <3> DEFINE f == [i \in 1 .. 0 |-> Texts(k, i)]
    <3>1. f = <<>> /\ Len(f) = 0
      OBVIOUS
    <3> HIDE DEF f
    <3>2. FlattenSeq(f) = <<>>
      BY <3>1 DEF FlattenSeq
    <3> QED
      BY <3>2 DEF f
  <2> QED
    BY <2>1 DEF Got, Gathered
<1>2. Over1 = {}
  BY DEF Over1, EndedBy
<1> QED
  BY <1>1, <1>2, RestorerHolds, P!PlainStart

\* The same after a step.
LEMMA StartArrivingNext ==
    ASSUME NoneIsNoTail, AnswersArrive, place'[asked'] = 0, pending' = [k \in Keys |-> None],
           delivered'[asked'] = [k \in Keys |-> <<>>]
    PROVE  P!PlainInv'
<1>1. (NoneIsNoTail /\ AnswersArrive /\ place[asked] = 0
        /\ pending = [k \in Keys |-> None] /\ delivered[asked] = [k \in Keys |-> <<>>])' => P!PlainInv'
  BY StartArriving, PTL
<1>2. NoneIsNoTail' /\ AnswersArrive'
  BY DEF NoneIsNoTail, AnswersArrive
<1> QED
  BY <1>1, <1>2

\* A step that has nothing to do with the texts.
LEMMA TextStays ==
    ASSUME TextInv, TurnsInv', UNCHANGED <<session, asked, answers, place, delivered, answered>>,
           orderly' => orderly,
           phase' \notin {"closing", "over"} => phase \notin {"closing", "over"} /\ pending' = pending
    PROVE  TextInv'
<1>1. Arriving' = Arriving /\ Begun' = Begun
  BY DEF Arriving, Begun
<1>2. RestorerInTurn'
  <2> SUFFICES ASSUME orderly', session'.restore, phase' \notin {"closing", "over"}
               PROVE  IF Arriving' THEN P!PlainInv' ELSE pending' = [k \in Keys |-> None]
    BY DEF RestorerInTurn
  <2>1. orderly /\ session.restore /\ phase \notin {"closing", "over"} /\ pending' = pending
    OBVIOUS
  <2>2. CASE ~Arriving
    BY <1>1, <2>1, <2>2 DEF TextInv, RestorerInTurn
  <2>3. CASE Arriving
    <3>1. P!PlainInv
      BY <2>1, <2>3 DEF TextInv, RestorerInTurn
    <3>2. P!PlainEvents
      BY EventsPlain DEF TextInv
    <3>3. UNCHANGED P!vars
      BY <2>1 DEF P!vars, Event, Got, Over1
    <3>4. P!EventAssumption /\ P!AliasAssumption /\ P!StreamAssumption
      BY RestorerHolds DEF TextInv
    <3>5. P!PlainInv'
      BY <3>1, <3>2, <3>3, <3>4, P!PlainStep, SMTT(60)
    <3> QED
      BY <1>1, <2>3, <3>5
  <2> QED
    BY <2>2, <2>3
<1> QED
  BY <1>1, <1>2 DEF TextInv, TextOfItsTurn, NoneIsNoTail, AnswersArrive

\* The next turn begins with a restorer that holds nothing.
LEMMA RequestText == ASSUME TextInv, NEW body, NEW ok, ClientRequest(body, ok), IInv' PROVE TextInv'
<1>1. TurnsInv
  BY DEF TextInv
<1>2. TurnsInv' /\ asked' \notin Begun' /\ asked' = asked + 1
  BY <1>1, RequestTurns
<1>3. /\ phase = "relaying" /\ orderly' = (orderly /\ asked \in answered \cup {0})
      /\ UNCHANGED <<session, pending, answers, delivered, answered>>
  BY DEF ClientRequest
<1>4. ~Arriving' /\ Begun' = Begun
  BY <1>2, <1>3 DEF Arriving, Begun
<1>5. orderly' => orderly /\ ~Arriving
  <2>1. orderly' => orderly /\ asked \in answered \cup {0}
    BY <1>3, Zenon
  <2>2. 0 \notin Begun
    BY DEF Begun, Turns
  <2>3. asked \in answered \cup {0} => ~Arriving
    BY <2>2 DEF Arriving
  <2> QED
    BY <2>1, <2>3
<1> QED
  BY <1>2, <1>3, <1>4, <1>5 DEF TextInv, RestorerInTurn, TextOfItsTurn, NoneIsNoTail, AnswersArrive

\* An answer begins.
LEMMA BeginText == ASSUME TextInv, NEW answer \in Answers[session.api], Begin(answer), IInv' PROVE TextInv'
<1>1. TurnsInv
  BY DEF TextInv
<1>2. TurnsInv' /\ UNCHANGED <<session, relay, request, asked, place, delivered, orderly, answered, plain>>
  BY <1>1, BeginTurns
<1>3. PICK t \in 1 .. asked :
                 /\ t \in Turns /\ t \notin Begun /\ t \notin answered /\ Begun' = Begun \cup {t}
                 /\ answers'[t] = answer /\ \A u \in Turns : u # t => answers'[u] = answers[u]
                 /\ place[t] = 0 /\ (orderly => t = asked)
  BY <1>1, BeginTurns
<1>4. phase = "relaying"
  BY DEF Begin
<1>5. RestorerInTurn'
  <2> SUFFICES ASSUME orderly, session.restore
               PROVE  Arriving' /\ P!PlainInv'
    BY <1>2, <1>4 DEF RestorerInTurn, relay
  <2>1. t = asked /\ UNCHANGED <<asked, place, pending, delivered, answered>>
    BY <1>2, <1>3 DEF relay
  <2>2. ~Arriving /\ Arriving'
    BY <1>3, <2>1 DEF Arriving
  <2>3. pending = [k \in Keys |-> None]
    BY <1>4, <2>2 DEF TextInv, RestorerInTurn
  <2>4. delivered[asked] = [k \in Keys |-> <<>>]
    BY <1>3, <2>1 DEF TextInv
  <2>5. P!PlainInv'
    BY <1>3, <2>1, <2>3, <2>4, StartArrivingNext DEF TextInv
  <2> QED
    BY <2>2, <2>5
<1>6. TextOfItsTurn'
  <2>1. \A u \in answered : answers'[u] = answers[u]
    BY <1>1, <1>3 DEF TurnsInv, AnswersInOrder, Begun
  <2> QED
    BY <1>2, <2>1 DEF TextInv, TextOfItsTurn
<1> QED
  BY <1>2, <1>3, <1>5, <1>6 DEF TextInv, NoneIsNoTail, AnswersArrive
-----------------------------------------------------------------------------
\* What an orderly client has when the restorer has received the last event.
LEMMA LastEvent ==
    ASSUME AnswersArrive, NoneIsNoTail, P!PlainInv', Over1' = Keys
    PROVE  /\ pending' = [k \in Keys |-> None]
           /\ delivered'[asked'] = [k \in Keys |-> Sse!Restore(Live, Got'[k])]
<1>1. P!PlainTexts' /\ \A k \in Keys : P!ExactBlock(k)'
  BY AliasDistinct DEF P!PlainInv
<1>2. P!NoTailAfterEnd' /\ pending' \in P!Pendings /\ delivered'[asked'] \in [Keys -> Seq(P!Characters)]
  BY <1>1 DEF P!PlainTexts, P!TailInv, P!SseTails
<1>3. \A k \in Keys : pending'[k] = None
  BY <1>2 DEF P!NoTailAfterEnd
<1>4. \A k \in Keys : delivered'[asked'][k] = Sse!Restore(Live, Got'[k])
  BY <1>1, SameRestore DEF P!ExactBlock
<1> QED
  BY <1>2, <1>3, <1>4 DEF P!Pendings

\* An event of the answer to an orderly client.
LEMMA OrderlyEvent ==
    ASSUME TextInv, TurnsInv', NEW n, ServerText(n), orderly, session.restore, phase' = "relaying"
    PROVE  /\ IF Arriving' THEN P!PlainInv' ELSE pending' = [k \in Keys |-> None]
           /\ answered' # answered => delivered'[asked] = answers[asked].text
<1> DEFINE a == answers[asked]
           m == place[asked]
           last == m + 1 = Len(a.events)
<1>1. AnswersArrive /\ NoneIsNoTail /\ TurnsInv /\ DOMAIN delivered = Turns
  BY DEF TextInv
<1>2. /\ answering = asked /\ asked \in Begun /\ asked \in Turns /\ session.api \in Apis
      /\ a \in Answers[session.api] /\ asked \notin answered /\ phase = "relaying"
      /\ a.events \in Seq(ToSet(a.events)) /\ m \in Nat
  <2>1. phase = "relaying" /\ answering # 0
    BY DEF ServerText
  <2> QED
    BY <1>1, <2>1, AnsweringLast DEF TurnsInv, TurnTypes
<1>3. /\ m + 1 \in DOMAIN a.events
      /\ P!Receive(EventOf(session.api, a.events[m + 1]))
  BY <1>1, EventReceived
<1>4. P!PlainInv'
  <2>1. P!PlainInv
    BY <1>2 DEF TextInv, RestorerInTurn, Arriving
  <2>2. EventOf(session.api, a.events[m + 1]) \in SseEvents
    BY <1>2, <1>3, EventIn
  <2>3. P!Next
    BY <1>3, <2>2 DEF P!Next
  <2>4. P!EventAssumption /\ P!AliasAssumption /\ P!StreamAssumption /\ P!PlainEvents
    BY <1>1, RestorerHolds, EventsPlain, SMTT(60)
  <2> QED
    BY <2>1, <2>3, <2>4, P!PlainStep
<1>5. /\ place' = [place EXCEPT ![asked] = @ + 1]
      /\ UNCHANGED <<session, asked, answers>>
      /\ answered' = IF last THEN answered \cup {asked} ELSE answered
  BY <1>2 DEF ServerText, Sent
<1>6. place'[asked'] = m + 1
  BY <1>1, <1>2, <1>5 DEF TurnsInv, TurnTypes
<1>7. CASE ~last
  <2>1. Arriving' /\ answered' = answered
    BY <1>2, <1>5, <1>7 DEF Arriving, Begun
  <2> QED
    BY <1>4, <2>1
<1>8. CASE last
  <2>1. ~Arriving'
    BY <1>5, <1>8 DEF Arriving
  <2>2. Over1' = EndedBy(session.api, a.events, m + 1) /\ Got' = Gathered(session.api, a.events, m + 1)
    BY <1>5, <1>6 DEF Over1, Got
  <2>3. Over1' = Keys
    <3>1. Ends(session.api, a.events[m + 1]) = Keys
      <4>1. Ends(session.api, a.events[Len(a.events)]) = Keys
        BY <1>1, <1>2, ZenonT(60) DEF AnswersArrive
      <4> QED
        BY <1>8, <4>1
    <3>2. EndedBy(session.api, a.events, m + 1) = EndedBy(session.api, a.events, m) \cup Keys
      BY <1>2, <3>1, EndedStep
    <3>3. \A i : Ends(session.api, a.events[i]) \subseteq Keys
      BY EndsWhat
    <3>4. EndedBy(session.api, a.events, m) \subseteq Keys
      BY <3>3, Zenon DEF EndedBy
    <3> QED
      BY <2>2, <3>2, <3>4
  <2>4. /\ pending' = [k \in Keys |-> None]
        /\ delivered'[asked'] = [k \in Keys |-> Sse!Restore(Live, Got'[k])]
    BY <1>1, <1>4, <2>3, LastEvent
  <2>5. a.text = [k \in Keys |-> Sse!Restore(Live, Gathered(session.api, a.events, Len(a.events))[k])]
    BY <1>1, <1>2, Zenon DEF AnswersArrive
  <2>6. asked' = asked /\ Got' = Gathered(session.api, a.events, Len(a.events))
    BY <1>5, <1>8, <2>2
  <2>7. delivered'[asked] = a.text
    BY <2>4, <2>5, <2>6, Zenon
  <2> QED
    BY <2>1, <2>4, <2>7
<1> QED
  BY <1>7, <1>8

\* An event of an answer.
LEMMA EventText == ASSUME TextInv, TurnsInv', NEW n, ServerText(n) PROVE TextInv'
<1>1. /\ phase = "relaying" /\ answering # 0 /\ phase' \in {"relaying", "closing"}
      /\ UNCHANGED <<session, asked, answers, orderly>>
      /\ answered' = answered \/ (answered' = answered \cup {asked} /\ orderly /\ phase' = "relaying")
      /\ \E f : delivered' = [delivered EXCEPT ![answering] = f]
  BY DEF ServerText, Sent, Deliver
<1>2. /\ answering \in Begun /\ answering \in Turns /\ asked \notin answered /\ answering \notin answered
      /\ orderly => answering = asked
  BY <1>1, AnsweringLast DEF TextInv, TurnsInv, AnswersInOrder
<1>3. Begun' = Begun
  BY <1>1 DEF Begun
<1>4. DOMAIN delivered' = Turns /\ \A t \in Turns : t # answering => delivered'[t] = delivered[t]
  BY <1>1, <1>2 DEF TextInv
<1>5. \A t \in Turns \ Begun' : delivered'[t] = [k \in Keys |-> <<>>]
  BY <1>2, <1>3, <1>4 DEF TextInv
<1>6. RestorerInTurn'
  BY <1>1, OrderlyEvent DEF RestorerInTurn
<1>7. TextOfItsTurn'
  <2> SUFFICES ASSUME session.restore, NEW t \in answered' PROVE delivered'[t] = answers[t].text
    BY <1>1 DEF TextOfItsTurn
  <2>1. CASE t \in answered
    <3>1. t \in Turns /\ t # answering
      BY <1>2, <2>1 DEF TextInv, TurnsInv, AnswersInOrder, Begun
    <3> QED
      BY <1>4, <2>1, <3>1 DEF TextInv, TextOfItsTurn
  <2>2. CASE t \notin answered
    BY <1>1, <2>2, OrderlyEvent
  <2> QED
    BY <2>1, <2>2
<1> QED
  BY <1>4, <1>5, <1>6, <1>7 DEF TextInv, NoneIsNoTail, AnswersArrive

\* Every step keeps the invariant of the texts.
LEMMA TextNext == TextInv /\ [Next]_vars => TextInv'
<1> SUFFICES ASSUME TextInv, [Next]_vars PROVE TextInv'
  OBVIOUS
<1>1. IInv' /\ TurnsInv'
  BY InvNext, TurnsNext DEF TextInv, TurnsInv
<1>2. ASSUME NEW record, FinishConnection(record) PROVE TextInv'
  BY <1>1, <1>2, TextStays DEF FinishConnection, peers
<1>3. CASE Dropped
  BY <1>2, <1>3 DEF Dropped
<1>4. CASE Refused
  <2>1. PICK record : record = [fin EXCEPT !.status = 400]
    OBVIOUS
  <2> QED
    BY <1>2, <1>4, <2>1 DEF Refused
<1>5. ASSUME NEW error, TunnelEnds(error) PROVE TextInv'
  <2>1. PICK record : record = [fin EXCEPT !.error = error]
    OBVIOUS
  <2> QED
    BY <1>2, <1>5, <2>1 DEF TunnelEnds
<1>6. CASE Switch \/ Upgraded
  BY <1>1, <1>6, TextStays DEF Switch, Upgraded, peers
<1>7. CASE \E error : Closes(error)
  BY <1>1, <1>7, TextStays DEF Closes, peers
<1>8. ASSUME NEW body, NEW ok, ClientRequest(body, ok) PROVE TextInv'
  BY <1>1, <1>8, RequestText
<1>9. ASSUME NEW body, NEW ok, ClientText(body, ok) PROVE TextInv'
  BY <1>1, <1>9, TextStays DEF ClientText, peers
<1>10. ASSUME NEW answer \in Answers[session.api], Begin(answer) PROVE TextInv'
  BY <1>1, <1>10, BeginText
<1>11. ASSUME NEW n, ServerText(n) PROVE TextInv'
  BY <1>1, <1>11, EventText
<1>12. CASE GiveUp
  BY <1>1, <1>12, TextStays DEF GiveUp, relay
<1>13. CASE ServerPlain
  BY <1>1, <1>13, TextStays DEF ServerPlain
<1>14. CASE OnClose
  BY <1>1, <1>14, TextStays DEF OnClose, peers
<1>15. CASE UNCHANGED vars
  BY <1>1, <1>15, TextStays DEF vars, relay, peers
<1> QED
  BY <1>3, <1>4, <1>5, <1>6, <1>7, <1>8, <1>9, <1>10, <1>11, <1>12, <1>13, <1>14, <1>15 DEF Next

\* With a client that waits, every answer reaches it as the restoration of all that the upstream
\* sent for it, with nothing of another turn (on_server_text calls restore_json_event of the one
\* restorer, and only the terminator of the last event empties it), for all answers whose
\* events carry one text at most and end every block at last.
THEOREM AnswerArrives ==
    ASSUME NoneIsNoRecord, NoneIsNoTail, AnswersArrive PROVE Spec => []TextOfItsTurn
<1>1. Init => TextInv
  BY TextInit
<1>2. TextInv => TextOfItsTurn
  BY DEF TextInv
<1> QED
  BY <1>1, <1>2, TextNext, PTL DEF Spec
-----------------------------------------------------------------------------
\* Sums over finite sets: SumFunctionOnSet adds the values in the order that CHOOSE takes them;
\* the order does not matter.

Pick(S) == CHOOSE x \in S : TRUE
Total(F, S) == SumFunctionOnSet(F, S)

\* The function that SumFunctionOnSet applies to S is given by a recursive equation.
SumStep(g, F, s) == IF s = {} THEN 0 ELSE F[Pick(s)] + g[s \ {Pick(s)}]
Sums(g, F, S) == g = [s \in SUBSET S |-> SumStep(g, F, s)]
SumsOf(F, S) == CHOOSE g : Sums(g, F, S)

\* SumFunctionOnSet, by that name.
LEMMA TotalIs == ASSUME NEW F, NEW S PROVE Total(F, S) = SumsOf(F, S)[S]
  BY DEF Total, SumsOf, Sums, SumStep, Pick, SumFunctionOnSet, FoldFunctionOnSet, MapThenFoldSet

\* CHOOSE takes an element of the set.
LEMMA PickIn == ASSUME NEW S, S # {} PROVE Pick(S) \in S
  BY DEF Pick

\* What holds of a set when it holds of its strict subsets holds of all subsets of a finite one.
LEMMA SubsetInduction ==
    ASSUME NEW S, IsFiniteSet(S), NEW Holding,
           \A T \in SUBSET S : (\A U \in SUBSET T : U # T => U \in Holding) => T \in Holding
    PROVE  \A T \in SUBSET S : T \in Holding
<1> DEFINE R == StrictSubsetOrdering(S)
           bad == {T \in SUBSET S : T \notin Holding}
<1>1. IsWellFoundedOn(R, FiniteSubsetsOf(S))
  BY FS_StrictSubsetOrderingWellFounded
<1>2. bad \subseteq FiniteSubsetsOf(S)
  BY FS_Subset DEF FiniteSubsetsOf
<1>3. SUFFICES ASSUME bad # {} PROVE FALSE
  OBVIOUS
<1>4. PICK T \in bad : \A U \in bad : <<U, T>> \notin R
  <2> HIDE DEF R, bad
  <2> QED
    BY <1>1, <1>2, <1>3, WFMin
<1>5. ASSUME NEW U \in SUBSET T, U # T PROVE U \in Holding
  <2>1. <<U, T>> \in R
    BY <1>4, <1>5 DEF StrictSubsetOrdering
  <2> QED
    BY <1>4, <2>1
<1> QED
  BY <1>4, <1>5

\* What such a function gives for a subset.
LEMMA TotalsValue ==
    ASSUME NEW g, NEW F, NEW S, Sums(g, F, S), NEW s \in SUBSET S
    PROVE  g[s] = SumStep(g, F, s)
  BY DEF Sums

\* Two such functions agree where both are defined.
LEMMA TotalsUnique ==
    ASSUME NEW F, NEW S, NEW T \in SUBSET S, IsFiniteSet(S), NEW g, NEW h, Sums(g, F, S), Sums(h, F, T)
    PROVE  \A s \in SUBSET T : g[s] = h[s]
<1> DEFINE Holding == {s \in SUBSET T : g[s] = h[s]}
<1>1. IsFiniteSet(T)
  BY FS_Subset
<1>2. ASSUME NEW s \in SUBSET T, \A u \in SUBSET s : u # s => u \in Holding PROVE s \in Holding
  <2>1. g[s] = SumStep(g, F, s) /\ h[s] = SumStep(h, F, s)
    BY TotalsValue
  <2>2. CASE s = {}
    BY <2>1, <2>2 DEF SumStep
  <2>3. CASE s # {}
    <3>1. PICK x \in s : x = Pick(s)
      BY <2>3, PickIn
    <3>2. s \ {x} \in SUBSET s /\ s \ {x} # s
      BY <3>1
    <3>3. g[s \ {x}] = h[s \ {x}]
      BY <1>2, <3>2
    <3> QED
      BY <2>1, <2>3, <3>1, <3>3 DEF SumStep
  <2> QED
    BY <2>2, <2>3
<1> HIDE DEF Holding
<1>3. \A s \in SUBSET T : s \in Holding
  BY <1>1, <1>2, SubsetInduction
<1> QED
  BY <1>3 DEF Holding

\* There is such a function for every finite set.
LEMMA TotalsExist ==
    ASSUME NEW F, NEW S, IsFiniteSet(S)
    PROVE  Sums(SumsOf(F, S), F, S)
<1> DEFINE Holding == {T \in SUBSET S : \E g : Sums(g, F, T)}
<1>1. ASSUME NEW T \in SUBSET S, \A U \in SUBSET T : U # T => U \in Holding PROVE T \in Holding
  <2>1. ASSUME NEW U \in SUBSET T, U # T PROVE Sums(SumsOf(F, U), F, U)
    BY <1>1, <2>1 DEF SumsOf
  <2> DEFINE last(s) == s \ {Pick(s)}
             g == [s \in SUBSET T |-> IF s = {} THEN 0 ELSE F[Pick(s)] + SumsOf(F, last(s))[last(s)]]
  <2>2. ASSUME NEW U \in SUBSET T, U # T PROVE g[U] = SumsOf(F, U)[U]
    <3>1. SumsOf(F, U)[U] = SumStep(SumsOf(F, U), F, U)
      BY <2>1, <2>2, TotalsValue
    <3>2. CASE U = {}
      BY <3>1, <3>2 DEF SumStep
    <3>3. CASE U # {}
      <4>1. PICK V : V = last(U)
        OBVIOUS
      <4>2. V \in SUBSET U /\ V \in SUBSET T /\ V # T
        BY <2>2, <4>1
      <4>3. IsFiniteSet(U)
        BY FS_Subset
      <4>4. SumsOf(F, U)[V] = SumsOf(F, V)[V]
        BY <2>1, <2>2, <4>2, <4>3, TotalsUnique
      <4>5. g[U] = F[Pick(U)] + SumsOf(F, V)[V]
        BY <3>3, <4>1
      <4>6. SumStep(SumsOf(F, U), F, U) = F[Pick(U)] + SumsOf(F, U)[V]
        BY <3>3, <4>1 DEF SumStep
      <4> QED
        BY <3>1, <4>4, <4>5, <4>6
    <3> QED
      BY <3>2, <3>3
  <2>3. ASSUME NEW s \in SUBSET T PROVE g[s] = SumStep(g, F, s)
    <3>1. CASE s = {}
      BY <3>1 DEF SumStep
    <3>2. CASE s # {}
      <4>1. PICK V : V = last(s)
        OBVIOUS
      <4>2. V \in SUBSET T /\ V # T
        BY <3>2, <4>1, PickIn
      <4>3. g[V] = SumsOf(F, V)[V]
        BY <2>2, <4>2
      <4>4. g[s] = F[Pick(s)] + SumsOf(F, V)[V]
        BY <3>2, <4>1
      <4>5. SumStep(g, F, s) = F[Pick(s)] + g[V]
        BY <3>2, <4>1 DEF SumStep
      <4> QED
        BY <4>3, <4>4, <4>5
    <3> QED
      BY <3>1, <3>2
  <2>4. \E h : h = g
    OBVIOUS
  <2>5. g = [s \in SUBSET T |-> g[s]]
    OBVIOUS
  <2> HIDE DEF g
  <2>6. g = [s \in SUBSET T |-> SumStep(g, F, s)]
    BY <2>3, <2>5
  <2> QED
    BY <2>6 DEF Sums
<1> HIDE DEF Holding
<1>2. S \in Holding
  BY <1>1, SubsetInduction
<1> QED
  BY <1>2 DEF Holding, SumsOf

\* The sum over no element.
LEMMA TotalEmpty == ASSUME NEW F PROVE Total(F, {}) = 0
<1>1. Sums(SumsOf(F, {}), F, {})
  BY TotalsExist, FS_EmptySet
<1> QED
  BY <1>1, TotalIs, TotalsValue DEF SumStep

\* The sum over the others and the element that CHOOSE takes.
LEMMA TotalPicked ==
    ASSUME NEW F, NEW S, IsFiniteSet(S), S # {}
    PROVE  Total(F, S) = F[Pick(S)] + Total(F, S \ {Pick(S)})
<1>1. PICK T \in SUBSET S : T = S \ {Pick(S)}
  OBVIOUS
<1>2. IsFiniteSet(T)
  BY FS_Subset
<1>3. Sums(SumsOf(F, S), F, S) /\ Sums(SumsOf(F, T), F, T)
  BY <1>2, TotalsExist
<1>4. SumsOf(F, S)[S] = F[Pick(S)] + SumsOf(F, S)[T]
  BY <1>1, <1>3, TotalsValue DEF SumStep
<1>5. SumsOf(F, S)[T] = SumsOf(F, T)[T]
  BY <1>3, TotalsUnique
<1> QED
  BY <1>1, <1>4, <1>5, TotalIs

\* F gives a number for each element of S.
Numbers(F, S) == \A x \in S : F[x] \in Int

\* A sum of numbers is a number.
LEMMA TotalInt ==
    ASSUME NEW F, NEW S, IsFiniteSet(S), Numbers(F, S)
    PROVE  \A T \in SUBSET S : Total(F, T) \in Int
<1> DEFINE Holding == {T \in SUBSET S : Total(F, T) \in Int}
<1>1. ASSUME NEW T \in SUBSET S, \A U \in SUBSET T : U # T => U \in Holding PROVE T \in Holding
  <2>1. CASE T = {}
    BY <2>1, TotalEmpty
  <2>2. CASE T # {}
    <3>1. Pick(T) \in T /\ IsFiniteSet(T)
      BY <2>2, PickIn, FS_Subset
    <3>2. PICK U : U = T \ {Pick(T)}
      OBVIOUS
    <3>3. U \in SUBSET T /\ U # T
      BY <3>1, <3>2
    <3>4. Total(F, U) \in Int /\ F[Pick(T)] \in Int
      BY <1>1, <3>1, <3>3 DEF Numbers
    <3> QED
      BY <2>2, <3>1, <3>2, <3>4, TotalPicked
  <2> QED
    BY <2>1, <2>2
<1> HIDE DEF Holding
<1>2. \A T \in SUBSET S : T \in Holding
  BY <1>1, SubsetInduction
<1> QED
  BY <1>2 DEF Holding

\* The total of two totals.
LEMMA TotalPlus ==
    ASSUME NEW F, NEW G, NEW H, NEW S, IsFiniteSet(S), Numbers(F, S), Numbers(G, S),
           \A x \in S : H[x] = F[x] + G[x]
    PROVE  Total(H, S) = Total(F, S) + Total(G, S)
<1> DEFINE Holding == {T \in SUBSET S : Total(H, T) = Total(F, T) + Total(G, T)}
<1>1. ASSUME NEW T \in SUBSET S, \A U \in SUBSET T : U # T => U \in Holding PROVE T \in Holding
  <2>1. CASE T = {}
    BY <2>1, TotalEmpty
  <2>2. CASE T # {}
    <3>1. PICK p : p = Pick(T)
      OBVIOUS
    <3>2. PICK U : U = T \ {p}
      OBVIOUS
    <3>3. p \in T /\ IsFiniteSet(T) /\ U \in SUBSET T /\ U # T
      BY <2>2, <3>1, <3>2, PickIn, FS_Subset
    <3>4. Total(H, U) = Total(F, U) + Total(G, U)
      BY <1>1, <3>3
    <3>5. /\ Total(F, U) \in Int /\ Total(G, U) \in Int /\ F[p] \in Int /\ G[p] \in Int
          /\ H[p] = F[p] + G[p]
      BY <3>3, TotalInt DEF Numbers
    <3>6. /\ Total(F, T) = F[p] + Total(F, U) /\ Total(G, T) = G[p] + Total(G, U)
          /\ Total(H, T) = H[p] + Total(H, U)
      BY <2>2, <3>1, <3>2, <3>3, TotalPicked
    <3> QED
      BY <3>4, <3>5, <3>6
  <2> QED
    BY <2>1, <2>2
<1> HIDE DEF Holding
<1>2. S \in Holding
  BY <1>1, SubsetInduction
<1> QED
  BY <1>2 DEF Holding

\* A total to which one element at most contributes.
LEMMA TotalOne ==
    ASSUME NEW F, NEW S, IsFiniteSet(S), NEW p, Numbers(F, S), \A x \in S : x # p => F[x] = 0
    PROVE  Total(F, S) = IF p \in S THEN F[p] ELSE 0
<1> DEFINE Holding == {T \in SUBSET S : Total(F, T) = IF p \in T THEN F[p] ELSE 0}
<1>1. ASSUME NEW T \in SUBSET S, \A U \in SUBSET T : U # T => U \in Holding PROVE T \in Holding
  <2>1. CASE T = {}
    BY <2>1, TotalEmpty
  <2>2. CASE T # {}
    <3>1. PICK q : q = Pick(T)
      OBVIOUS
    <3>2. PICK U : U = T \ {q}
      OBVIOUS
    <3>3. q \in T /\ q \in S /\ IsFiniteSet(T) /\ U \in SUBSET T /\ U # T
      BY <2>2, <3>1, <3>2, PickIn, FS_Subset
    <3>4. Total(F, U) = IF p \in U THEN F[p] ELSE 0
      BY <1>1, <3>3
    <3>5. F[q] \in Int /\ (q # p => F[q] = 0) /\ (p \in S => F[p] \in Int)
      BY <3>3 DEF Numbers
    <3>6. Total(F, T) = F[q] + Total(F, U)
      BY <2>2, <3>1, <3>2, <3>3, TotalPicked
    <3>7. CASE q = p
      BY <3>2, <3>3, <3>4, <3>5, <3>6, <3>7
    <3>8. CASE q # p
      BY <3>2, <3>3, <3>4, <3>5, <3>6, <3>8
    <3> QED
      BY <3>7, <3>8
  <2> QED
    BY <2>1, <2>2
<1> HIDE DEF Holding
<1>2. S \in Holding
  BY <1>1, SubsetInduction
<1> QED
  BY <1>2 DEF Holding

\* Nothing to add up.
LEMMA TotalZero ==
    ASSUME NEW F, NEW S, IsFiniteSet(S), \A x \in S : F[x] = 0
    PROVE  Total(F, S) = 0
<1>1. PICK p : p = 0
  OBVIOUS
<1>2. Numbers(F, S)
  BY DEF Numbers
<1> QED
  BY <1>1, <1>2, TotalOne
-----------------------------------------------------------------------------
\* The first n texts, flattened.
Flat(s, n) == FlattenSeq([i \in 1 .. n |-> s[i]])

\* One text more.
LEMMA FlatStep ==
    ASSUME NEW s, NEW D, NEW n \in Nat, \A i \in 1 .. n + 1 : s[i] \in Seq(D)
    PROVE  Flat(s, 0) = <<>> /\ Flat(s, n + 1) = Flat(s, n) \o s[n + 1]
<1> DEFINE t == [i \in 1 .. n + 1 |-> s[i]]
           r == [i \in 1 .. n |-> s[i]]
           e == [i \in 1 .. 0 |-> s[i]]
<1>1. e = <<>> /\ Len(e) = 0
  OBVIOUS
<1>2. Flat(s, 0) = <<>>
  <2>1. Flat(s, 0) = FlattenSeq(e)
    BY DEF Flat
  <2> HIDE DEF e
  <2> QED
    BY <1>1, <2>1 DEF FlattenSeq
<1>3. /\ Len(t) = n + 1 /\ Len(r) = n /\ (\A i \in 1 .. n : r[i] = t[i]) /\ (n = 0 => r = <<>>)
      /\ t[1] \in Seq(D) /\ t[n + 1] = s[n + 1]
  OBVIOUS
<1>4. Flat(s, n + 1) = FlattenSeq(t) /\ Flat(s, n) = FlattenSeq(r)
  BY DEF Flat
<1> HIDE DEF t, r
<1>5. FlattenSeq(t) = FlattenSeq(r) \o t[n + 1]
  BY <1>3, FlattenStep
<1> QED
  BY <1>2, <1>3, <1>4, <1>5

\* What flattening texts of D gives is one.
LEMMA FlatIn ==
    ASSUME NEW s, NEW D, NEW n \in Nat, \A i \in 1 .. n : s[i] \in Seq(D)
    PROVE  \A m \in 0 .. n : Flat(s, m) \in Seq(D)
<1> DEFINE bad == {m \in 0 .. n : Flat(s, m) \notin Seq(D)}
<1> SUFFICES ASSUME bad # {} PROVE FALSE
  OBVIOUS
<1>1. PICK m \in bad : \A k \in bad : m <= k
  <2>1. bad \subseteq Nat
    OBVIOUS
  <2> HIDE DEF bad
  <2> QED
    BY <2>1, Least
<1>2. m # 0
  <2>1. CASE n = 0
    <3>1. [i \in 1 .. 0 |-> s[i]] = <<>>
      OBVIOUS
    <3>2. Flat(s, 0) = <<>>
      BY <3>1 DEF Flat, FlattenSeq
    <3> QED
      BY <3>2, EmptySeq
  <2>2. CASE n # 0
    <3>1. 0 \in Nat /\ \A i \in 1 .. 0 + 1 : s[i] \in Seq(D)
      BY <2>2
    <3>2. Flat(s, 0) = <<>>
      BY <3>1, FlatStep
    <3>3. <<>> \in Seq(D)
      OBVIOUS
    <3> QED
      BY <3>2, <3>3
  <2> QED
    BY <2>1, <2>2
<1>3. PICK k \in Nat : m = k + 1 /\ k \in 0 .. n /\ k \notin bad
  <2>1. m - 1 \in Nat /\ m = (m - 1) + 1 /\ m - 1 \in 0 .. n /\ m - 1 \notin bad
    BY <1>1, <1>2
  <2> QED
    BY <2>1
<1>4. Flat(s, k) \in Seq(D) /\ s[k + 1] \in Seq(D) /\ \A i \in 1 .. k + 1 : s[i] \in Seq(D)
  BY <1>3
<1>5. Flat(s, k + 1) = Flat(s, k) \o s[k + 1]
  BY <1>4, FlatStep
<1>6. Flat(s, k + 1) \in Seq(D)
  <2>1. PICK x \in Seq(D) : x = Flat(s, k)
    BY <1>4
  <2>2. PICK y \in Seq(D) : y = s[k + 1]
    BY <1>4
  <2>3. x \o y \in Seq(D)
    OBVIOUS
  <2> QED
    BY <1>5, <2>1, <2>2, <2>3
<1> QED
  BY <1>3, <1>6

\* The lengths of texts that are given block by block.
Lengths(p) == [k \in Keys |-> Len(p[k])]

\* They are numbers.
LEMMA LengthsAre ==
    ASSUME NEW p, NEW D, \A k \in Keys : p[k] \in Seq(D)
    PROVE  IsFiniteSet(Keys) /\ Numbers(Lengths(p), Keys) /\ \A k \in Keys : Lengths(p)[k] = Len(p[k])
<1>1. \A k \in Keys : Len(p[k]) \in Int
  <2> SUFFICES ASSUME NEW k \in Keys PROVE Len(p[k]) \in Int
    OBVIOUS
  <2>1. PICK x \in Seq(D) : x = p[k]
    OBVIOUS
  <2> QED
    BY <2>1
<1> QED
  BY <1>1, RelayAssumption DEF Numbers, Lengths

\* The n texts of w, of D, are as long as those of all blocks together.
Parted(w, p, D, n) ==
    \A i \in 1 .. n :
        /\ w[i] \in Seq(D) /\ \A k \in Keys : p[k][i] \in Seq(D)
        /\ Len(w[i]) = Total(Lengths([k \in Keys |-> p[k][i]]), Keys)

\* The length of a flattening is that of its parts in all blocks, if that of every text is.
LEMMA FlatLengths ==
    ASSUME NEW w, NEW p, NEW D, NEW n \in Nat, Parted(w, p, D, n)
    PROVE  Len(Flat(w, n)) = Total(Lengths([k \in Keys |-> Flat(p[k], n)]), Keys)
<1>0. \A i \in 1 .. n :
        /\ w[i] \in Seq(D) /\ \A k \in Keys : p[k][i] \in Seq(D)
        /\ Len(w[i]) = Total(Lengths([k \in Keys |-> p[k][i]]), Keys)
  BY DEF Parted
<1> DEFINE of(m) == [k \in Keys |-> Flat(p[k], m)]
           bad == {m \in 0 .. n : Len(Flat(w, m)) # Total(Lengths(of(m)), Keys)}
<1> SUFFICES ASSUME bad # {} PROVE FALSE
  <2>1. n \in 0 .. n
    OBVIOUS
  <2> QED
    BY <2>1, Zenon
<1>1. PICK m \in bad : \A k \in bad : m <= k
  <2>1. bad \subseteq Nat
    OBVIOUS
  <2> HIDE DEF bad
  <2> QED
    BY <2>1, Least
<1>2. m # 0
  <2>1. \A s : Flat(s, 0) = <<>>
    <3> SUFFICES ASSUME NEW s PROVE Flat(s, 0) = <<>>
      OBVIOUS
    <3>1. [i \in 1 .. 0 |-> s[i]] = <<>>
      OBVIOUS
    <3> QED
      BY <3>1 DEF Flat, FlattenSeq
  <2>2. Len(Flat(w, 0)) = 0 /\ \A k \in Keys : Lengths(of(0))[k] = 0
    BY <2>1 DEF Lengths
  <2>3. Total(Lengths(of(0)), Keys) = 0
    <3> HIDE DEF of
    <3> QED
      BY <2>2, TotalZero, RelayAssumption
  <2> QED
    BY <2>2, <2>3, SMTT(60)
<1>3. PICK l \in Nat : m = l + 1 /\ l \in 0 .. n /\ l \notin bad /\ l + 1 \in 1 .. n
  <2>1. m - 1 \in Nat /\ m = (m - 1) + 1 /\ m - 1 \in 0 .. n /\ m - 1 \notin bad /\ m \in 1 .. n
    BY <1>1, <1>2
  <2> QED
    BY <2>1
<1>4. /\ Flat(w, l) \in Seq(D) /\ w[l + 1] \in Seq(D) /\ Flat(w, l + 1) = Flat(w, l) \o w[l + 1]
      /\ Len(Flat(w, l + 1)) = Len(Flat(w, l)) + Len(w[l + 1])
  <2>1. Flat(w, l) \in Seq(D)
    BY <1>0, <1>3, FlatIn
  <2>2. ASSUME NEW i \in 1 .. l + 1 PROVE w[i] \in Seq(D)
    <3>1. i \in 1 .. n
      BY <1>3
    <3> QED
      BY <1>0, <3>1
  <2>3. w[l + 1] \in Seq(D) /\ Flat(w, l + 1) = Flat(w, l) \o w[l + 1]
    BY <1>3, <2>2, FlatStep, SMTT(60)
  <2> QED
    BY <2>1, <2>3, ConcatProperties
<1>5. ASSUME NEW k \in Keys
      PROVE  /\ Flat(p[k], l) \in Seq(D) /\ p[k][l + 1] \in Seq(D) /\ Flat(p[k], l + 1) \in Seq(D)
             /\ Len(Flat(p[k], l + 1)) = Len(Flat(p[k], l)) + Len(p[k][l + 1])
  <2>0. PICK s : s = p[k]
    OBVIOUS
  <2>1. \A i \in 1 .. n : s[i] \in Seq(D)
    BY <1>0, <2>0
  <2>2. Flat(s, l) \in Seq(D) /\ Flat(s, l + 1) \in Seq(D)
    BY <1>3, <2>1, FlatIn
  <2>3. s[l + 1] \in Seq(D) /\ Flat(s, l + 1) = Flat(s, l) \o s[l + 1]
    BY <1>3, <2>1, FlatStep, SMTT(60)
  <2>4. Len(Flat(s, l + 1)) = Len(Flat(s, l)) + Len(s[l + 1])
    BY <2>2, <2>3, ConcatProperties
  <2> QED
    BY <2>0, <2>2, <2>3, <2>4
<1>6. Total(Lengths(of(l + 1)), Keys)
        = Total(Lengths(of(l)), Keys) + Total(Lengths([k \in Keys |-> p[k][l + 1]]), Keys)
  <2> DEFINE q == [k \in Keys |-> p[k][l + 1]]
  <2>1. \A k \in Keys : of(l)[k] \in Seq(D) /\ q[k] \in Seq(D) /\ of(l + 1)[k] \in Seq(D)
    BY <1>5
  <2>2. \A k \in Keys : Len(of(l + 1)[k]) = Len(of(l)[k]) + Len(q[k])
    BY <1>5
  <2> HIDE DEF of, q
  <2>3. /\ Numbers(Lengths(of(l)), Keys) /\ Numbers(Lengths(q), Keys) /\ IsFiniteSet(Keys)
        /\ \A k \in Keys : Lengths(of(l + 1))[k] = Lengths(of(l))[k] + Lengths(q)[k]
    BY <2>1, <2>2, LengthsAre
  <2> QED
    BY <2>3, TotalPlus DEF q
<1>7. Len(Flat(w, l)) = Total(Lengths(of(l)), Keys)
  BY <1>3
<1>8. Len(w[l + 1]) = Total(Lengths([k \in Keys |-> p[k][l + 1]]), Keys)
  BY <1>0, <1>3
<1>9. Len(Flat(w, l + 1)) = Total(Lengths(of(l + 1)), Keys)
  <2> HIDE DEF of
  <2> QED
    BY <1>4, <1>6, <1>7, <1>8
<1> QED
  BY <1>3, <1>9
-----------------------------------------------------------------------------
\* The restorer flattens as the relay does.
LEMMA SameFlat == ASSUME NEW s PROVE Sse!FlattenSeq(s) = FlattenSeq(s)
  BY DEF FlattenSeq, Sse!FlattenSeq

\* The texts of an event are as long as what they add to all blocks.
LEMMA TextsSize ==
    ASSUME NEW cs \in Seq(P!Carriers)
    PROVE  /\ TextsOf(cs) \in Seq(P!Characters)
           /\ \A k \in Keys : Sse!TextOf(cs, k) \in Seq(P!Characters)
           /\ Len(TextsOf(cs)) = Total(Lengths([k \in Keys |-> Sse!TextOf(cs, k)]), Keys)
<1> DEFINE C == P!Characters
           n == Len(cs)
           w == [i \in 1 .. n |-> cs[i].text]
           p == [k \in Keys |-> [i \in 1 .. n |-> IF cs[i].key = k THEN cs[i].text ELSE <<>>]]
<1>1. DOMAIN cs = 1 .. n /\ n \in Nat /\ \A i \in 1 .. n : cs[i].key \in Keys /\ cs[i].text \in Seq(C)
  <2> DEFINE D == P!Carriers
  <2>1. cs \in Seq(D)
    OBVIOUS
  <2> HIDE DEF D, C
  <2>2. DOMAIN cs = 1 .. n /\ n \in Nat /\ \A i \in 1 .. n : cs[i] \in D
    BY <2>1
  <2>3. \A c \in D : c.key \in Keys /\ c.text \in Seq(C)
    BY DEF D, P!Carriers, C
  <2> QED
    BY <2>2, <2>3
<1> HIDE DEF C, n
<1>2. TextsOf(cs) = Flat(w, n)
  <2>1. [i \in 1 .. n |-> w[i]] = [i \in DOMAIN cs |-> cs[i].text]
    BY <1>1
  <2> QED
    BY <2>1, Zenon DEF TextsOf, Flat
<1>3. ASSUME NEW k \in Keys PROVE Sse!TextOf(cs, k) = Flat(p[k], n)
  <2>1. [i \in 1 .. n |-> p[k][i]] = [i \in DOMAIN cs |-> IF cs[i].key = k THEN cs[i].text ELSE <<>>]
    BY <1>1
  <2>2. Sse!TextOf(cs, k) = Sse!FlattenSeq([i \in DOMAIN cs |-> IF cs[i].key = k THEN cs[i].text ELSE <<>>])
    BY DEF Sse!TextOf
  <2>3. Sse!TextOf(cs, k) = FlattenSeq([i \in DOMAIN cs |-> IF cs[i].key = k THEN cs[i].text ELSE <<>>])
    BY <2>2, SameFlat
  <2> HIDE DEF p
  <2> QED
    BY <2>1, <2>3, Zenon DEF Flat
<1>4. ASSUME NEW i \in 1 .. n
      PROVE  /\ w[i] \in Seq(C) /\ \A k \in Keys : p[k][i] \in Seq(C)
             /\ Len(w[i]) = Total(Lengths([k \in Keys |-> p[k][i]]), Keys)
  <2> DEFINE q == [k \in Keys |-> p[k][i]]
             x == cs[i].text
             l == cs[i].key
  <2>1. x \in Seq(C) /\ l \in Keys /\ <<>> \in Seq(C)
    BY <1>1
  <2>2. \A k \in Keys : q[k] = IF l = k THEN x ELSE <<>>
    OBVIOUS
  <2>3. w[i] = x
    OBVIOUS
  <2> HIDE DEF q, x, l, w
  <2>4. \A k \in Keys : q[k] \in Seq(C)
    BY <2>1, <2>2
  <2>5. /\ IsFiniteSet(Keys) /\ Numbers(Lengths(q), Keys)
        /\ Lengths(q)[l] = Len(x) /\ \A k \in Keys : k # l => Lengths(q)[k] = 0
    <3>1. IsFiniteSet(Keys) /\ Numbers(Lengths(q), Keys) /\ \A k \in Keys : Lengths(q)[k] = Len(q[k])
      BY <2>4, LengthsAre
    <3>2. Len(<<>>) = 0
      OBVIOUS
    <3> QED
      BY <2>1, <2>2, <3>1, <3>2
  <2>6. Total(Lengths(q), Keys) = Len(x)
    BY <2>1, <2>5, TotalOne
  <2>7. \A k \in Keys : p[k][i] = q[k]
    BY DEF q
  <2> QED
    BY <2>1, <2>3, <2>4, <2>6, <2>7, Zenon DEF q
<1> HIDE DEF w, p
<1>5. Flat(w, n) \in Seq(C)
  <2>1. n \in Nat /\ \A i \in 1 .. n : w[i] \in Seq(C)
    BY <1>1, <1>4
  <2>2. \A m \in 0 .. n : Flat(w, m) \in Seq(C)
    BY <2>1, FlatIn
  <2> QED
    BY <2>1, <2>2
<1>6. ASSUME NEW k \in Keys PROVE Sse!TextOf(cs, k) \in Seq(C)
  <2>1. PICK s : s = p[k]
    OBVIOUS
  <2>2. \A i \in 1 .. n : s[i] \in Seq(C)
    BY <1>4, <2>1
  <2>3. n \in Nat /\ \A m \in 0 .. n : Flat(s, m) \in Seq(C)
    BY <1>1, <2>2, FlatIn
  <2>4. Flat(s, n) \in Seq(C)
    BY <2>3
  <2> QED
    BY <1>3, <2>1, <2>4
<1>7. Len(Flat(w, n)) = Total(Lengths([k \in Keys |-> Flat(p[k], n)]), Keys)
  <2>1. Parted(w, p, C, n)
    BY <1>4 DEF Parted
  <2>2. n \in Nat
    BY <1>1
  <2> QED
    BY <2>1, <2>2, FlatLengths
<1>8. [k \in Keys |-> Flat(p[k], n)] = [k \in Keys |-> Sse!TextOf(cs, k)]
  BY <1>3
<1> QED
  BY <1>2, <1>5, <1>6, <1>7, <1>8 DEF C

\* The frames are as long as what they add to all blocks.
LEMMA SizeIs ==
    ASSUME NEW frames, NEW n \in Nat, DOMAIN frames = 1 .. n, \A i \in 1 .. n : frames[i] \in Seq(P!Carriers)
    PROVE  /\ \A k \in Keys : Sse!TextOfAll(frames, k) \in Seq(P!Characters)
           /\ Size(frames) = Total(Lengths([k \in Keys |-> Sse!TextOfAll(frames, k)]), Keys)
<1> DEFINE C == P!Characters
           w == [i \in 1 .. n |-> TextsOf(frames[i])]
           p == [k \in Keys |-> [i \in 1 .. n |-> Sse!TextOf(frames[i], k)]]
<1> HIDE DEF C
<1>1. Size(frames) = Len(Flat(w, n))
  <2>1. [i \in 1 .. n |-> w[i]] = [i \in DOMAIN frames |-> TextsOf(frames[i])]
    OBVIOUS
  <2> QED
    BY <2>1, Zenon DEF Size, Flat
<1>2. ASSUME NEW k \in Keys PROVE Sse!TextOfAll(frames, k) = Flat(p[k], n)
  <2>1. [i \in 1 .. n |-> p[k][i]] = [i \in DOMAIN frames |-> Sse!TextOf(frames[i], k)]
    OBVIOUS
  <2>2. Sse!TextOfAll(frames, k) = Sse!FlattenSeq([i \in DOMAIN frames |-> Sse!TextOf(frames[i], k)])
    BY DEF Sse!TextOfAll
  <2>3. Sse!TextOfAll(frames, k) = FlattenSeq([i \in DOMAIN frames |-> Sse!TextOf(frames[i], k)])
    BY <2>2, SameFlat
  <2> HIDE DEF p
  <2> QED
    BY <2>1, <2>3, Zenon DEF Flat
<1>3. ASSUME NEW i \in 1 .. n
      PROVE  /\ w[i] \in Seq(C) /\ \A k \in Keys : p[k][i] \in Seq(C)
             /\ Len(w[i]) = Total(Lengths([k \in Keys |-> p[k][i]]), Keys)
  <2> DEFINE q == [k \in Keys |-> Sse!TextOf(frames[i], k)]
  <2>1. PICK cs : cs = frames[i]
    OBVIOUS
  <2>2. /\ TextsOf(cs) \in Seq(C) /\ \A k \in Keys : Sse!TextOf(cs, k) \in Seq(C)
        /\ Len(TextsOf(cs)) = Total(Lengths([k \in Keys |-> Sse!TextOf(cs, k)]), Keys)
    BY <2>1, TextsSize DEF C
  <2>3. w[i] = TextsOf(cs) /\ \A k \in Keys : p[k][i] = Sse!TextOf(cs, k)
    BY <2>1
  <2>4. [k \in Keys |-> p[k][i]] = [k \in Keys |-> Sse!TextOf(cs, k)]
    BY <2>3
  <2> HIDE DEF w, p
  <2> QED
    BY <2>2, <2>3, <2>4
<1> HIDE DEF w, p
<1>4. ASSUME NEW k \in Keys PROVE Sse!TextOfAll(frames, k) \in Seq(C)
  <2>1. PICK s : s = p[k]
    OBVIOUS
  <2>2. \A i \in 1 .. n : s[i] \in Seq(C)
    BY <1>3, <2>1
  <2>3. \A m \in 0 .. n : Flat(s, m) \in Seq(C)
    BY <2>2, FlatIn
  <2>4. Flat(s, n) \in Seq(C)
    BY <2>3
  <2> QED
    BY <1>2, <2>1, <2>4
<1>5. Len(Flat(w, n)) = Total(Lengths([k \in Keys |-> Flat(p[k], n)]), Keys)
  <2>1. Parted(w, p, C, n)
    BY <1>3 DEF Parted
  <2>2. n \in Nat
    OBVIOUS
  <2> QED
    BY <2>1, <2>2, FlatLengths
<1>6. [k \in Keys |-> Flat(p[k], n)] = [k \in Keys |-> Sse!TextOfAll(frames, k)]
  BY <1>2
<1> QED
  BY <1>1, <1>4, <1>5, <1>6 DEF C
-----------------------------------------------------------------------------
\* Positions that are moved are as many as before.
LEMMA MovedCount ==
    ASSUME NEW S, IsFiniteSet(S), S \subseteq Nat, NEW n \in Nat
    PROVE  IsFiniteSet({i + n : i \in S}) /\ Cardinality({i + n : i \in S}) = Cardinality(S)
<1> DEFINE T == {i + n : i \in S}
           f == [i \in S |-> i + n]
<1>1. f \in Surjection(S, T) /\ f \in Injection(S, T)
  BY DEF Surjection, Injection, IsInjective
<1> HIDE DEF f, T
<1>2. IsFiniteSet(T) /\ Cardinality(T) = Cardinality(S)
  BY <1>1, FS_Surjection
<1> QED
  BY <1>2 DEF T

\* The originals of a text are those of its parts.
LEMMA OriginalsConcat ==
    ASSUME NEW C, NEW x \in Seq(C), NEW y \in Seq(C)
    PROVE  Originals(x \o y) = Originals(x) + Originals(y) /\ Originals(x) \in Nat /\ Originals(y) \in Nat
<1> DEFINE o == Original[1]
           m == Len(x)
           n == Len(y)
           A == {i \in 1 .. m : x[i] = o}
           B == {i \in 1 .. n : y[i] = o}
           D == {i + m : i \in B}
           E == {i \in 1 .. m + n : (x \o y)[i] = o}
<1>1. m \in Nat /\ n \in Nat /\ DOMAIN x = 1 .. m /\ DOMAIN y = 1 .. n /\ DOMAIN (x \o y) = 1 .. m + n
  OBVIOUS
<1>2. Originals(x) = Cardinality(A) /\ Originals(y) = Cardinality(B) /\ Originals(x \o y) = Cardinality(E)
  BY <1>1 DEF Originals
<1>3. (\A i \in 1 .. m : (x \o y)[i] = x[i]) /\ (\A i \in 1 .. n : (x \o y)[i + m] = y[i])
  OBVIOUS
<1> HIDE DEF o, m, n
<1>4. IsFiniteSet(A) /\ IsFiniteSet(B) /\ A \subseteq Nat /\ B \subseteq Nat
  <2>1. IsFiniteSet(1 .. m) /\ IsFiniteSet(1 .. n)
    BY <1>1, FS_Interval
  <2>2. A \in SUBSET (1 .. m) /\ B \in SUBSET (1 .. n)
    OBVIOUS
  <2>3. A \subseteq Nat /\ B \subseteq Nat
    BY <1>1
  <2> HIDE DEF A, B
  <2>4. IsFiniteSet(A)
    BY <2>1, <2>2, FS_Subset
  <2>5. IsFiniteSet(B)
    BY <2>1, <2>2, FS_Subset
  <2> QED
    BY <2>3, <2>4, <2>5
<1>5. E = A \cup D
  <2>1. A \subseteq E
    BY <1>1, <1>3
  <2>2. D \subseteq E
    <3> SUFFICES ASSUME NEW i \in B PROVE i + m \in E
      OBVIOUS
    <3> QED
      BY <1>1, <1>3
  <2>3. ASSUME NEW i \in E PROVE i \in A \/ i \in D
    <3>1. CASE i \in 1 .. m
      BY <1>3, <3>1
    <3>2. CASE i \notin 1 .. m
      <4>1. i - m \in 1 .. n /\ i = (i - m) + m
        BY <1>1, <3>2
      <4>2. i - m \in B
        BY <1>3, <4>1
      <4> QED
        BY <4>1, <4>2
    <3> QED
      BY <3>1, <3>2
  <2> HIDE DEF A, D, E
  <2> QED
    BY <2>1, <2>2, <2>3
<1>6. A \cap D = {}
  BY <1>1
<1>7. IsFiniteSet(D) /\ Cardinality(D) = Cardinality(B)
  <2> HIDE DEF B
  <2> QED
    BY <1>1, <1>4, MovedCount
<1> HIDE DEF A, B, D, E
<1>8. Cardinality(E) = Cardinality(A) + Cardinality(D) /\ Cardinality(A) \in Nat /\ Cardinality(D) \in Nat
  <2>1. Cardinality(A \cup D) = Cardinality(A) + Cardinality(D) - Cardinality(A \cap D)
    BY <1>4, <1>7, FS_Union
  <2>2. Cardinality(A) \in Nat /\ Cardinality(D) \in Nat /\ Cardinality({}) = 0
    BY <1>4, <1>7, FS_CardinalityType, FS_EmptySet
  <2>3. Cardinality(A \cap D) = 0
    BY <1>6, <2>2
  <2>4. Cardinality(E) = Cardinality(A \cup D)
    BY <1>5
  <2> QED
    BY <2>1, <2>2, <2>3, <2>4
<1> QED
  BY <1>2, <1>7, <1>8

\* A text without the original has none.
LEMMA OriginalsNone == ASSUME NEW D, "original" \notin D, NEW x \in Seq(D) PROVE Originals(x) = 0
<1>1. \A i \in DOMAIN x : x[i] \in D
  OBVIOUS
<1>2. {i \in DOMAIN x : x[i] = Original[1]} = {}
  BY <1>1, LiveIs
<1> QED
  BY <1>2, FS_EmptySet DEF Originals

\* Where the alias begins in a text.
Matches(x) == {i \in 1 .. Len(x) - 1 : x[i] = "start" /\ x[i + 1] = "end"}

\* Aliased counts those places.
LEMMA AliasedIs ==
    ASSUME NEW C, NEW x \in Seq(C)
    PROVE  Aliased(x) = Cardinality(Matches(x)) /\ IsFiniteSet(Matches(x)) /\ Matches(x) \subseteq Nat
<1>1. ASSUME NEW i \in 1 .. Len(x) - 1
      PROVE  SubSeq(x, i, i + 1) = Alias <=> x[i] = "start" /\ x[i + 1] = "end"
  <2> DEFINE s == SubSeq(x, i, i + 1)
  <2>1. s \in Seq(C) /\ Len(s) = 2 /\ s[1] = x[i] /\ s[2] = x[i + 1]
    OBVIOUS
  <2> HIDE DEF s
  <2>2. s = <<"start", "end">> <=> s[1] = "start" /\ s[2] = "end"
    BY <2>1
  <2> QED
    BY <2>1, <2>2, LiveIs DEF s
<1>2. {i \in 1 .. Len(x) - 1 : SubSeq(x, i, i + 1) = Alias} = Matches(x)
  BY <1>1 DEF Matches
<1>3. Matches(x) \subseteq 1 .. Len(x) /\ Len(x) \in Nat
  BY DEF Matches
<1>4. IsFiniteSet(Matches(x))
  <2>1. IsFiniteSet(1 .. Len(x))
    BY <1>3, FS_Interval
  <2> QED
    BY <1>3, <2>1, FS_Subset
<1>5. Matches(x) \subseteq Nat
  BY <1>3
<1>6. Aliased(x) = Cardinality(Matches(x))
  BY <1>2 DEF Aliased
<1> QED
  BY <1>4, <1>5, <1>6

\* A character before a text.
LEMMA HeadConcat ==
    ASSUME NEW C, NEW h \in Seq(C), Len(h) = 1, NEW r \in Seq(C)
    PROVE  /\ Len(r) \in Nat /\ Len(h \o r) = Len(r) + 1 /\ h \o r \in Seq(C)
           /\ (h \o r)[1] = h[1] /\ \A i \in 1 .. Len(r) : (h \o r)[i + 1] = r[i]
<1>1. /\ h \o r \in Seq(C) /\ Len(h \o r) = Len(r) + 1 /\ Len(r) \in Nat
      /\ \A i \in 1 .. Len(h) + Len(r) : (h \o r)[i] = IF i <= Len(h) THEN h[i] ELSE r[i - Len(h)]
  <2>1. Len(r) \in Nat
    OBVIOUS
  <2>2. h \o r \in Seq(C)
    BY ConcatProperties
  <2>3. Len(h \o r) = Len(h) + Len(r)
    BY ConcatProperties
  <2>4. \A i \in 1 .. Len(h) + Len(r) : (h \o r)[i] = IF i <= Len(h) THEN h[i] ELSE r[i - Len(h)]
    BY ConcatProperties
  <2>5. Len(h \o r) = Len(r) + 1
    BY <2>1, <2>3
  <2> QED
    BY <2>1, <2>2, <2>4, <2>5
<1>2. 1 \in 1 .. Len(h) + Len(r) /\ 1 <= Len(h)
  BY <1>1
<1>3. (h \o r)[1] = h[1]
  BY <1>1, <1>2
<1>4. ASSUME NEW i \in 1 .. Len(r) PROVE (h \o r)[i + 1] = r[i]
  <2>1. i + 1 \in 1 .. Len(h) + Len(r) /\ ~(i + 1 <= Len(h)) /\ (i + 1) - Len(h) = i
    BY <1>1
  <2> QED
    BY <1>1, <2>1
<1> QED
  BY <1>1, <1>3, <1>4

\* The aliases of a text with one more character before it.
LEMMA AliasedStep ==
    ASSUME NEW C, NEW h \in Seq(C), Len(h) = 1, NEW r \in Seq(C)
    PROVE  /\ Aliased(r) \in Nat
           /\ Aliased(h \o r) = IF h[1] = "start" /\ r # <<>> /\ r[1] = "end" THEN Aliased(r) + 1 ELSE Aliased(r)
<1> DEFINE x == h \o r
           D == {i + 1 : i \in Matches(r)}
           n == Len(r)
<1>1. /\ n \in Nat /\ Len(x) = n + 1 /\ x \in Seq(C)
      /\ x[1] = h[1] /\ \A i \in 1 .. n : x[i + 1] = r[i]
  BY HeadConcat
<1>2. /\ Aliased(r) = Cardinality(Matches(r)) /\ IsFiniteSet(Matches(r)) /\ Matches(r) \subseteq Nat
      /\ Aliased(x) = Cardinality(Matches(x))
  BY <1>1, AliasedIs
<1> HIDE DEF x
<1>3. IsFiniteSet(D) /\ Cardinality(D) = Cardinality(Matches(r)) /\ Cardinality(D) \in Nat
  BY <1>2, MovedCount, FS_CardinalityType, ZenonT(60)
<1>4. D \subseteq Matches(x)
  <2> SUFFICES ASSUME NEW i \in Matches(r) PROVE i + 1 \in Matches(x)
    OBVIOUS
  <2>1. i \in 1 .. n - 1 /\ r[i] = "start" /\ r[i + 1] = "end" /\ i \in 1 .. n /\ i + 1 \in 1 .. n
    BY <1>1 DEF Matches
  <2>2. x[i + 1] = r[i] /\ x[(i + 1) + 1] = r[i + 1]
    BY <1>1, <2>1
  <2> QED
    BY <1>1, <2>1, <2>2 DEF Matches
<1>5. ASSUME NEW i \in Matches(x), i # 1 PROVE i \in D
  <2>1. i \in 1 .. n /\ x[i] = "start" /\ x[i + 1] = "end"
    BY <1>1 DEF Matches
  <2>2. i - 1 \in 1 .. n - 1 /\ i - 1 \in 1 .. n /\ i \in 1 .. n /\ (i - 1) + 1 = i
    BY <1>1, <1>5, <2>1
  <2>3. x[i] = r[i - 1] /\ x[i + 1] = r[i]
    BY <1>1, <2>2
  <2>4. i - 1 \in Matches(r)
    BY <2>1, <2>2, <2>3 DEF Matches
  <2> QED
    BY <2>2, <2>4
<1>6. 1 \notin D
  <2> SUFFICES ASSUME NEW i \in Matches(r) PROVE i + 1 # 1
    OBVIOUS
  <2>1. i \in 1 .. n - 1
    BY DEF Matches
  <2> QED
    BY <1>1, <2>1
<1>7. 1 \in Matches(x) <=> h[1] = "start" /\ r # <<>> /\ r[1] = "end"
  <2>1. n = 0 <=> r = <<>>
    BY EmptySeq
  <2>2. n # 0 => x[1 + 1] = r[1]
    BY <1>1
  <2> QED
    BY <1>1, <2>1, <2>2 DEF Matches
<1> HIDE DEF D, n
<1>8. CASE 1 \in Matches(x)
  <2>1. Matches(x) = D \cup {1}
    BY <1>4, <1>5, <1>8
  <2>2. Cardinality(Matches(x)) = Cardinality(D) + 1
    BY <1>3, <1>6, <2>1, FS_AddElement
  <2> QED
    BY <1>2, <1>3, <1>7, <1>8, <2>2 DEF x
<1>9. CASE 1 \notin Matches(x)
  <2>1. Matches(x) = D
    BY <1>4, <1>5, <1>9
  <2> QED
    BY <1>2, <1>3, <1>7, <1>9, <2>1 DEF x
<1> QED
  BY <1>8, <1>9
-----------------------------------------------------------------------------
\* A text without a value that was not replaced.
Clean(s) == s \in Seq(P!Characters) /\ \A i \in DOMAIN s : s[i] # "original"

\* The table of the one alias is one that the theorems about restorers allow.
LEMMA TableHolds ==
    ASSUME AnswersArrive, NoneIsNoTail
    PROVE  /\ P!TextTable(P!Characters, Live)
           /\ P!EventAssumption /\ P!AliasAssumption /\ P!StreamAssumption
<1>1. P!EventAssumption /\ P!AliasAssumption /\ P!StreamAssumption
  BY RestorerHolds
<1> QED
  BY <1>1, P!CharactersProperties

\* The parts of a clean text are clean.
LEMMA CleanParts ==
    ASSUME NEW C, NEW x \in Seq(C), NEW y \in Seq(C), \A i \in DOMAIN (x \o y) : (x \o y)[i] # "original"
    PROVE  (\A i \in DOMAIN x : x[i] # "original") /\ (\A i \in DOMAIN y : y[i] # "original")
<1>1. /\ Len(x) \in Nat /\ Len(y) \in Nat /\ DOMAIN x = 1 .. Len(x) /\ DOMAIN y = 1 .. Len(y)
      /\ DOMAIN (x \o y) = 1 .. Len(x) + Len(y)
  OBVIOUS
<1>2. \A i \in 1 .. Len(x) + Len(y) : (x \o y)[i] = IF i <= Len(x) THEN x[i] ELSE y[i - Len(x)]
  BY ConcatProperties
<1>3. ASSUME NEW i \in DOMAIN x PROVE x[i] # "original"
  <2>1. i \in 1 .. Len(x) + Len(y) /\ i <= Len(x)
    BY <1>1
  <2> QED
    BY <1>1, <1>2, <2>1
<1>4. ASSUME NEW i \in DOMAIN y PROVE y[i] # "original"
  <2>1. i + Len(x) \in 1 .. Len(x) + Len(y) /\ ~(i + Len(x) <= Len(x)) /\ (i + Len(x)) - Len(x) = i
    BY <1>1
  <2>2. (x \o y)[i + Len(x)] = y[i]
    BY <1>2, <2>1
  <2> QED
    BY <1>1, <2>1, <2>2
<1> QED
  BY <1>3, <1>4

\* A text of one character.
LEMMA OneOriginal ==
    ASSUME NEW C, NEW h \in Seq(C), Len(h) = 1
    PROVE  Originals(h) = IF h[1] = "original" THEN 1 ELSE 0
<1>1. DOMAIN h = {1}
  OBVIOUS
<1>2. CASE h[1] = "original"
  <2>1. {i \in DOMAIN h : h[i] = Original[1]} = {1}
    BY <1>1, <1>2, LiveIs
  <2> QED
    BY <1>2, <2>1, FS_Singleton DEF Originals
<1>3. CASE h[1] # "original"
  <2>1. {i \in DOMAIN h : h[i] = Original[1]} = {}
    BY <1>1, <1>3, LiveIs
  <2> QED
    BY <1>3, <2>1, FS_EmptySet DEF Originals
<1> QED
  BY <1>2, <1>3

\* The empty text.
LEMMA NoOriginals == Originals(<<>>) = 0 /\ Aliased(<<>>) = 0
<1> DEFINE e == <<>>
<1>1. DOMAIN e = {} /\ 1 .. Len(e) - 1 = {}
  OBVIOUS
<1> HIDE DEF e
<1>2. {i \in DOMAIN e : e[i] = Original[1]} = {}
  BY <1>1
<1>3. {i \in 1 .. Len(e) - 1 : SubSeq(e, i, i + 1) = Alias} = {}
  BY <1>1
<1>4. Originals(e) = Cardinality({}) /\ Aliased(e) = Cardinality({})
  BY <1>2, <1>3, Zenon DEF Originals, Aliased
<1> QED
  BY <1>4, FS_EmptySet DEF e

\* Does the alias begin a text?
LEMMA AliasBegins ==
    ASSUME NEW C, NEW x \in Seq(C)
    PROVE  P!IsPrefix(Alias, x) <=> Len(x) >= 2 /\ x[1] = "start" /\ x[2] = "end"
<1> DEFINE s == SubSeq(x, 1, 2)
           al == <<"start", "end">>
<1>1. al \in Seq({"start", "end"}) /\ Len(al) = 2 /\ al[1] = "start" /\ al[2] = "end" /\ SubSeq(al, 1, 2) = al
  <2>1. al \in Seq({"start", "end"}) /\ Len(al) = 2 /\ al[1] = "start" /\ al[2] = "end"
    OBVIOUS
  <2> HIDE DEF al
  <2>2. SubSeq(al, 1, 2) = al
    BY <2>1, SubSeqFull
  <2> QED
    BY <2>1, <2>2
<1>2. P!IsPrefix(al, x) <=> Len(x) >= 2 /\ s = al
  <2> HIDE DEF al
  <2>1. P!IsPrefix(al, x) <=> Len(al) <= Len(x) /\ SubSeq(al, 1, Len(al)) = SubSeq(x, 1, Len(al))
    BY Zenon DEF P!IsPrefix
  <2> QED
    BY <1>1, <2>1
<1>3. ASSUME Len(x) >= 2 PROVE s \in Seq(C) /\ Len(s) = 2 /\ s[1] = x[1] /\ s[2] = x[2]
  BY <1>3
<1> HIDE DEF s
<1>4. ASSUME Len(x) >= 2 PROVE s = al <=> s[1] = "start" /\ s[2] = "end"
  BY <1>3, <1>4
<1> QED
  BY <1>2, <1>3, <1>4, LiveIs

\* Every alias of a clean text becomes an original, and there is no other one.
LEMMA RestoredCount ==
    ASSUME AnswersArrive, NoneIsNoTail
    PROVE  \A s \in Seq(P!Characters) : Clean(s) => Originals(Sse!Restore(Live, s)) = Aliased(s)
<1> DEFINE C == P!Characters
           R(s) == P!Restore(Live, s)
           S == {s \in Seq(C) : Clean(s) => Originals(R(s)) = Aliased(s)}
<1>1. P!TextTable(C, Live) /\ P!EventAssumption /\ P!AliasAssumption /\ P!StreamAssumption
  BY TableHolds
<1>2. R(<<>>) = <<>> /\ \A s \in Seq(C) : R(s) \in Seq(C)
  <2> HIDE DEF C
  <2> QED
    BY <1>1, P!RestoreType
<1>3. <<>> \in S
  BY <1>2, NoOriginals
<1>4. ASSUME NEW h \in Seq(C), NEW r \in Seq(C), Len(h) = 1, P!NoMatch(Live, h \o r), r \in S
      PROVE  h \o r \in S
  <2>1. SUFFICES ASSUME Clean(h \o r) PROVE Originals(R(h \o r)) = Aliased(h \o r)
    OBVIOUS
  <2>2. R(h \o r) = h \o R(r)
    <3> HIDE DEF C
    <3> QED
      BY <1>1, <1>4, P!RestoreCharacter
  <2>3. Clean(r) /\ \A i \in DOMAIN h : h[i] # "original"
    BY <2>1, CleanParts DEF Clean
  <2>4. h[1] # "original" /\ 1 \in DOMAIN h
    BY <1>4, <2>3
  <2>5. Originals(h) = 0
    BY <1>4, <2>4, OneOriginal
  <2>6. Originals(h \o R(r)) = Originals(h) + Originals(R(r)) /\ Originals(R(r)) \in Nat
    <3> HIDE DEF C, R
    <3> QED
      BY <1>2, OriginalsConcat
  <2>7. Originals(R(r)) = Aliased(r)
    BY <1>4, <2>3
  <2>8. ~(h[1] = "start" /\ r # <<>> /\ r[1] = "end")
    <3>1. ~P!IsPrefix(Alias, h \o r)
      BY <1>4, LiveIs DEF P!NoMatch
    <3> HIDE DEF C, S
    <3>2. h \o r \in Seq(C)
      OBVIOUS
    <3>3. ~(Len(h \o r) >= 2 /\ (h \o r)[1] = "start" /\ (h \o r)[2] = "end")
      BY <3>1, <3>2, AliasBegins
    <3>4. /\ Len(r) \in Nat /\ Len(h \o r) = Len(r) + 1
          /\ (h \o r)[1] = h[1] /\ \A i \in 1 .. Len(r) : (h \o r)[i + 1] = r[i]
      BY <1>4, HeadConcat
    <3>5. r # <<>> => Len(r) >= 1
      BY EmptySeq
    <3>6. Len(r) >= 1 => (h \o r)[1 + 1] = r[1]
      BY <3>4
    <3> QED
      BY <3>3, <3>4, <3>5, <3>6
  <2>9. Aliased(h \o r) = Aliased(r)
    <3> HIDE DEF C, S
    <3> QED
      BY <1>4, <2>8, AliasedStep
  <2> HIDE DEF R
  <2> QED
    BY <2>2, <2>5, <2>6, <2>7, <2>9
<1>5. ASSUME NEW a \in Live, NEW r \in Seq(C), P!IsMatch(Live, a, a \o r), r \in S
      PROVE  a \o r \in S
  <2> DEFINE h == <<"start">>
             t == <<"end">>
             o == <<"original">>
  <2>1. a = Alias /\ Alias \in Seq(C) /\ Alias = h \o t
    <3>1. a = Alias /\ Alias \in Seq(C)
      <4> HIDE DEF C
      <4> QED
        BY <1>1, LiveIs DEF P!TextTable
    <3>2. <<"start", "end">> = <<"start">> \o <<"end">>
      OBVIOUS
    <3> QED
      BY <3>1, <3>2, LiveIs
  <2>11. a \o r \in Seq(C)
    <3> HIDE DEF C, S
    <3> QED
      BY <2>1
  <2>2. SUFFICES ASSUME Clean(a \o r) PROVE Originals(R(a \o r)) = Aliased(a \o r)
    <3> HIDE DEF C, R
    <3> QED
      BY <2>11
  <2>3. h \in Seq(C) /\ t \in Seq(C) /\ o \in Seq(C)
    <3>1. Alias[1] \in C /\ Alias[2] \in C
      <4> HIDE DEF C
      <4> QED
        BY <2>1, LiveIs
    <3>2. [b \in Live |-> Original][a] \in Seq(C)
      BY <1>1 DEF P!TextTable
    <3> HIDE DEF C
    <3> QED
      BY <2>1, <3>1, <3>2, LiveIs
  <2>4. R(a \o r) = o \o R(r)
    <3>1. P!Restore(Live, a \o r) = [b \in Live |-> Original][a] \o P!Restore(Live, r)
      <4> HIDE DEF C
      <4> QED
        BY <1>1, <1>5, P!RestoreMatch
    <3> QED
      BY <3>1, LiveIs
  <2>5. Clean(r)
    BY <2>1, <2>2, CleanParts, ZenonT(60) DEF Clean
  <2>6. Originals(o \o R(r)) = 1 + Originals(R(r)) /\ Originals(R(r)) = Aliased(r)
    <3>1. Originals(o \o R(r)) = Originals(o) + Originals(R(r))
      <4> HIDE DEF C, R, o
      <4> QED
        BY <1>2, <2>3, OriginalsConcat
    <3>2. Originals(o) = 1
      <4>1. Len(o) = 1 /\ o[1] = "original"
        OBVIOUS
      <4> HIDE DEF o, C
      <4> QED
        BY <2>3, <4>1, OneOriginal
    <3> QED
      BY <1>5, <2>5, <3>1, <3>2
  <2>7. a \o r = h \o (t \o r) /\ t \o r \in Seq(C)
    <3> HIDE DEF C, h, t
    <3> QED
      BY <2>1, <2>3, ConcatAssociative, SMTT(60)
  <2>8. Aliased(t \o r) = Aliased(r) /\ Aliased(r) \in Nat
    <3>1. Len(t) = 1 /\ t[1] # "start"
      OBVIOUS
    <3> HIDE DEF C, t, S
    <3> QED
      BY <2>3, <3>1, AliasedStep
  <2>9. t \o r # <<>> /\ (t \o r)[1] = "end"
    <3>1. Len(t) = 1 /\ t[1] = "end"
      OBVIOUS
    <3> HIDE DEF C, t, S
    <3>2. Len(t \o r) = Len(r) + 1 /\ Len(r) \in Nat /\ (t \o r)[1] = t[1]
      BY <2>3, <3>1, HeadConcat
    <3>3. t \o r # <<>>
      <4> DEFINE x == t \o r
      <4> HIDE DEF x
      <4>1. x = <<>> => Len(x) = 0
        OBVIOUS
      <4> QED
        BY <3>2, <4>1 DEF x
    <3> QED
      BY <3>1, <3>2, <3>3
  <2>10. Aliased(h \o (t \o r)) = Aliased(t \o r) + 1
    <3>1. Len(h) = 1 /\ h[1] = "start"
      OBVIOUS
    <3> DEFINE x == t \o r
    <3> HIDE DEF C, h, x, S
    <3>2. x \in Seq(C) /\ x # <<>> /\ x[1] = "end"
      BY <2>7, <2>9 DEF x
    <3>3. Aliased(h \o x) = Aliased(x) + 1
      BY <2>3, <3>1, <3>2, AliasedStep
    <3> QED
      BY <3>3 DEF x
  <2> HIDE DEF C, h, t, o, R
  <2> QED
    BY <2>4, <2>6, <2>7, <2>8, <2>10
<1>6. \A s \in Seq(C) : s \in S
  <2>1. \A h, r \in Seq(C) : Len(h) = 1 /\ P!NoMatch(Live, h \o r) /\ r \in S => h \o r \in S
    BY <1>4
  <2>2. \A a \in Live, r \in Seq(C) : P!IsMatch(Live, a, a \o r) /\ r \in S => a \o r \in S
    BY <1>5
  <2> HIDE DEF C, S
  <2> QED
    BY <1>1, <1>3, <2>1, <2>2, P!RestoreInduction
<1> QED
  BY <1>6, SameRestore
-----------------------------------------------------------------------------
\* What is held back is one character, which may begin the alias.
Short(s) == s \in Seq(P!Characters) /\ Len(s) = 1 /\ s[1] # "original"

\* A text that may begin the alias and is no alias is its first character.
LEMMA BeginsShort ==
    ASSUME NEW C, NEW s \in Seq(C), Len(s) > 0, P!MayBegin(Live, s)
    PROVE  Len(s) = 1 /\ s[1] # "original"
<1> DEFINE pg == <<"PG_">>
<1>0. pg \in Seq({"PG_"}) /\ Len(pg) = 1 /\ pg[1] = "PG_"
  OBVIOUS
<1>1. ASSUME P!IsPrefix(s, pg) PROVE Len(s) = 1 /\ s[1] # "original"
  <2> HIDE DEF pg
  <2>1. Len(s) <= Len(pg) /\ SubSeq(s, 1, Len(s)) = SubSeq(pg, 1, Len(s))
    BY <1>1, Zenon DEF P!IsPrefix
  <2>2. Len(s) = 1 /\ Len(s) \in Nat
    BY <1>0, <2>1
  <2>3. SubSeq(s, 1, 1) = SubSeq(pg, 1, 1)
    BY <2>1, <2>2
  <2>4. SubSeq(s, 1, 1)[1] = s[1] /\ SubSeq(pg, 1, 1)[1] = pg[1]
    BY <1>0, <2>2
  <2> QED
    BY <1>0, <2>2, <2>3, <2>4
<1>2. ASSUME P!IsPrefix(pg, s) PROVE s[1] = "PG_"
  <2> HIDE DEF pg
  <2>1. Len(pg) <= Len(s) /\ SubSeq(pg, 1, Len(pg)) = SubSeq(s, 1, Len(pg))
    BY <1>2, Zenon DEF P!IsPrefix
  <2>2. SubSeq(pg, 1, 1) = SubSeq(s, 1, 1)
    BY <1>0, <2>1
  <2>3. SubSeq(s, 1, 1)[1] = s[1] /\ SubSeq(pg, 1, 1)[1] = pg[1]
    BY <1>0
  <2> QED
    BY <1>0, <2>2, <2>3
<1>3. ASSUME P!IsPrefix(pg, s), \A j \in Len(pg) + 1 .. Len(s) : s[j] \in {}
      PROVE  Len(s) = 1 /\ s[1] # "original"
  <2>1. ~(2 \in 2 .. Len(s))
    BY <1>0, <1>3
  <2> QED
    BY <1>2, <1>3, <2>1
<1>4. ASSUME NEW i \in 1 .. Len(s), P!Splits(s, i), Len(s) - i < 1 PROVE FALSE
  <2>1. i > Len(pg) + 1 /\ \A j \in Len(pg) + 1 .. i - 1 : s[j] \in {}
    BY <1>4, Zenon DEF P!Splits
  <2>2. 2 \in Len(pg) + 1 .. i - 1
    BY <1>0, <2>1
  <2> QED
    BY <2>1, <2>2
<1>5. ASSUME P!IsStrictPrefix(s, Alias) PROVE Len(s) = 1 /\ s[1] # "original"
  <2> DEFINE al == <<"start", "end">>
  <2>0. al \in Seq({"start", "end"}) /\ Len(al) = 2 /\ al[1] = "start" /\ al = Alias
    BY LiveIs
  <2> HIDE DEF al
  <2>1. Len(s) <= Len(al) /\ SubSeq(s, 1, Len(s)) = SubSeq(al, 1, Len(s)) /\ s # al
    BY <1>5, <2>0, Zenon DEF P!IsStrictPrefix, P!IsPrefix
  <2>2. SubSeq(s, 1, Len(s)) = s /\ SubSeq(al, 1, Len(al)) = al
    BY <2>0, SubSeqFull
  <2>3. Len(s) = 1
    BY <2>0, <2>1, <2>2
  <2>4. SubSeq(s, 1, 1) = SubSeq(al, 1, 1)
    BY <2>1, <2>3
  <2>5. SubSeq(s, 1, 1)[1] = s[1] /\ SubSeq(al, 1, 1)[1] = al[1]
    BY <2>0, <2>3
  <2> QED
    BY <2>0, <2>3, <2>4, <2>5
<1>6. \/ P!IsPrefix(s, pg)
      \/ P!IsPrefix(pg, s) /\ \A j \in Len(pg) + 1 .. Len(s) : s[j] \in {}
      \/ \E i \in 1 .. Len(s) : P!Splits(s, i) /\ Len(s) - i < 1
      \/ P!IsStrictPrefix(s, Alias)
  <2>1. P!IsPlaceholderPrefix(s) \/ \E a \in Live : P!IsStrictPrefix(s, a)
    BY Zenon DEF P!MayBegin
  <2>2. P!IsPlaceholderPrefix(s) \/ P!IsStrictPrefix(s, Alias)
    BY <2>1, LiveIs
  <2> QED
    BY <2>2, Zenon DEF P!IsPlaceholderPrefix
<1> QED
  BY <1>1, <1>3, <1>4, <1>5, <1>6

\* So is what is held back of a text.
LEMMA HeldShort ==
    ASSUME AnswersArrive, NoneIsNoTail, NEW buf \in Seq(P!Characters)
    PROVE  LET n == Len(buf) - Sse!Holdback(Live, Live, buf) IN
           /\ n \in 0 .. Len(buf)
           /\ n # Len(buf) => Short(SubSeq(buf, n + 1, Len(buf)))
<1> DEFINE C == P!Characters
           h == Sse!Holdback(Live, Live, buf)
           n == Len(buf) - h
<1>1. P!TextTable(C, Live) /\ IsFiniteSet(Live) /\ P!AliasAssumption /\ P!StreamAssumption /\ P!EventAssumption
  BY TableHolds, LiveIs
<1>2. P!IsFiniteSet(Live)
  BY <1>1 DEF P!IsFiniteSet, IsFiniteSet
<1>3. h = P!Holdback(Live, Live, buf)
  BY SameHoldback
<1>4. h \in 0 .. Len(buf) /\ (h > 0 => P!MayBegin(Live, P!Suffix(buf, h)))
  <2> HIDE DEF C, h
  <2> USE DEF C
  <2>1. LET g == P!Holdback(Live, Live, buf) IN
        g \in 0 .. Len(buf) /\ (g > 0 => P!MayBegin(Live, P!Suffix(buf, g)))
    BY <1>1, <1>2, P!HoldbackBounds
  <2> QED
    BY <1>3, <2>1
<1> HIDE DEF h
<1>5. Len(buf) \in Nat /\ n \in 0 .. Len(buf)
  BY <1>4
<1>6. ASSUME n # Len(buf) PROVE Short(SubSeq(buf, n + 1, Len(buf)))
  <2> DEFINE s == SubSeq(buf, n + 1, Len(buf))
  <2>1. h > 0 /\ Len(buf) - h + 1 = n + 1
    BY <1>4, <1>5, <1>6
  <2>2. P!MayBegin(Live, s)
    BY <1>4, <2>1 DEF P!Suffix
  <2>3. s \in Seq(C) /\ Len(s) = h
    <3> HIDE DEF C
    <3> USE DEF C
    <3> QED
      BY <1>4, <1>5
  <2> HIDE DEF s, C
  <2>4. Len(s) = 1 /\ s[1] # "original"
    BY <2>1, <2>2, <2>3, BeginsShort
  <2> QED
    BY <2>3, <2>4 DEF Short, s, C
<1> QED
  BY <1>5, <1>6 DEF h

\* A short text has no alias and no original.
LEMMA ShortCount ==
    ASSUME NEW s, Short(s)
    PROVE  Clean(s) /\ Originals(s) = 0 /\ Aliased(s) = 0
<1> DEFINE C == P!Characters
<1>1. s \in Seq(C) /\ Len(s) = 1 /\ s[1] # "original"
  BY DEF Short
<1> HIDE DEF C
<1>2. Originals(s) = 0
  BY <1>1, OneOriginal
<1>3. Matches(s) = {}
  BY <1>1 DEF Matches
<1>4. Aliased(s) = 0
  BY <1>1, <1>3, AliasedIs, FS_EmptySet
<1>5. \A i \in DOMAIN s : i = 1
  BY <1>1
<1> QED
  BY <1>1, <1>2, <1>4, <1>5 DEF Clean, C
-----------------------------------------------------------------------------
\* What is held of each block.
ShortTails == \A k \in Keys : pending[k] # None => Short(pending[k].tail)

\* The tail of a block.
TailBefore(k) == IF pending[k] = None THEN <<>> ELSE pending[k].tail

\* What is held of a block is clean.
LEMMA TailClean ==
    ASSUME NEW k \in Keys, ShortTails
    PROVE  Clean(TailBefore(k)) /\ Aliased(TailBefore(k)) = 0
<1>1. CASE pending[k] = None
  <2> DEFINE e == <<>>
             C == P!Characters
  <2>1. e \in Seq(C) /\ \A i \in DOMAIN e : e[i] # "original"
    <3> HIDE DEF C
    <3> QED
      OBVIOUS
  <2>2. TailBefore(k) = e
    BY <1>1 DEF TailBefore
  <2>3. Aliased(e) = 0
    BY NoOriginals
  <2>4. Clean(e)
    BY <2>1 DEF Clean
  <2> HIDE DEF e
  <2> QED
    BY <2>2, <2>3, <2>4
<1>2. CASE pending[k] # None
  <2>1. Short(pending[k].tail) /\ TailBefore(k) = pending[k].tail
    BY <1>2 DEF ShortTails, TailBefore
  <2> QED
    BY <2>1, ShortCount
<1> QED
  BY <1>1, <1>2

\* Two clean texts together are clean.
LEMMA CleanConcat == ASSUME NEW x, NEW y, Clean(x), Clean(y) PROVE Clean(x \o y)
<1> DEFINE C == P!Characters
<1>1. x \in Seq(C) /\ y \in Seq(C)
  BY DEF Clean
<1> HIDE DEF C
<1>2. /\ Len(x) \in Nat /\ Len(y) \in Nat /\ DOMAIN x = 1 .. Len(x) /\ DOMAIN y = 1 .. Len(y)
      /\ x \o y \in Seq(C) /\ DOMAIN (x \o y) = 1 .. Len(x) + Len(y)
  BY <1>1
<1>3. \A i \in 1 .. Len(x) + Len(y) : (x \o y)[i] = IF i <= Len(x) THEN x[i] ELSE y[i - Len(x)]
  BY <1>1, ConcatProperties
<1>4. ASSUME NEW i \in 1 .. Len(x) + Len(y) PROVE (x \o y)[i] # "original"
  <2>1. CASE i <= Len(x)
    <3>1. i \in DOMAIN x /\ (x \o y)[i] = x[i]
      BY <1>2, <1>3, <2>1
    <3> QED
      BY <3>1 DEF Clean
  <2>2. CASE ~(i <= Len(x))
    <3>1. i - Len(x) \in DOMAIN y /\ (x \o y)[i] = y[i - Len(x)]
      BY <1>2, <1>3, <2>2
    <3> QED
      BY <3>1 DEF Clean
  <2> QED
    BY <2>1, <2>2
<1> QED
  BY <1>2, <1>4 DEF Clean, C

\* The fold over the texts of an event, which are none or one.
CountIter(cs, n, it) ==
    it = [s \in SUBSET (1 .. n) |->
            IF s = {} THEN 0
            ELSE it[s \ {Max(s)}] + Aliased(
                 (IF pending[cs[[i \in 1 .. n |-> i][Max(s)]].key] = None THEN <<>>
                  ELSE pending[cs[[i \in 1 .. n |-> i][Max(s)]].key].tail) \o cs[[i \in 1 .. n |-> i][Max(s)]].text)]

\* The aliases put back with an event are those of its text behind the tail of the block.
LEMMA CountFold ==
    ASSUME NEW cs, NEW n \in {0, 1}, DOMAIN cs = 1 .. n, n = 1 => Aliased(TailBefore(cs[1].key) \o cs[1].text) \in Nat
    PROVE  PutBack(cs) = IF n = 0 THEN 0 ELSE Aliased(TailBefore(cs[1].key) \o cs[1].text)
<1> DEFINE it == CHOOSE x : CountIter(cs, n, x)
           c == Aliased(TailBefore(cs[1].key) \o cs[1].text)
<1>1. PutBack(cs) = it[1 .. n]
  <2> DEFINE f == FoldLeft(LAMBDA m, i : m + Aliased(
                 (IF pending[cs[i].key] = None THEN <<>> ELSE pending[cs[i].key].tail) \o cs[i].text),
                 0, [i \in 1 .. n |-> i])
  <2>1. PutBack(cs) = f
    BY Zenon DEF PutBack
  <2>2. f = it[1 .. n]
    BY Zenon DEF FoldLeft, MapThenFoldSet, CountIter
  <2> HIDE DEF f, it
  <2> QED
    BY <2>1, <2>2
<1>2. Max({1}) = 1
  BY DEF Max
<1>3. CASE n = 0
  <2>1. 1 .. n = {} /\ SUBSET (1 .. n) = {{}}
    BY <1>3
  <2>2. CountIter(cs, n, [s \in SUBSET (1 .. n) |-> 0])
    BY <2>1 DEF CountIter
  <2>3. CountIter(cs, n, it)
    BY <2>2
  <2> HIDE DEF it
  <2>4. it[{}] = 0
    BY <2>1, <2>3 DEF CountIter
  <2> QED
    BY <1>1, <1>3, <2>1, <2>4
<1>4. CASE n = 1
  <2>1. 1 .. n = {1} /\ SUBSET (1 .. n) = {{}, {1}} /\ {1} # {} /\ {1} \ {1} = {}
    BY <1>4
  <2> DEFINE jt == [s \in SUBSET (1 .. n) |-> IF s = {} THEN 0 ELSE 0 + c]
  <2>2. CountIter(cs, n, jt)
    <3>1. jt[{}] = 0
      BY <2>1
    <3>2. ASSUME NEW s \in SUBSET (1 .. n), s # {}
          PROVE  s = {1} /\ s \ {Max(s)} = {} /\ [i \in 1 .. n |-> i][Max(s)] = 1
      BY <1>2, <1>4, <2>1, <3>2
    <3> HIDE DEF jt
    <3>3. ASSUME NEW s \in SUBSET (1 .. n), s # {}
          PROVE  jt[s \ {Max(s)}] + Aliased(
                 (IF pending[cs[[i \in 1 .. n |-> i][Max(s)]].key] = None THEN <<>>
                  ELSE pending[cs[[i \in 1 .. n |-> i][Max(s)]].key].tail) \o cs[[i \in 1 .. n |-> i][Max(s)]].text)
                  = 0 + c
      BY <3>1, <3>2, <3>3, Zenon DEF TailBefore
    <3>4. jt = [s \in SUBSET (1 .. n) |-> IF s = {} THEN 0 ELSE 0 + c]
      BY DEF jt
    <3> HIDE DEF c
    <3> QED
      BY <3>3, <3>4, Zenon DEF CountIter
  <2>3. CountIter(cs, n, it)
    BY <2>2
  <2> HIDE DEF it, c
  <2>4. it[{}] = 0
    BY <2>1, <2>3, SMTT(60) DEF CountIter
  <2>5. it[{1}] = it[{1} \ {Max({1})}] + Aliased(
                 (IF pending[cs[[i \in 1 .. n |-> i][Max({1})]].key] = None THEN <<>>
                  ELSE pending[cs[[i \in 1 .. n |-> i][Max({1})]].key].tail)
                    \o cs[[i \in 1 .. n |-> i][Max({1})]].text)
    BY <2>1, <2>3 DEF CountIter
  <2>6. [i \in 1 .. n |-> i][1] = 1
    BY <1>4
  <2>7. it[{1}] = 0 + c
    <3>1. {1} \ {Max({1})} = {}
      BY <1>2
    <3> QED
      BY <1>2, <2>4, <2>5, <2>6, <3>1, Zenon DEF c, TailBefore
  <2>8. c \in Nat
    BY <1>4 DEF c
  <2> QED
    BY <1>1, <1>4, <2>1, <2>7, <2>8 DEF c
<1> QED
  BY <1>3, <1>4
-----------------------------------------------------------------------------
\* The restorer passes over the one text of an event, or over none.
LEMMA RestoringIs ==
    ASSUME NEW cs, NEW n \in {0, 1}, DOMAIN cs = 1 .. n
    PROVE  Restoring(cs) = IF n = 0 THEN [event |-> cs, pending |-> pending]
                           ELSE Sse!Carry([event |-> cs, pending |-> pending], 1)
<1> DEFINE base == [event |-> cs, pending |-> pending]
           f == FoldLeft(LAMBDA acc, i : Sse!Carry(acc, i), base, [i \in 1 .. n |-> i])
<1>1. Restoring(cs) = f
  BY Zenon DEF Restoring
<1> HIDE DEF base
<1>2. f = IF n = 0 THEN base ELSE Sse!Carry(base, 1)
  BY RelayFold
<1> QED
  BY <1>1, <1>2 DEF base

\* How many originals the client gets with these frames.
Returned(frames) == [k \in Keys |-> Originals(Sse!TextOfAll(frames, k))]

\* What the frames of an event are.
Counted(frames, count, held) ==
    /\ \E n \in Nat : DOMAIN frames = 1 .. n /\ \A i \in 1 .. n : frames[i] \in Seq(P!Carriers)
    /\ count = Total(Returned(frames), Keys)
    /\ \A k \in Keys : held[k] # None => Short(held[k].tail)

\* An event that carries a text is sent with its restoration, but for what is held back.
LEMMA OneCarried ==
    ASSUME AnswersArrive, NoneIsNoTail, ShortTails, DOMAIN pending = Keys, NEW k \in Keys, NEW y, Clean(y)
    PROVE  LET cs == <<[key |-> k, text |-> y]>>
               acc == Restoring(cs) IN
           \E e \in Seq(P!Characters) :
               /\ acc.event = <<[key |-> k, text |-> e]>>
               /\ Originals(e) = PutBack(cs)
               /\ \A j \in Keys : acc.pending[j] # None => Short(acc.pending[j].tail)
<1> DEFINE C == P!Characters
           cs == <<[key |-> k, text |-> y]>>
           base == [event |-> cs, pending |-> pending]
           acc == Sse!Carry(base, 1)
           buf == TailBefore(k) \o y
           r == Sse!Restore(Live, buf)
           n == Len(r) - Sse!Holdback(Live, Live, r)
           e == SubSeq(r, 1, n)
           t == SubSeq(r, n + 1, Len(r))
           event == <<[key |-> k, text |-> e]>>
<1>1. DOMAIN cs = 1 .. 1 /\ cs[1] = [key |-> k, text |-> y]
  OBVIOUS
<1>2. Restoring(cs) = acc
  <2> HIDE DEF cs, acc, base
  <2> QED
    BY <1>1, RestoringIs DEF acc, base
<1>3. Clean(buf)
  BY TailClean, CleanConcat
<1>4. r \in Seq(C) /\ Originals(r) = Aliased(buf)
  <2>1. P!Restore(Live, buf) \in Seq(C)
    <3> HIDE DEF C, buf
    <3>1. buf \in Seq(C)
      BY <1>3 DEF Clean, C
    <3>2. P!TextTable(C, Live) /\ P!AliasAssumption /\ P!StreamAssumption /\ P!EventAssumption
      BY TableHolds DEF C
    <3> QED
      BY <3>1, <3>2, P!RestoreType
  <2>2. Originals(r) = Aliased(buf)
    <3> HIDE DEF buf
    <3> QED
      BY <1>3, RestoredCount DEF Clean
  <2> QED
    BY <2>1, <2>2, SameRestore
<1> HIDE DEF r
<1>5. n \in 0 .. Len(r) /\ (n # Len(r) => Short(t))
  BY <1>4, HeldShort
<1> HIDE DEF n
<1>6. e \in Seq(C) /\ t \in Seq(C) /\ r = e \o t
  <2> HIDE DEF C
  <2>1. Len(r) \in Nat
    BY <1>4
  <2>2. e \in Seq(C) /\ Len(e) = n
    BY <1>4, <1>5, <2>1
  <2>3. t \in Seq(C) /\ Len(t) = Len(r) - n
    BY <1>4, <1>5, <2>1
  <2>4. \A i \in 1 .. n : e[i] = r[i]
    BY <1>4, <1>5, <2>1
  <2>5. \A i \in 1 .. Len(r) - n : t[i] = r[n + i]
    BY <1>4, <1>5, <2>1
  <2> HIDE DEF e, t
  <2>6. /\ e \o t \in Seq(C) /\ Len(e \o t) = Len(r)
        /\ \A i \in 1 .. Len(e) + Len(t) : (e \o t)[i] = IF i <= Len(e) THEN e[i] ELSE t[i - Len(e)]
    <3>1. e \o t \in Seq(C) /\ Len(e \o t) = Len(e) + Len(t)
      BY <2>2, <2>3, ConcatProperties
    <3>2. \A i \in 1 .. Len(e) + Len(t) : (e \o t)[i] = IF i <= Len(e) THEN e[i] ELSE t[i - Len(e)]
      BY <2>2, <2>3, ConcatProperties
    <3>3. Len(e) + Len(t) = Len(r)
      BY <1>5, <2>1, <2>2, <2>3
    <3> QED
      BY <3>1, <3>2, <3>3
  <2>7. ASSUME NEW i \in 1 .. Len(r) PROVE (e \o t)[i] = r[i]
    <3>1. i \in 1 .. Len(e) + Len(t)
      BY <1>5, <2>1, <2>2, <2>3
    <3>2. CASE i <= n
      BY <2>2, <2>4, <2>6, <3>1, <3>2
    <3>3. CASE ~(i <= n)
      <4>1. i - n \in 1 .. Len(r) - n /\ n + (i - n) = i
        BY <1>5, <2>1, <3>3
      <4> QED
        BY <2>2, <2>5, <2>6, <3>1, <3>3, <4>1
    <3> QED
      BY <3>2, <3>3
  <2> DEFINE x == e \o t
  <2> HIDE DEF x
  <2>8. x \in Seq(C) /\ Len(x) = Len(r) /\ \A i \in 1 .. Len(r) : x[i] = r[i]
    BY <2>6, <2>7 DEF x
  <2>9. x = r
    BY <1>4, <2>8
  <2> QED
    BY <2>2, <2>3, <2>9 DEF x
<1>7. Originals(t) = 0
  <2>1. CASE n # Len(r)
    BY <1>5, <2>1, ShortCount
  <2>2. CASE n = Len(r)
    <3>1. t = <<>>
      <4> HIDE DEF C
      <4>1. Len(r) \in Nat
        BY <1>4
      <4>2. Len(t) = 0
        BY <1>4, <2>2, <4>1
      <4> HIDE DEF t
      <4> QED
        BY <1>6, <4>2, EmptySeq
    <3> HIDE DEF t
    <3> QED
      BY <3>1, NoOriginals
  <2> QED
    BY <2>1, <2>2
<1>8. Originals(e) = Aliased(buf)
  <2>1. Originals(e \o t) = Originals(e) + Originals(t) /\ Originals(e) \in Nat
    <3> HIDE DEF C, e, t
    <3> QED
      BY <1>6, OriginalsConcat
  <2> HIDE DEF e, t, buf
  <2> QED
    BY <1>4, <1>6, <1>7, <2>1
<1>9. PutBack(cs) = Aliased(buf)
  <2>1. Aliased(buf) \in Nat
    <3> HIDE DEF buf, C
    <3>1. buf \in Seq(C)
      BY <1>3 DEF Clean, C
    <3>2. Aliased(buf) = Cardinality(Matches(buf)) /\ IsFiniteSet(Matches(buf))
      BY <3>1, AliasedIs
    <3> QED
      BY <3>2, FS_CardinalityType
  <2>2. Aliased(TailBefore(cs[1].key) \o cs[1].text) = Aliased(buf)
    BY <1>1
  <2> HIDE DEF cs, buf
  <2> QED
    BY <1>1, <2>1, <2>2, CountFold
<1>10. acc.event = event
  <2>1. acc.event = [base.event EXCEPT ![1].text = e]
    BY Zenon DEF Sse!Carry, TailBefore, r, n
  <2> HIDE DEF acc, e
  <2> QED
    BY <2>1
<1>11. acc.pending = [pending EXCEPT ![k] = IF n = Len(r) THEN None
                          ELSE [tail |-> t, template |-> acc.event, slot |-> 1]]
  BY Zenon DEF Sse!Carry, TailBefore, r, n
<1>12. ASSUME NEW j \in Keys, acc.pending[j] # None PROVE Short(acc.pending[j].tail)
  <2> HIDE DEF acc, t
  <2>1. CASE j = k
    BY <1>5, <1>11, <1>12, <2>1
  <2>2. CASE j # k
    BY <1>11, <1>12, <2>2 DEF ShortTails
  <2> QED
    BY <2>1, <2>2
<1> HIDE DEF acc, cs, e, buf
<1> QED
  BY <1>2, <1>6, <1>8, <1>9, <1>10, <1>12 DEF cs

\* What is sent for such an event.
LEMMA OneFrames ==
    ASSUME AnswersArrive, NoneIsNoTail, ShortTails, DOMAIN pending = Keys, NEW k \in Keys, NEW y, Clean(y),
           NEW cs, cs = <<[key |-> k, text |-> y]>>, NEW order \in Sse!FlushOrders(Restoring(cs).pending, {})
    PROVE  LET acc == Restoring(cs)
               frames == [i \in DOMAIN order |-> Sse!Flushed(acc.pending[order[i]])] \o <<acc.event>> IN
           Counted(frames, PutBack(cs), Sse!FlushPending(acc.pending, {}))
<1> DEFINE acc == Restoring(cs)
           D == P!Carriers
           f == [i \in DOMAIN order |-> Sse!Flushed(acc.pending[order[i]])]
           frames == f \o <<acc.event>>
<1>1. PICK e \in Seq(P!Characters) :
          /\ acc.event = <<[key |-> k, text |-> e]>>
          /\ Originals(e) = PutBack(cs)
          /\ \A j \in Keys : acc.pending[j] # None => Short(acc.pending[j].tail)
  BY OneCarried
<1> DEFINE ev == <<[key |-> k, text |-> e]>>
<1>2. [key |-> k, text |-> e] \in D
  BY DEF P!Carriers
<1>3. ev \in Seq(D) /\ Len(ev) = 1 /\ ev[1].key = k /\ ev[1].text = e
  <2> HIDE DEF D
  <2> QED
    BY <1>2
<1>4. frames = <<ev>>
  <2>1. DOMAIN order = {}
    <3> DEFINE S == {j \in {} : acc.pending[j] # None}
    <3>1. S = {} /\ order \in Sse!SetToSeqs(S)
      BY Zenon DEF Sse!FlushOrders
    <3>2. Sse!Cardinality({}) = 0
      <4>1. Sse!Cardinality({}) = Cardinality({})
        BY Zenon DEF Sse!Cardinality, Cardinality, IsFiniteSet, Sse!IsFiniteSet
      <4> QED
        BY <4>1, FS_EmptySet
    <3> HIDE DEF S
    <3>3. order \in [1 .. Sse!Cardinality(S) -> S]
      BY <3>1, Zenon DEF Sse!SetToSeqs
    <3> QED
      BY <3>1, <3>2, <3>3
  <2>2. f = <<>>
    BY <2>1
  <2> HIDE DEF f
  <2>3. <<>> \o <<acc.event>> = <<acc.event>>
    OBVIOUS
  <2> QED
    BY <1>1, <2>2, <2>3
<1> HIDE DEF frames, acc
<1>5. DOMAIN frames = 1 .. 1 /\ frames[1] = ev
  BY <1>4
<1>6. ASSUME NEW j \in Keys PROVE Sse!TextOfAll(frames, j) = IF k = j THEN e ELSE <<>>
  <2>1. P!AliasAssumption /\ P!StreamAssumption /\ P!EventAssumption
    BY TableHolds
  <2>2. P!TextOf(ev, j) = IF k = j THEN e ELSE <<>>
    <3> HIDE DEF ev, D
    <3> USE DEF D
    <3> QED
      BY <1>3, <2>1, P!TextOfOne
  <2>3. P!TextOf(ev, j) \in Seq(P!Characters)
    <3> DEFINE C == P!Characters
    <3> HIDE DEF C, ev
    <3>1. <<>> \in Seq(C) /\ e \in Seq(C)
      BY DEF C
    <3> QED
      BY <2>2, <3>1 DEF C
  <2>4. Sse!TextOfAll(frames, j) = P!TextOf(ev, j)
    <3> DEFINE C == P!Characters
               x == P!TextOf(ev, j)
               w == [i \in 1 .. 1 |-> x]
    <3>1. Sse!TextOfAll(frames, j) = Flat(w, 1)
      <4>1. Sse!TextOfAll(frames, j) = FlattenSeq([i \in DOMAIN frames |-> Sse!TextOf(frames[i], j)])
        BY SameFlat, Zenon DEF Sse!TextOfAll
      <4> HIDE DEF ev
      <4>2. [i \in DOMAIN frames |-> Sse!TextOf(frames[i], j)] = [i \in 1 .. 1 |-> w[i]]
        BY <1>5, SameText
      <4> QED
        BY <4>1, <4>2, Zenon DEF Flat
    <3> HIDE DEF C, x
    <3>2. x \in Seq(C) /\ \A i \in 1 .. 0 + 1 : w[i] \in Seq(C)
      BY <2>3 DEF x, C
    <3>3. w[1] = x
      OBVIOUS
    <3> HIDE DEF w
    <3>4. PICK n : n = 0
      OBVIOUS
    <3>5. n \in Nat /\ n + 1 = 1 /\ \A i \in 1 .. n + 1 : w[i] \in Seq(C)
      BY <3>2, <3>4
    <3>6. Flat(w, 0) = <<>> /\ Flat(w, n + 1) = Flat(w, n) \o w[n + 1]
      BY <3>5, FlatStep
    <3>7. Flat(w, 1) = <<>> \o x
      BY <3>3, <3>4, <3>5, <3>6, Zenon
    <3> QED
      BY <3>1, <3>2, <3>7, ConcatEmptySeq DEF x
  <2> HIDE DEF ev
  <2> QED
    BY <2>2, <2>4
<1>7. PutBack(cs) = Total(Returned(frames), Keys)
  <2> DEFINE F == Returned(frames)
  <2>1. \A j \in Keys : F[j] = IF k = j THEN Originals(e) ELSE 0
    <3> SUFFICES ASSUME NEW j \in Keys PROVE F[j] = IF k = j THEN Originals(e) ELSE 0
      OBVIOUS
    <3>1. F[j] = Originals(Sse!TextOfAll(frames, j))
      BY DEF Returned
    <3> HIDE DEF F
    <3>2. Sse!TextOfAll(frames, j) = IF k = j THEN e ELSE <<>>
      BY <1>6
    <3> QED
      BY <3>1, <3>2, NoOriginals
  <2>2. Originals(e) \in Nat
    <3> DEFINE C == P!Characters
    <3> HIDE DEF C
    <3>1. e \in Seq(C)
      BY DEF C
    <3> QED
      BY <3>1, OriginalsConcat
  <2>3. Numbers(F, Keys) /\ \A j \in Keys : j # k => F[j] = 0
    BY <2>1, <2>2 DEF Numbers
  <2>4. IsFiniteSet(Keys)
    BY RelayAssumption
  <2> HIDE DEF F
  <2>5. Total(F, Keys) = F[k]
    BY <2>3, <2>4, TotalOne
  <2> QED
    BY <1>1, <2>1, <2>5 DEF F
<1>8. \A j \in Keys : Sse!FlushPending(acc.pending, {})[j] = acc.pending[j]
  BY DEF Sse!FlushPending
<1>9. \A i \in 1 .. 1 : frames[i] \in Seq(P!Carriers)
  <2>1. frames[1] \in Seq(D)
    <3> HIDE DEF D, ev
    <3> QED
      BY <1>3, <1>5
  <2> HIDE DEF D
  <2>2. \A i \in 1 .. 1 : frames[i] \in Seq(D)
    BY <2>1
  <2> QED
    BY <2>2 DEF D
<1>10. \A j \in Keys : acc.pending[j] # None => Short(acc.pending[j].tail)
  BY <1>1 DEF acc
<1>11. 1 \in Nat
  OBVIOUS
<1>12. Counted(frames, PutBack(cs), Sse!FlushPending(acc.pending, {}))
  BY <1>5, <1>7, <1>8, <1>9, <1>10, <1>11 DEF Counted
<1> QED
  BY <1>12, Zenon DEF frames, acc
-----------------------------------------------------------------------------
\* The frames that deliver the tails are events.
LEMMA TailFrames ==
    ASSUME AnswersArrive, NoneIsNoTail, pending \in P!Pendings, P!PlainTails(pending), NEW keys, keys \subseteq Keys,
           NEW order \in Sse!FlushOrders(pending, keys)
    PROVE  \E n \in Nat :
              DOMAIN order = 1 .. n /\ \A i \in 1 .. n : Sse!Flushed(pending[order[i]]) \in Seq(P!Carriers)
<1> DEFINE S == {k \in keys : pending[k] # None}
<1>1. IsFiniteSet(S)
  BY RelayAssumption, FS_Subset
<1>2. PICK m \in Nat : m = Sse!Cardinality(S) /\ order \in [1 .. m -> S]
  <2>1. Sse!Cardinality(S) = Cardinality(S)
    BY Zenon DEF Sse!Cardinality, Cardinality, IsFiniteSet, Sse!IsFiniteSet
  <2>2. Cardinality(S) \in Nat
    BY <1>1, FS_CardinalityType
  <2> HIDE DEF S
  <2>3. order \in [1 .. Sse!Cardinality(S) -> S]
    BY DEF Sse!FlushOrders, Sse!SetToSeqs, S
  <2> QED
    BY <2>1, <2>2, <2>3
<1>3. ASSUME NEW i \in 1 .. m PROVE Sse!Flushed(pending[order[i]]) \in Seq(P!Carriers)
  <2>1. PICK k \in S : k = order[i]
    BY <1>2
  <2>2. k \in Keys /\ pending[k] # None
    OBVIOUS
  <2> DEFINE p == pending[k]
  <2>3. p \in P!PendingTails /\ P!PlainTail(p, k)
    BY <2>2 DEF P!Pendings, P!PlainTails
  <2> HIDE DEF p
  <2>4. P!TextTable(P!Characters, Live) /\ P!AliasAssumption /\ P!StreamAssumption /\ P!EventAssumption
    BY TableHolds
  <2>5. P!Flushed(p) \in Seq(P!Carriers)
    BY <2>2, <2>3, <2>4, P!FlushedText
  <2> QED
    BY <2>1, <2>5, SameFlushed DEF p
<1> QED
  BY <1>2, <1>3

\* What flushing sends for a block is the restoration of its tail.
LEMMA RelayFlush ==
    ASSUME AnswersArrive, NoneIsNoTail, NEW held \in P!Pendings, P!PlainTails(held), NEW keys, keys \subseteq Keys,
           NEW order \in P!FlushOrders(held, keys), NEW ev \in Seq(P!Carriers), NEW k \in Keys,
           P!TextOf(ev, k) = <<>>
    PROVE  P!TextOfAll(P!Tails(held, order) \o <<ev>>, k)
              = IF k \in keys THEN P!Restore(Live, P!TailOf(held[k])) ELSE <<>>
<1>1. P!TextTable(P!Characters, Live)
  BY TableHolds
<1>2. P!AliasAssumption /\ P!StreamAssumption /\ P!EventAssumption
  BY TableHolds
<1> QED
  BY <1>1, <1>2, P!FlushDelivers, SMTT(60)

\* The same for the tails that are held now.
LEMMA RelayFlushNow ==
    ASSUME AnswersArrive, NoneIsNoTail, pending \in P!Pendings, P!PlainTails(pending), NEW keys, keys \subseteq Keys,
           NEW order \in P!FlushOrders(pending, keys)
    PROVE  \A ev \in Seq(P!Carriers) : \A k \in Keys : P!TextOf(ev, k) = <<>> =>
              P!TextOfAll(P!Tails(pending, order) \o <<ev>>, k)
                 = IF k \in keys THEN P!Restore(Live, P!TailOf(pending[k])) ELSE <<>>
  BY RelayFlush

\* What is sent for an event without a text: the tails of the blocks that it ends, in which there
\* is nothing to be put back.
LEMMA NoneFrames ==
    ASSUME AnswersArrive, NoneIsNoTail, ShortTails, pending \in P!Pendings, P!PlainTails(pending),
           NEW cs \in Seq(P!Carriers), Len(cs) = 0, NEW keys, keys \subseteq Keys,
           NEW order \in Sse!FlushOrders(Restoring(cs).pending, keys)
    PROVE  LET acc == Restoring(cs)
               frames == [i \in DOMAIN order |-> Sse!Flushed(acc.pending[order[i]])] \o <<acc.event>> IN
           Counted(frames, PutBack(cs), Sse!FlushPending(acc.pending, keys))
<1> DEFINE acc == Restoring(cs)
           D == P!Carriers
           f == [i \in DOMAIN order |-> Sse!Flushed(acc.pending[order[i]])]
           frames == f \o <<acc.event>>
<1>1. acc = [event |-> cs, pending |-> pending] /\ PutBack(cs) = 0
  <2>1. PICK n \in {0, 1} : n = 0
    OBVIOUS
  <2>2. DOMAIN cs = 1 .. n
    <3> HIDE DEF D
    <3> USE DEF D
    <3>1. DOMAIN cs = 1 .. Len(cs)
      OBVIOUS
    <3> QED
      BY <2>1, <3>1
  <2>3. acc = [event |-> cs, pending |-> pending]
    BY <2>1, <2>2, RestoringIs
  <2>4. n = 1 => Aliased(TailBefore(cs[1].key) \o cs[1].text) \in Nat
    BY <2>1
  <2> HIDE DEF acc
  <2>5. PutBack(cs) = 0
    BY <2>1, <2>2, <2>4, CountFold
  <2> QED
    BY <2>3, <2>5
<1> HIDE DEF acc
<1>2. acc.event = cs /\ acc.pending = pending
  BY <1>1
<1>3. order \in Sse!FlushOrders(pending, keys)
  BY <1>2 DEF acc
<1>4. f = [i \in DOMAIN order |-> Sse!Flushed(pending[order[i]])]
  BY <1>2
<1>5. PICK m \in Nat : DOMAIN order = 1 .. m /\ \A i \in 1 .. m : Sse!Flushed(pending[order[i]]) \in Seq(P!Carriers)
  BY <1>3, TailFrames
<1>6. cs \in Seq(D) /\ Len(cs) = 0
  OBVIOUS
<1>7. DOMAIN frames = 1 .. m + 1 /\ \A i \in 1 .. m + 1 : frames[i] \in Seq(D)
  <2>1. DOMAIN f = 1 .. m /\ \A i \in 1 .. m : f[i] \in Seq(D)
    BY <1>4, <1>5
  <2> DEFINE E == Seq(D)
  <2>2. f = [i \in 1 .. m |-> f[i]]
    BY <1>4, <1>5
  <2> HIDE DEF f, D, E
  <2>3. f \in Seq(E) /\ Len(f) = m
    BY <2>1, <2>2 DEF E
  <2>4. <<cs>> \in Seq(E) /\ Len(<<cs>>) = 1
    BY <1>6 DEF E
  <2>5. f \o <<cs>> \in Seq(E) /\ Len(f \o <<cs>>) = m + 1
    BY <2>3, <2>4
  <2> DEFINE x == f \o <<cs>>
  <2> HIDE DEF x
  <2>6. DOMAIN x = 1 .. m + 1 /\ \A i \in 1 .. m + 1 : x[i] \in E
    BY <2>5 DEF x
  <2> QED
    BY <1>2, <2>6 DEF x, E
<1>8. frames = P!Tails(pending, order) \o <<cs>>
  <2>1. f = [i \in DOMAIN order |-> P!Flushed(pending[order[i]])]
    BY <1>4, SameFlushed
  <2> HIDE DEF f
  <2> QED
    BY <1>2, <2>1 DEF P!Tails
<1> HIDE DEF frames
<1>9. ASSUME NEW k \in Keys PROVE Originals(Sse!TextOfAll(frames, k)) = 0
  <2>1. P!TextTable(P!Characters, Live) /\ P!AliasAssumption /\ P!StreamAssumption /\ P!EventAssumption
    BY TableHolds
  <2>2. P!TextOf(cs, k) = <<>>
    <3>1. cs \in Seq(P!Carriers)
      BY <1>6
    <3> QED
      BY <1>6, <2>1, <3>1, P!TextOfNone
  <2>3. order \in P!FlushOrders(pending, keys)
    BY <1>3, SameFlush
  <2> DEFINE text == IF k \in keys THEN P!Restore(Live, P!TailOf(pending[k])) ELSE <<>>
  <2>4. P!TextOfAll(frames, k) = text
    <3>1. cs \in Seq(P!Carriers)
      BY <1>6
    <3>2. \A ev \in Seq(P!Carriers) : \A j \in Keys : P!TextOf(ev, j) = <<>> =>
              P!TextOfAll(P!Tails(pending, order) \o <<ev>>, j)
                 = IF j \in keys THEN P!Restore(Live, P!TailOf(pending[j])) ELSE <<>>
      BY <2>3, RelayFlushNow
    <3>3. P!TextOfAll(P!Tails(pending, order) \o <<cs>>, k) = text
      BY <2>2, <3>1, <3>2
    <3> QED
      BY <1>8, <3>3
  <2>5. P!TailOf(pending[k]) = TailBefore(k)
    BY DEF P!TailOf, TailBefore
  <2>6. Originals(P!Restore(Live, TailBefore(k))) = 0
    <3>1. Clean(TailBefore(k)) /\ Aliased(TailBefore(k)) = 0
      BY TailClean
    <3>2. Originals(Sse!Restore(Live, TailBefore(k))) = Aliased(TailBefore(k))
      BY <3>1, RestoredCount DEF Clean
    <3> QED
      BY <3>1, <3>2, SameRestore
  <2>7. Originals(text) = 0
    BY <2>5, <2>6, NoOriginals
  <2> HIDE DEF text
  <2> QED
    BY <2>4, <2>7, SameTextOfAll
<1>10. PutBack(cs) = Total(Returned(frames), Keys)
  <2>1. \A k \in Keys : Returned(frames)[k] = 0
    BY <1>9 DEF Returned
  <2>2. IsFiniteSet(Keys)
    BY RelayAssumption
  <2> QED
    BY <1>1, <2>1, <2>2, TotalZero
<1>11. \A k \in Keys :
          Sse!FlushPending(acc.pending, keys)[k] # None => Short(Sse!FlushPending(acc.pending, keys)[k].tail)
  <2>1. \A k \in Keys : Sse!FlushPending(acc.pending, keys)[k] = IF k \in keys THEN None ELSE pending[k]
    BY <1>2 DEF Sse!FlushPending
  <2> QED
    BY <2>1 DEF ShortTails
<1>12. m + 1 \in Nat
  OBVIOUS
<1>13. Counted(frames, PutBack(cs), Sse!FlushPending(acc.pending, keys))
  BY <1>7, <1>10, <1>11, <1>12 DEF Counted
<1> QED
  BY <1>13, Zenon DEF frames, acc
-----------------------------------------------------------------------------
\* The characters of a text, as AnswersArrive has them.
LEMMA CleanCarried ==
    ASSUME AnswersArrive, NoneIsNoTail, NEW cs \in Seq(P!Carriers), NEW k, NEW text,
           cs = <<[key |-> k, text |-> text]>>, text \in Seq(ToSet(text) \ ToSet(Original))
    PROVE  Clean(text)
<1> DEFINE D == P!Carriers
           U == ToSet(text) \ ToSet(Original)
<1>1. cs[1] = [key |-> k, text |-> text] /\ 1 \in DOMAIN cs
  OBVIOUS
<1>2. cs[1] \in D
  <2>1. cs \in Seq(D)
    OBVIOUS
  <2> HIDE DEF D
  <2> QED
    BY <1>1, <2>1
<1>3. text \in Seq(P!Characters)
  BY <1>1, <1>2 DEF P!Carriers
<1>4. "original" \notin U
  <2>1. 1 \in DOMAIN Original /\ Original[1] = "original"
    BY LiveIs
  <2> QED
    BY <2>1 DEF ToSet
<1> HIDE DEF U
<1>5. \A i \in DOMAIN text : text[i] \in U
  BY DEF U
<1> QED
  BY <1>3, <1>4, <1>5 DEF Clean

\* What is sent for an event of an answer, by a restorer.
LEMMA RestoredFrames ==
    ASSUME AnswersArrive, NoneIsNoTail, ShortTails, pending \in P!Pendings, P!PlainTails(pending),
           session.restore, session.api \in Apis, NEW a \in Answers[session.api], NEW n \in DOMAIN a.events,
           NEW out \in Frames(a.events[n])
    PROVE  \E c : out.count = restored + c /\ Counted(out.frames, c, out.pending)
<1> DEFINE ev == a.events[n]
           cs == CarriersOf(session.api, ev)
           acc == Restoring(cs)
           keys == Ends(session.api, ev)
<1>1. PICK order \in Sse!FlushOrders(acc.pending, keys) :
        /\ out.frames = [i \in DOMAIN order |-> Sse!Flushed(acc.pending[order[i]])] \o <<acc.event>>
        /\ out.pending = Sse!FlushPending(acc.pending, keys)
        /\ out.count = restored + PutBack(cs)
  <2>1. Frames(ev) =
          {[frames |-> [i \in DOMAIN order |-> Sse!Flushed(acc.pending[order[i]])] \o <<acc.event>>,
            pending |-> Sse!FlushPending(acc.pending, keys), count |-> restored + PutBack(cs)] :
              order \in Sse!FlushOrders(acc.pending, keys)}
    BY Zenon DEF Frames, Ends
  <2> HIDE DEF acc, keys, cs
  <2>2. PICK order \in Sse!FlushOrders(acc.pending, keys) :
          out = [frames |-> [i \in DOMAIN order |-> Sse!Flushed(acc.pending[order[i]])] \o <<acc.event>>,
                 pending |-> Sse!FlushPending(acc.pending, keys), count |-> restored + PutBack(cs)]
    BY <2>1, Zenon
  <2> QED
    BY <2>2
<1>2. keys \subseteq Keys
  BY EndsWhat
<1>3. DOMAIN pending = Keys
  BY DEF P!Pendings
<1>4. Carrying(session.api, a.events, n) /\ cs \in Seq(P!Carriers)
  BY Carries, CarriersTyped
<1>5. \/ cs = <<>>
      \/ \E k \in Keys : \E text :
            cs = <<[key |-> k, text |-> text]>> /\ keys = {} /\ text \in Seq(ToSet(text) \ ToSet(Original))
  BY <1>4, Zenon DEF Carrying
<1> HIDE DEF cs, keys
<1>6. CASE cs = <<>>
  <2>0. Len(cs) = 0
    BY <1>6
  <2> DEFINE frames == [i \in DOMAIN order |-> Sse!Flushed(acc.pending[order[i]])] \o <<acc.event>>
  <2>1. Counted(frames, PutBack(cs), Sse!FlushPending(acc.pending, keys))
    BY <1>1, <1>2, <1>4, <2>0, NoneFrames
  <2>2. out.frames = frames
    BY <1>1
  <2> HIDE DEF frames, acc
  <2>3. Counted(out.frames, PutBack(cs), out.pending)
    BY <1>1, <2>1, <2>2
  <2> QED
    BY <1>1, <2>3
<1>7. CASE cs # <<>>
  <2>1. PICK k \in Keys : \E text :
            cs = <<[key |-> k, text |-> text]>> /\ keys = {} /\ text \in Seq(ToSet(text) \ ToSet(Original))
    BY <1>5, <1>7
  <2>2. PICK text : cs = <<[key |-> k, text |-> text]>> /\ keys = {} /\ text \in Seq(ToSet(text) \ ToSet(Original))
    BY <2>1
  <2>3. Clean(text)
    BY <1>4, <2>2, CleanCarried
  <2> DEFINE frames == [i \in DOMAIN order |-> Sse!Flushed(acc.pending[order[i]])] \o <<acc.event>>
  <2>4. order \in Sse!FlushOrders(acc.pending, {})
    BY <1>1, <2>2
  <2>5. Counted(frames, PutBack(cs), Sse!FlushPending(acc.pending, {}))
    BY <1>3, <2>2, <2>3, <2>4, OneFrames
  <2>6. out.frames = frames
    BY <1>1
  <2> HIDE DEF frames, acc
  <2>7. Counted(out.frames, PutBack(cs), out.pending)
    BY <1>1, <2>2, <2>5, <2>6
  <2> QED
    BY <1>1, <2>7
<1> QED
  BY <1>6, <1>7, SMTT(60)
-----------------------------------------------------------------------------
\* The originals of texts that are given block by block.
OriginalsIn(p) == [k \in Keys |-> Originals(p[k])]

\* What the client has of an answer after the frames of one event more.
Longer(got, frames) == [k \in Keys |-> got[k] \o Sse!TextOfAll(frames, k)]

\* Its size and its originals grow by those of the frames.
LEMMA LongerIs ==
    ASSUME NEW got \in [Keys -> Seq(P!Characters)], NEW frames, NEW m \in Nat, DOMAIN frames = 1 .. m,
           \A i \in 1 .. m : frames[i] \in Seq(P!Carriers)
    PROVE  /\ Longer(got, frames) \in [Keys -> Seq(P!Characters)]
           /\ Total(Lengths(Longer(got, frames)), Keys) = Total(Lengths(got), Keys) + Size(frames)
           /\ Total(OriginalsIn(Longer(got, frames)), Keys)
                = Total(OriginalsIn(got), Keys) + Total(Returned(frames), Keys)
<1> DEFINE C == P!Characters
           new == [k \in Keys |-> Sse!TextOfAll(frames, k)]
           all == Longer(got, frames)
<1>1. /\ \A k \in Keys : new[k] \in Seq(C)
      /\ Size(frames) = Total(Lengths(new), Keys)
  BY SizeIs
<1>2. Returned(frames) = OriginalsIn(new)
  BY DEF Returned, OriginalsIn
<1>3. all = [k \in Keys |-> got[k] \o new[k]]
  BY DEF Longer
<1>4. \A k \in Keys : got[k] \in Seq(C)
  OBVIOUS
<1> HIDE DEF new, all, C
<1>5. \A k \in Keys : all[k] \in Seq(C) /\ Len(all[k]) = Len(got[k]) + Len(new[k])
  <2> SUFFICES ASSUME NEW k \in Keys PROVE all[k] \in Seq(C) /\ Len(all[k]) = Len(got[k]) + Len(new[k])
    OBVIOUS
  <2>1. PICK x \in Seq(C) : x = got[k]
    BY <1>4
  <2>2. PICK y \in Seq(C) : y = new[k]
    BY <1>1
  <2>3. x \o y \in Seq(C) /\ Len(x \o y) = Len(x) + Len(y)
    BY ConcatProperties
  <2>4. all[k] = x \o y
    BY <1>3, <2>1, <2>2
  <2> QED
    BY <2>1, <2>2, <2>3, <2>4
<1>6. all \in [Keys -> Seq(C)]
  <2>1. all = [k \in Keys |-> all[k]]
    BY <1>3
  <2> QED
    BY <1>5, <2>1
<1>7. Total(Lengths(all), Keys) = Total(Lengths(got), Keys) + Total(Lengths(new), Keys)
  <2>1. /\ IsFiniteSet(Keys) /\ Numbers(Lengths(got), Keys) /\ \A k \in Keys : Lengths(got)[k] = Len(got[k])
    BY <1>4, LengthsAre
  <2>2. Numbers(Lengths(new), Keys) /\ \A k \in Keys : Lengths(new)[k] = Len(new[k])
    BY <1>1, LengthsAre
  <2>3. \A k \in Keys : Lengths(all)[k] = Len(all[k])
    BY <1>5, LengthsAre
  <2>4. \A k \in Keys : Lengths(all)[k] = Lengths(got)[k] + Lengths(new)[k]
    BY <1>5, <2>1, <2>2, <2>3
  <2> QED
    BY <2>1, <2>2, <2>4, TotalPlus
<1>8. Total(OriginalsIn(all), Keys) = Total(OriginalsIn(got), Keys) + Total(OriginalsIn(new), Keys)
  <2>1. \A k \in Keys :
          /\ Originals(got[k]) \in Nat /\ Originals(new[k]) \in Nat
          /\ Originals(all[k]) = Originals(got[k]) + Originals(new[k])
    <3> SUFFICES ASSUME NEW k \in Keys
                 PROVE  /\ Originals(got[k]) \in Nat /\ Originals(new[k]) \in Nat
                        /\ Originals(all[k]) = Originals(got[k]) + Originals(new[k])
      OBVIOUS
    <3>1. all[k] = got[k] \o new[k]
      BY <1>3
    <3>2. got[k] \in Seq(C) /\ new[k] \in Seq(C)
      BY <1>1, <1>4
    <3>3. /\ Originals(got[k] \o new[k]) = Originals(got[k]) + Originals(new[k])
          /\ Originals(got[k]) \in Nat /\ Originals(new[k]) \in Nat
      BY <3>2, OriginalsConcat
    <3> QED
      BY <3>1, <3>3
  <2>2. \A p : \A k \in Keys : OriginalsIn(p)[k] = Originals(p[k])
    BY DEF OriginalsIn
  <2>3. IsFiniteSet(Keys)
    BY RelayAssumption
  <2>4. Numbers(OriginalsIn(got), Keys) /\ Numbers(OriginalsIn(new), Keys)
    BY <2>1, <2>2 DEF Numbers
  <2>5. \A k \in Keys : OriginalsIn(all)[k] = OriginalsIn(got)[k] + OriginalsIn(new)[k]
    BY <2>1, <2>2
  <2> QED
    BY <2>3, <2>4, <2>5, TotalPlus
<1> QED
  BY <1>1, <1>2, <1>6, <1>7, <1>8 DEF all, C

\* Nothing has come.
LEMMA NothingCame ==
    LET none == [k \in Keys |-> <<>>] IN
    /\ none \in [Keys -> Seq(P!Characters)]
    /\ Total(Lengths(none), Keys) = 0 /\ Total(OriginalsIn(none), Keys) = 0
<1> DEFINE none == [k \in Keys |-> <<>>]
<1>1. IsFiniteSet(Keys)
  BY RelayAssumption
<1>2. Originals(<<>>) = 0
  <2>1. <<>> \in Seq({}) /\ "original" \notin {}
    OBVIOUS
  <2> QED
    BY <2>1, OriginalsNone
<1>3. \A k \in Keys : Lengths(none)[k] = 0 /\ OriginalsIn(none)[k] = 0
  BY <1>2 DEF Lengths, OriginalsIn
<1>4. none \in [Keys -> Seq(P!Characters)]
  <2> DEFINE C == P!Characters
  <2> HIDE DEF C
  <2>1. <<>> \in Seq(C)
    OBVIOUS
  <2> QED
    BY <2>1 DEF C
<1> HIDE DEF none
<1> QED
  BY <1>1, <1>3, <1>4, TotalZero DEF none
-----------------------------------------------------------------------------
\* What is sent for an event of an answer, restored or not.
LEMMA FramesAre ==
    ASSUME AnswersArrive, NoneIsNoTail, session.api \in Apis, NEW a \in Answers[session.api],
           NEW n \in DOMAIN a.events, NEW out \in Frames(a.events[n]),
           session.restore => ShortTails /\ pending \in P!Pendings /\ P!PlainTails(pending)
    PROVE  /\ \E m \in Nat : DOMAIN out.frames = 1 .. m /\ \A i \in 1 .. m : out.frames[i] \in Seq(P!Carriers)
           /\ SubSeq(out.frames, 1, Len(out.frames)) = out.frames
           /\ session.restore =>
                /\ out.count = restored + Total(Returned(out.frames), Keys)
                /\ \A k \in Keys : out.pending[k] # None => Short(out.pending[k].tail)
<1> DEFINE ev == a.events[n]
           cs == CarriersOf(session.api, ev)
           acc == Restoring(cs)
           keys == Ends(session.api, ev)
<1>1. CASE session.restore
  <2>1. PICK c : out.count = restored + c /\ Counted(out.frames, c, out.pending)
    BY <1>1, RestoredFrames
  <2>2. SubSeq(out.frames, 1, Len(out.frames)) = out.frames
    <3>1. Frames(ev) =
            {[frames |-> [i \in DOMAIN order |-> Sse!Flushed(acc.pending[order[i]])] \o <<acc.event>>,
              pending |-> Sse!FlushPending(acc.pending, keys), count |-> restored + PutBack(cs)] :
                order \in Sse!FlushOrders(acc.pending, keys)}
      BY <1>1, Zenon DEF Frames, Ends
    <3>2. keys \subseteq Keys
      BY EndsWhat
    <3> HIDE DEF acc, keys, cs
    <3>3. PICK order \in Sse!FlushOrders(acc.pending, keys) :
            out = [frames |-> [i \in DOMAIN order |-> Sse!Flushed(acc.pending[order[i]])] \o <<acc.event>>,
                   pending |-> Sse!FlushPending(acc.pending, keys), count |-> restored + PutBack(cs)]
      BY <3>1, Zenon
    <3> DEFINE frames == [i \in DOMAIN order |-> Sse!Flushed(acc.pending[order[i]])] \o <<acc.event>>
    <3>4. SubSeq(frames, 1, Len(frames)) = frames
      BY <3>2, FramesSeq
    <3>5. out.frames = frames
      BY <3>3
    <3> HIDE DEF frames
    <3> QED
      BY <3>4, <3>5
  <2> QED
    BY <2>1, <2>2 DEF Counted
<1>2. CASE ~session.restore
  <2>1. out = [frames |-> <<cs>>, pending |-> pending, count |-> restored]
    BY <1>2 DEF Frames
  <2>2. cs \in Seq(P!Carriers)
    BY CarriersTyped
  <2> DEFINE frames == <<cs>>
  <2>3. PICK C : C = {cs}
    OBVIOUS
  <2>4. frames \in Seq(C) /\ DOMAIN frames = 1 .. 1 /\ frames[1] = cs
    BY <2>3
  <2>5. out.frames = frames
    BY <2>1
  <2> HIDE DEF frames, cs
  <2>6. SubSeq(frames, 1, Len(frames)) = frames
    BY <2>4, SubSeqFull
  <2>7. \A i \in 1 .. 1 : frames[i] \in Seq(P!Carriers)
    BY <2>2, <2>4
  <2> QED
    BY <1>2, <2>4, <2>5, <2>6, <2>7
<1> QED
  BY <1>1, <1>2

\* An event of the answer to an orderly client, when all of it reaches the client.
LEMMA EventSized ==
    ASSUME AnswersArrive, NoneIsNoTail, TurnsInv, DOMAIN delivered = Turns, orderly,
           session.restore => ShortTails /\ pending \in P!Pendings /\ P!PlainTails(pending),
           NEW n, ServerText(n), phase' = "relaying"
    PROVE  LET ev == answers[asked].events[place[asked] + 1] IN
           \E frames :
              LET turn == Observe(current, frames, ParseUsage(session.api, ev), restored') IN
              /\ \E m \in Nat : DOMAIN frames = 1 .. m /\ \A i \in 1 .. m : frames[i] \in Seq(P!Carriers)
              /\ delivered'[asked] = Longer(delivered[asked], frames)
              /\ session.restore => restored' = restored + Total(Returned(frames), Keys) /\ ShortTails'
              /\ logs' = IF IsTerminal(ev) THEN FinishTurn(turn, None) ELSE logs
              /\ current' = IF IsTerminal(ev) THEN None ELSE turn
<1> DEFINE a == answers[asked]
           m == place[asked]
           ev == a.events[m + 1]
<1>1. /\ answering = asked /\ asked \in Begun /\ asked \in Turns /\ session.api \in Apis
      /\ a \in Answers[session.api] /\ asked \notin answered /\ phase = "relaying"
  <2>1. phase = "relaying" /\ answering # 0
    BY DEF ServerText
  <2> QED
    BY <2>1, AnsweringLast
<1>2. m \in Nat /\ m < Len(a.events) /\ a.events \in Seq(ToSet(a.events))
  BY <1>1, RelayAssumption DEF TurnsInv, TurnTypes, AnswersInOrder
<1>3. m + 1 \in DOMAIN a.events
  BY <1>2
<1>4. PICK out \in Frames(ev) :
        LET turn == Observe(current, out.frames, ParseUsage(session.api, ev), out.count) IN
        /\ Sent(n = Len(out.frames))
        /\ Deliver(asked, out.frames, n)
        /\ pending' = out.pending
        /\ restored' = out.count
        /\ logs' = IF IsTerminal(ev) THEN FinishTurn(turn, None) ELSE logs
        /\ current' = IF IsTerminal(ev) THEN None ELSE turn
  BY <1>1 DEF ServerText
<1>5. /\ \E j \in Nat : DOMAIN out.frames = 1 .. j /\ \A i \in 1 .. j : out.frames[i] \in Seq(P!Carriers)
      /\ SubSeq(out.frames, 1, Len(out.frames)) = out.frames
      /\ session.restore =>
            /\ out.count = restored + Total(Returned(out.frames), Keys)
            /\ \A k \in Keys : out.pending[k] # None => Short(out.pending[k].tail)
  BY <1>1, <1>3, <1>4, FramesAre
<1> HIDE DEF ev
<1>6. n = Len(out.frames)
  BY <1>4 DEF Sent
<1>7. delivered'[asked] = Longer(delivered[asked], out.frames)
  <2>1. delivered' = [delivered EXCEPT ![asked] = [k \in Keys |-> @[k] \o Sse!TextOfAll(out.frames, k)]]
    BY <1>4, <1>5, <1>6 DEF Deliver
  <2> QED
    BY <1>1, <2>1 DEF Longer
<1>8. session.restore => restored' = restored + Total(Returned(out.frames), Keys) /\ ShortTails'
  BY <1>4, <1>5 DEF ShortTails
<1>9. LET turn == Observe(current, out.frames, ParseUsage(session.api, ev), restored') IN
      /\ logs' = IF IsTerminal(ev) THEN FinishTurn(turn, None) ELSE logs
      /\ current' = IF IsTerminal(ev) THEN None ELSE turn
  BY <1>4
<1> QED
  BY <1>5, <1>7, <1>8, <1>9 DEF ev
-----------------------------------------------------------------------------
\* What the record of turn t says of its answer, the client having got d: its size and, when the
\* restorer has served no other turn and put nothing else back, its restorations.
Measured(record, t, d) ==
    record.turn = t =>
        /\ record.bytes = Total(Lengths(d[t]), Keys)
        /\ t = 1 /\ ~plain /\ session.restore => record.restored = Total(OriginalsIn(d[t]), Keys)

\* Between the events of an orderly client the restorer holds back one character at most.
TailsShort == orderly /\ session.restore /\ phase \notin {"closing", "over"} => ShortTails

\* Nothing is put back before the first turn.
NothingRestored == asked = 0 => restored = 0

\* The answer to an orderly client is measured in the open record while it arrives.
OpenRecordSized ==
    orderly /\ phase = "relaying" /\ asked > 0 /\ asked \notin answered =>
        /\ Measured(current, asked, delivered)
        /\ delivered[asked] \in [Keys -> Seq(P!Characters)]
        /\ asked = 1 /\ session.restore => restored = Total(OriginalsIn(delivered[1]), Keys)

\* All records measure the answers that were complete.
RecordsSized ==
    \A t \in answered :
        /\ current # None => Measured(current, t, delivered)
        /\ \A i \in DOMAIN logs : Measured(logs[i], t, delivered)

\* The inductive invariant of the sizes.
SizeInv == UsageInv /\ TextInv /\ TailsShort /\ NothingRestored /\ OpenRecordSized /\ RecordsSized
-----------------------------------------------------------------------------
\* What is noted of the frames in an open record.
LEMMA ObserveSizes ==
    ASSUME NEW record, Shaped(record), record # None, NEW frames, NEW usage, NEW count
    PROVE  LET noted == Observe(record, frames, usage, count) IN
           noted.turn = record.turn /\ noted.bytes = record.bytes + Size(frames) /\ noted.restored = count
  BY DEF Observe, Shaped

\* The record that is sent for a turn has the size and the restorations that it had noted.
LEMMA EndedMeasures ==
    ASSUME NEW record, Shaped(record), NEW t, NEW d, Measured(record, t, d), NEW error
    PROVE  Measured(Ended(record, error), t, d)
<1>1. /\ Ended(record, error).turn = record.turn /\ Ended(record, error).bytes = record.bytes
      /\ Ended(record, error).restored = record.restored
  BY DEF Ended, Shaped
<1> QED
  BY <1>1 DEF Measured

\* So do all records when the open one is sent.
LEMMA FinishMeasures ==
    ASSUME NEW S, NEW d, logs \in Seq(ToSet(logs)), \A t \in S : \A i \in DOMAIN logs : Measured(logs[i], t, d),
           NEW turn, turn # None => Shaped(turn) /\ \A t \in S : Measured(turn, t, d), NEW error
    PROVE  \A t \in S : \A i \in DOMAIN FinishTurn(turn, error) : Measured(FinishTurn(turn, error)[i], t, d)
<1> DEFINE ended == Ended(turn, error)
           longer == Append(logs, ended)
<1>1. CASE turn = None
  BY <1>1 DEF FinishTurn
<1>2. CASE turn # None
  <2>1. \A t \in S : Measured(ended, t, d)
    BY <1>2, EndedMeasures
  <2> HIDE DEF ended
  <2>2. PICK C : C = ToSet(logs) \cup {ended}
    OBVIOUS
  <2>3. logs \in Seq(C) /\ ended \in C
    BY <2>2
  <2>4. /\ \A i \in DOMAIN longer : i \in DOMAIN logs \/ i = Len(logs) + 1
        /\ \A i \in DOMAIN logs : longer[i] = logs[i]
        /\ longer[Len(logs) + 1] = ended
    BY <2>3
  <2> HIDE DEF longer
  <2>5. ASSUME NEW t \in S, NEW i \in DOMAIN longer PROVE Measured(longer[i], t, d)
    BY <2>1, <2>4, <2>5
  <2> QED
    BY <1>2, <2>5 DEF FinishTurn, longer, ended
<1> QED
  BY <1>1, <1>2
-----------------------------------------------------------------------------
\* Nothing has been sent or counted.
LEMMA SizeInit ==
    ASSUME NoneIsNoUsage, NoneIsNoRecord, NoneIsNoTail, AnswersReport, AnswersArrive, Init PROVE SizeInv
<1>1. UsageInv /\ TextInv
  BY UsageInit, TextInit
<1>2. pending = [k \in Keys |-> None] /\ asked = 0 /\ restored = 0 /\ answered = {}
  BY DEF Init
<1>3. ShortTails
  BY <1>2 DEF ShortTails
<1> QED
  BY <1>1, <1>2, <1>3 DEF SizeInv, TailsShort, NothingRestored, OpenRecordSized, RecordsSized

\* A step that has nothing to do with the texts.
LEMMA SizeStays ==
    ASSUME SizeInv, UsageInv', TextInv', UNCHANGED <<session, asked, delivered, answered, restored>>,
           orderly' => orderly, plain' \in {plain, TRUE},
           phase' \notin {"closing", "over"} => phase \notin {"closing", "over"} /\ pending' = pending,
           phase' = "relaying" => phase = "relaying" \/ asked = 0,
           phase' = "relaying" /\ orderly' /\ asked \notin answered /\ asked > 0 =>
                (Measured(current, asked, delivered) => Measured(current, asked, delivered)'),
           \A t \in answered : current' # None => Measured(current, t, delivered)',
           \A t \in answered : \A i \in DOMAIN logs' : Measured(logs[i], t, delivered)'
    PROVE  SizeInv'
<1>1. TailsShort'
  <2>1. ShortTails /\ pending' = pending => ShortTails'
    BY DEF ShortTails
  <2> QED
    BY <2>1 DEF SizeInv, TailsShort
<1>2. NothingRestored'
  BY DEF SizeInv, NothingRestored
<1>3. OpenRecordSized'
  <2> SUFFICES ASSUME orderly', phase' = "relaying", asked > 0, asked \notin answered
               PROVE  /\ Measured(current, asked, delivered)'
                      /\ delivered[asked] \in [Keys -> Seq(P!Characters)]
                      /\ asked = 1 /\ session.restore => restored = Total(OriginalsIn(delivered[1]), Keys)
    BY DEF OpenRecordSized
  <2>1. OpenRecordSized /\ orderly /\ phase = "relaying"
    BY DEF SizeInv
  <2> QED
    BY <2>1 DEF OpenRecordSized
<1>4. RecordsSized'
  BY DEF RecordsSized
<1> QED
  BY <1>1, <1>2, <1>3, <1>4 DEF SizeInv
-----------------------------------------------------------------------------
\* Nothing happens to the records either.
LEMMA SizeIdle ==
    ASSUME SizeInv, UsageInv', TextInv',
           UNCHANGED <<session, asked, delivered, answered, restored, current, logs, plain>>,
           orderly' => orderly,
           phase' \notin {"closing", "over"} => phase \notin {"closing", "over"} /\ pending' = pending,
           phase' = "relaying" => phase = "relaying" \/ asked = 0
    PROVE  SizeInv'
<1>1. Measured(current, asked, delivered) => Measured(current, asked, delivered)'
  BY DEF Measured
<1>2. \A t \in answered : current' # None => Measured(current, t, delivered)'
  BY DEF SizeInv, RecordsSized, Measured
<1>3. \A t \in answered : \A i \in DOMAIN logs' : Measured(logs[i], t, delivered)'
  BY DEF SizeInv, RecordsSized, Measured
<1> QED
  BY <1>1, <1>2, <1>3, SizeStays

\* The record of a connection that never relays, or its end.
LEMMA ConnectionSizes ==
    ASSUME SizeInv, NEW record, phase \in {"connecting", "upgrading", "tunnel"}, FinishConnection(record),
           UsageInv', TextInv'
    PROVE  SizeInv'
<1>1. answered = {}
  <2>1. asked = 0
    BY DEF SizeInv, UsageInv, TurnsInv, IInv
  <2> QED
    BY <2>1 DEF SizeInv, UsageInv, TurnsInv, AnswersInOrder
<1>2. /\ phase' = "over"
      /\ UNCHANGED <<session, asked, delivered, answered, restored, orderly, plain>>
  BY DEF FinishConnection, peers
<1> QED
  BY <1>1, <1>2, SizeStays

\* The last record is sent, and then that of the connection.
LEMMA OnCloseSizes == ASSUME SizeInv, OnClose, UsageInv', TextInv' PROVE SizeInv'
<1> DEFINE turns == FinishTurn(current, failure)
           all == Append(turns, fin)
<1>0. TurnsInv /\ RecordsSized
  BY DEF SizeInv, UsageInv
<1>1. /\ phase = "closing" /\ phase' = "over" /\ current' = None /\ logs' = all
      /\ UNCHANGED <<session, asked, delivered, answered, restored, orderly, plain>>
  BY DEF OnClose, peers
<1>2. logs \in Seq(ToSet(logs)) /\ fin.turn = 0
  BY <1>0, <1>1, SentBefore DEF TurnsInv, IInv, Running, OfTurn
<1>3. current # None => Shaped(current) /\ \A t \in answered : Tells(current, t) /\ Measured(current, t, delivered)
  BY <1>0 DEF SizeInv, UsageInv, RecordsTell, TurnsInv, TurnTypes, RecordsSized
<1>4. turns \in Seq(ToSet(logs) \cup {Ended(current, failure)})
  <2>1. \A t \in answered : \A i \in DOMAIN logs : RecordTells(logs[i], t)
    BY DEF SizeInv, UsageInv, RecordsTell
  <2> QED
    BY <1>2, <1>3, <2>1, FinishTells
<1>5. \A t \in answered : \A i \in DOMAIN turns : Measured(turns[i], t, delivered)
  <2>1. \A t \in answered : \A i \in DOMAIN logs : Measured(logs[i], t, delivered)
    BY <1>0 DEF RecordsSized
  <2> QED
    BY <1>2, <1>3, <2>1, FinishMeasures
<1>6. \A t \in answered : Measured(fin, t, delivered)
  <2>1. answered \subseteq 1 .. asked /\ asked \in Nat
    BY <1>0 DEF TurnsInv, TurnTypes, AnswersInOrder
  <2> QED
    BY <1>2, <2>1 DEF Measured
<1> HIDE DEF turns
<1>7. PICK C : C = ToSet(logs) \cup {Ended(current, failure)} \cup {fin}
  OBVIOUS
<1>8. turns \in Seq(C) /\ fin \in C
  BY <1>4, <1>7
<1>9. /\ \A i \in DOMAIN all : i \in DOMAIN turns \/ i = Len(turns) + 1
      /\ \A i \in DOMAIN turns : all[i] = turns[i]
      /\ all[Len(turns) + 1] = fin
  BY <1>8
<1> HIDE DEF all
<1>10. ASSUME NEW t \in answered, NEW i \in DOMAIN all PROVE Measured(all[i], t, delivered)
  BY <1>5, <1>6, <1>9
<1>11. \A t \in answered : \A i \in DOMAIN logs' : Measured(logs[i], t, delivered)'
  BY <1>1, <1>10 DEF Measured
<1> QED
  BY <1>1, <1>11, SizeStays

\* The record of a new turn is empty, and nothing of its answer has come.
LEMMA RequestSizes ==
    ASSUME SizeInv, NEW body, NEW ok, ClientRequest(body, ok), UsageInv', TextInv' PROVE SizeInv'
<1>0. TurnsInv /\ RecordsSized /\ IInv'
  BY DEF SizeInv, UsageInv, TurnsInv
<1>1. /\ phase = "relaying" /\ asked' = asked + 1 /\ logs' = FinishTurn(current, None)
      /\ current' = [Template(session) EXCEPT !.turn = asked + 1]
      /\ orderly' = (orderly /\ asked \in answered \cup {0})
      /\ UNCHANGED <<session, pending, delivered, answered, restored, plain>>
  BY DEF ClientRequest
<1>2. /\ current' # None /\ current'.turn = asked + 1 /\ asked' \notin Begun' /\ answered \subseteq 1 .. asked
  BY <1>0, RequestTurns
<1>3. asked \in Nat /\ asked' \in Turns
  BY <1>0, RelayAssumption DEF TurnsInv, TurnTypes, IInv, Turns, ClientRequest
<1>4. current'.bytes = 0 /\ current'.restored = 0
  BY <1>1 DEF Template
<1>5. delivered'[asked'] = [k \in Keys |-> <<>>]
  BY <1>2, <1>3 DEF TextInv
<1>6. /\ delivered'[asked'] \in [Keys -> Seq(P!Characters)]
      /\ Total(Lengths(delivered'[asked']), Keys) = 0 /\ Total(OriginalsIn(delivered'[asked']), Keys) = 0
  BY <1>5, NothingCame
<1>7. TailsShort'
  <2>1. orderly' => orderly
    BY <1>1, Zenon
  <2> QED
    BY <1>1, <2>1 DEF SizeInv, TailsShort, ShortTails
<1>8. NothingRestored'
  BY <1>1, <1>3 DEF NothingRestored
<1>9. OpenRecordSized'
  <2>1. Measured(current, asked, delivered)'
    BY <1>4, <1>6 DEF Measured
  <2>2. asked' = 1 => restored' = Total(OriginalsIn(delivered'[1]), Keys)
    <3>1. asked' = 1 => restored' = 0
      BY <1>1, <1>3 DEF SizeInv, NothingRestored
    <3> QED
      BY <1>6, <3>1
  <2> QED
    BY <1>6, <2>1, <2>2 DEF OpenRecordSized
<1>10. RecordsSized'
  <2>1. current # None => Shaped(current) /\ \A t \in answered : Measured(current, t, delivered)
    BY <1>0 DEF TurnsInv, TurnTypes, RecordsSized
  <2>2. \A t \in answered : \A i \in DOMAIN logs : Measured(logs[i], t, delivered)
    BY <1>0 DEF RecordsSized
  <2>3. logs \in Seq(ToSet(logs))
    BY <1>0, <1>1, SentBefore DEF TurnsInv
  <2>4. \A t \in answered : \A i \in DOMAIN logs' : Measured(logs'[i], t, delivered)
    BY <1>1, <2>1, <2>2, <2>3, FinishMeasures
  <2>5. \A t \in answered : \A i \in DOMAIN logs' : Measured(logs[i], t, delivered)'
    BY <1>1, <2>4 DEF Measured
  <2>6. \A t \in answered : Measured(current, t, delivered)'
    BY <1>2, <1>3 DEF Measured
  <2> QED
    BY <1>1, <2>5, <2>6 DEF RecordsSized
<1> QED
  BY <1>7, <1>8, <1>9, <1>10 DEF SizeInv
-----------------------------------------------------------------------------
\* The event of an answer, for a client that is not orderly or gets only a part of it.
LEMMA PartSizes ==
    ASSUME SizeInv, NEW n, ServerText(n), UsageInv', TextInv', ~(orderly /\ phase' = "relaying")
    PROVE  SizeInv'
<1> DEFINE ev == answers[answering].events[place[answering] + 1]
<1>0. TurnsInv /\ RecordsSized
  BY DEF SizeInv, UsageInv
<1>1. /\ phase = "relaying" /\ answering # 0 /\ phase' \in {"relaying", "closing"}
      /\ UNCHANGED <<session, asked, orderly, plain>>
      /\ \E f : delivered' = [delivered EXCEPT ![answering] = f]
  BY DEF ServerText, Sent, Deliver
<1>2. PICK out :
        LET turn == Observe(current, out.frames, ParseUsage(session.api, ev), out.count)
            last == place[answering] + 1 = Len(answers[answering].events) IN
        /\ Sent(n = Len(out.frames))
        /\ logs' = IF IsTerminal(ev) THEN FinishTurn(turn, None) ELSE logs
        /\ current' = IF IsTerminal(ev) THEN None ELSE turn
        /\ answered' = IF last /\ orderly /\ answering = asked /\ n = Len(out.frames)
                       THEN answered \cup {asked} ELSE answered
  BY DEF ServerText
<1> DEFINE turn == Observe(current, out.frames, ParseUsage(session.api, ev), out.count)
<1>3. answered' = answered
  BY <1>1, <1>2 DEF Sent
<1>4. /\ asked \notin answered /\ answering \notin answered /\ answered \subseteq Turns
      /\ answering \in 1 .. asked /\ asked \in Nat
  BY <1>0, <1>1, AnsweringLast DEF TurnsInv, AnswersInOrder, IInv, Begun
<1>5. \A t \in answered : delivered'[t] = delivered[t]
  BY <1>1, <1>4 DEF SizeInv, TextInv
<1>6. turn # None => Shaped(turn) /\ turn.turn = asked
  <2>1. current = None => turn = None
    BY DEF Observe
  <2>2. current # None => Shaped(current) /\ current.turn = asked
    BY <1>0, <1>1, SentBefore DEF TurnsInv, TurnTypes
  <2>3. current # None => Shaped(turn) /\ turn.turn = asked
    BY <2>2, ObserveShaped, ObserveSizes
  <2> QED
    BY <2>1, <2>3
<1>7. logs' = (IF IsTerminal(ev) THEN FinishTurn(turn, None) ELSE logs)
      /\ current' = IF IsTerminal(ev) THEN None ELSE turn
  BY <1>2
<1> HIDE DEF turn
<1>8. \A t \in answered : turn # None => Measured(turn, t, delivered)
  BY <1>4, <1>6 DEF Measured
<1>9. \A t \in answered : \A i \in DOMAIN logs : Measured(logs[i], t, delivered)
  BY <1>0 DEF RecordsSized
<1>10. \A t \in answered : \A i \in DOMAIN logs' : Measured(logs'[i], t, delivered)
  <2>1. CASE IsTerminal(ev)
    <3>1. logs \in Seq(ToSet(logs))
      BY <1>0, <1>1, SentBefore DEF TurnsInv
    <3>2. turn # None => Shaped(turn) /\ \A t \in answered : Measured(turn, t, delivered)
      BY <1>6, <1>8
    <3>3. \A t \in answered : \A i \in DOMAIN FinishTurn(turn, None) :
             Measured(FinishTurn(turn, None)[i], t, delivered)
      BY <1>9, <3>1, <3>2, FinishMeasures
    <3> QED
      BY <1>7, <2>1, <3>3
  <2>2. CASE ~IsTerminal(ev)
    BY <1>7, <1>9, <2>2
  <2> QED
    BY <2>1, <2>2
<1>11. RecordsSized'
  <2>1. \A t \in answered : \A i \in DOMAIN logs' : Measured(logs[i], t, delivered)'
    BY <1>1, <1>5, <1>10 DEF Measured
  <2>2. \A t \in answered : current' # None => Measured(current, t, delivered)'
    BY <1>1, <1>4, <1>6, <1>7 DEF Measured
  <2> QED
    BY <1>3, <2>1, <2>2 DEF RecordsSized
<1>12. TailsShort'
  BY <1>1 DEF TailsShort
<1>13. NothingRestored'
  BY <1>1, <1>4 DEF NothingRestored
<1>14. OpenRecordSized'
  BY <1>1 DEF OpenRecordSized
<1> QED
  BY <1>11, <1>12, <1>13, <1>14 DEF SizeInv

\* The event of an answer to an orderly client, which gets all of it.
LEMMA WholeSizes ==
    ASSUME SizeInv, NEW n, ServerText(n), UsageInv', TextInv', orderly, phase' = "relaying"
    PROVE  SizeInv'
<1> DEFINE ev == answers[asked].events[place[asked] + 1]
           got == delivered[asked]
<1>0. TurnsInv /\ RecordsSized /\ TextInv /\ AnswersArrive /\ NoneIsNoTail
  BY DEF SizeInv, UsageInv, TextInv
<1>1. /\ phase = "relaying" /\ answering # 0
      /\ UNCHANGED <<session, asked, orderly, plain>>
      /\ \E f : delivered' = [delivered EXCEPT ![answering] = f]
      /\ answered' \subseteq answered \cup {asked}
  BY DEF ServerText, Deliver
<1>2. /\ asked \notin answered /\ answering = asked /\ answered \subseteq Turns
      /\ asked \in Begun /\ asked \in Turns /\ asked \in Nat /\ asked > 0
  <2>1. asked \notin answered /\ answering = asked /\ asked \in Begun /\ asked \in 0 .. MaxTurns
    BY <1>0, <1>1, AnsweringLast
  <2>2. asked \in Turns /\ answered \subseteq Turns
    BY <1>0, <2>1 DEF TurnsInv, AnswersInOrder, Begun
  <2> QED
    BY <2>1, <2>2, RelayAssumption DEF Turns
<1>3. session.restore => ShortTails /\ pending \in P!Pendings /\ P!PlainTails(pending)
  <2> SUFFICES ASSUME session.restore PROVE ShortTails /\ pending \in P!Pendings /\ P!PlainTails(pending)
    OBVIOUS
  <2>1. ShortTails
    BY <1>1 DEF SizeInv, TailsShort
  <2>2. P!PlainInv
    BY <1>1, <1>2 DEF SizeInv, TextInv, RestorerInTurn, Arriving
  <2>3. pending \in P!Pendings /\ P!PlainTails(pending)
    BY <2>2 DEF P!PlainInv, P!PlainTexts, P!TailInv, P!SseTails
  <2> QED
    BY <2>1, <2>3
<1>4. PICK frames :
        LET turn == Observe(current, frames, ParseUsage(session.api, ev), restored') IN
        /\ \E m \in Nat : DOMAIN frames = 1 .. m /\ \A i \in 1 .. m : frames[i] \in Seq(P!Carriers)
        /\ delivered'[asked] = Longer(got, frames)
        /\ session.restore => restored' = restored + Total(Returned(frames), Keys) /\ ShortTails'
        /\ logs' = IF IsTerminal(ev) THEN FinishTurn(turn, None) ELSE logs
        /\ current' = IF IsTerminal(ev) THEN None ELSE turn
  BY <1>0, <1>3, EventSized DEF TextInv
<1> DEFINE turn == Observe(current, frames, ParseUsage(session.api, ev), restored')
<1>5. /\ current # None /\ Shaped(current) /\ current.turn = asked
      /\ \A i \in DOMAIN logs : logs[i].turn \in 1 .. asked - 1
      /\ logs \in Seq(ToSet(logs))
  <2>1. current # None
    BY <1>1, <1>2 DEF SizeInv, UsageInv, OpenRecordIsTrue
  <2> QED
    BY <1>0, <1>1, <2>1, SentBefore DEF TurnsInv, TurnTypes
<1>6. /\ Measured(current, asked, delivered) /\ got \in [Keys -> Seq(P!Characters)]
      /\ asked = 1 /\ session.restore => restored = Total(OriginalsIn(got), Keys)
  BY <1>1, <1>2 DEF SizeInv, OpenRecordSized
<1>7. /\ Longer(got, frames) \in [Keys -> Seq(P!Characters)]
      /\ Total(Lengths(Longer(got, frames)), Keys) = Total(Lengths(got), Keys) + Size(frames)
      /\ Total(OriginalsIn(Longer(got, frames)), Keys)
           = Total(OriginalsIn(got), Keys) + Total(Returned(frames), Keys)
  <2> HIDE DEF got
  <2> QED
    BY <1>4, <1>6, LongerIs
<1>8. /\ turn.turn = asked /\ turn.bytes = current.bytes + Size(frames) /\ turn.restored = restored'
      /\ Shaped(turn)
  BY <1>5, ObserveSizes, ObserveShaped
<1>9. logs' = (IF IsTerminal(ev) THEN FinishTurn(turn, None) ELSE logs)
      /\ current' = (IF IsTerminal(ev) THEN None ELSE turn)
  BY <1>4
<1> HIDE DEF turn, ev
<1>10. asked = 1 /\ session.restore => restored' = Total(OriginalsIn(delivered'[asked]), Keys)
  BY <1>4, <1>6, <1>7
<1>11. turn.bytes = Total(Lengths(delivered'[asked]), Keys)
  BY <1>4, <1>5, <1>6, <1>7, <1>8 DEF Measured
<1>12. Measured(turn, asked, delivered')
  BY <1>8, <1>10, <1>11 DEF Measured
<1>13. \A t \in answered' : Measured(turn, t, delivered')
  BY <1>1, <1>2, <1>8, <1>12 DEF Measured
<1>14. \A t \in answered : delivered'[t] = delivered[t]
  BY <1>1, <1>2 DEF SizeInv, TextInv
<1>15. \A t \in answered' : \A i \in DOMAIN logs : Measured(logs[i], t, delivered')
  <2>1. \A t \in answered : \A i \in DOMAIN logs : Measured(logs[i], t, delivered')
    BY <1>0, <1>14 DEF RecordsSized, Measured
  <2>2. \A i \in DOMAIN logs : logs[i].turn # asked
    BY <1>2, <1>5
  <2> QED
    BY <1>1, <2>1, <2>2 DEF Measured
<1>16. \A t \in answered' : \A i \in DOMAIN logs' : Measured(logs'[i], t, delivered')
  <2>1. PICK S, d : S = answered' /\ d = delivered'
    OBVIOUS
  <2>2. \A t \in S : \A i \in DOMAIN logs : Measured(logs[i], t, d)
    BY <1>15, <2>1
  <2>3. turn # None => Shaped(turn) /\ \A t \in S : Measured(turn, t, d)
    BY <1>8, <1>13, <2>1
  <2>4. \A t \in S : \A i \in DOMAIN FinishTurn(turn, None) : Measured(FinishTurn(turn, None)[i], t, d)
    BY <1>5, <2>2, <2>3, FinishMeasures
  <2> QED
    BY <1>9, <1>15, <2>1, <2>4
<1>17. RecordsSized'
  <2>1. \A t \in answered' : \A i \in DOMAIN logs' : Measured(logs[i], t, delivered)'
    BY <1>1, <1>16 DEF Measured
  <2>2. \A t \in answered' : current' # None => Measured(current, t, delivered)'
    BY <1>1, <1>9, <1>13 DEF Measured
  <2> QED
    BY <2>1, <2>2 DEF RecordsSized
<1>18. TailsShort'
  BY <1>1, <1>4 DEF TailsShort
<1>19. NothingRestored'
  BY <1>1, <1>2 DEF NothingRestored
<1>20. OpenRecordSized'
  <2> SUFFICES ASSUME asked \notin answered'
               PROVE  /\ Measured(current, asked, delivered)'
                      /\ delivered'[asked] \in [Keys -> Seq(P!Characters)]
                      /\ asked = 1 /\ session.restore => restored' = Total(OriginalsIn(delivered'[1]), Keys)
    BY <1>1 DEF OpenRecordSized
  <2>1. current' # None
    BY <1>1, <1>2 DEF UsageInv, OpenRecordIsTrue
  <2>2. current' = turn
    BY <1>9, <2>1
  <2>3. Measured(current, asked, delivered)'
    BY <1>1, <1>12, <2>2 DEF Measured
  <2> QED
    BY <1>4, <1>7, <1>10, <2>3
<1> QED
  BY <1>17, <1>18, <1>19, <1>20 DEF SizeInv
-----------------------------------------------------------------------------
\* A text that is not JSON counts one restoration more, which is why SizeOfItsTurn does not say
\* anything of the restorations then.
LEMMA PlainSizes == ASSUME SizeInv, ServerPlain, UsageInv', TextInv' PROVE SizeInv'
<1>1. /\ phase = "relaying" /\ plain' = TRUE
      /\ current' = current \/ (current # None /\ current' = [current EXCEPT !.restored = @ + 1])
      /\ UNCHANGED <<session, phase, pending, restored, logs, asked, delivered, orderly, answered>>
  BY DEF ServerPlain
<1>2. current # None => Shaped(current)
  BY DEF SizeInv, UsageInv, TurnsInv, TurnTypes
<1>3. current'.turn = current.turn /\ current'.bytes = current.bytes /\ (current' # None => current # None)
  BY <1>1, <1>2 DEF Shaped
<1>4. \A t \in answered : current' # None => Measured(current, t, delivered)'
  BY <1>1, <1>3 DEF SizeInv, RecordsSized, Measured
<1>5. \A t \in answered : \A i \in DOMAIN logs' : Measured(logs[i], t, delivered)'
  BY <1>1 DEF SizeInv, RecordsSized, Measured
<1>6. Measured(current, asked, delivered) => Measured(current, asked, delivered)'
  BY <1>1, <1>3 DEF Measured
<1> QED
  BY <1>1, <1>4, <1>5, <1>6, SizeStays

\* Every step keeps what the records say of the sizes.
LEMMA SizeNext == SizeInv /\ [Next]_vars => SizeInv'
<1> SUFFICES ASSUME SizeInv, [Next]_vars PROVE SizeInv'
  OBVIOUS
<1>1. UsageInv' /\ TextInv'
  BY UsageNext, TextNext DEF SizeInv
<1>2. ASSUME NEW record, phase \in {"connecting", "upgrading", "tunnel"}, FinishConnection(record)
      PROVE  SizeInv'
  BY <1>1, <1>2, ConnectionSizes
<1>3. CASE Dropped
  BY <1>2, <1>3 DEF Dropped
<1>4. CASE Refused
  <2>1. PICK record : record = [fin EXCEPT !.status = 400]
    OBVIOUS
  <2> QED
    BY <1>2, <1>4, <2>1 DEF Refused
<1>5. ASSUME NEW error, TunnelEnds(error) PROVE SizeInv'
  <2>1. PICK record : record = [fin EXCEPT !.error = error]
    OBVIOUS
  <2> QED
    BY <1>2, <1>5, <2>1 DEF TunnelEnds
<1>6. CASE Switch \/ Upgraded
  <2>1. asked = 0
    BY <1>6 DEF Switch, Upgraded, SizeInv, UsageInv, TurnsInv, IInv
  <2> QED
    BY <1>1, <1>6, <2>1, SizeIdle DEF Switch, Upgraded, peers
<1>7. CASE \E error : Closes(error)
  BY <1>1, <1>7, SizeIdle DEF Closes, peers
<1>8. ASSUME NEW body, NEW ok, ClientRequest(body, ok) PROVE SizeInv'
  BY <1>1, <1>8, RequestSizes
<1>9. ASSUME NEW body, NEW ok, ClientText(body, ok) PROVE SizeInv'
  BY <1>1, <1>9, SizeIdle DEF ClientText, peers
<1>10. ASSUME NEW answer, Begin(answer) PROVE SizeInv'
  BY <1>1, <1>10, SizeIdle DEF Begin, relay
<1>11. ASSUME NEW n, ServerText(n) PROVE SizeInv'
  BY <1>1, <1>11, PartSizes, WholeSizes
<1>12. CASE GiveUp
  BY <1>1, <1>12, SizeIdle DEF GiveUp, relay
<1>13. CASE ServerPlain
  BY <1>1, <1>13, PlainSizes
<1>14. CASE OnClose
  BY <1>1, <1>14, OnCloseSizes
<1>15. CASE UNCHANGED vars
  BY <1>1, <1>15, SizeIdle DEF vars, relay, peers
<1> QED
  BY <1>3, <1>4, <1>5, <1>6, <1>7, <1>8, <1>9, <1>10, <1>11, <1>12, <1>13, <1>14, <1>15 DEF Next

\* The invariant is enough for the property.
LEMMA SizeIsOfItsTurn == SizeInv => AnswerToItsTurn
<1> SUFFICES ASSUME SizeInv PROVE AnswerToItsTurn
  OBVIOUS
<1>1. TextOfItsTurn
  BY DEF SizeInv, TextInv
<1>2. ASSUME NEW t
      PROVE  /\ SumFunction([k \in Keys |-> Len(delivered[t][k])]) = Total(Lengths(delivered[t]), Keys)
             /\ SumFunction([k \in Keys |-> Originals(delivered[t][k])]) = Total(OriginalsIn(delivered[t]), Keys)
  <2>1. DOMAIN Lengths(delivered[t]) = Keys /\ DOMAIN OriginalsIn(delivered[t]) = Keys
    BY DEF Lengths, OriginalsIn
  <2>2. /\ SumFunction(Lengths(delivered[t])) = Total(Lengths(delivered[t]), Keys)
        /\ SumFunction(OriginalsIn(delivered[t])) = Total(OriginalsIn(delivered[t]), Keys)
    BY <2>1, Zenon DEF SumFunction, Total
  <2> QED
    BY <2>2 DEF Lengths, OriginalsIn
<1>3. SizeOfItsTurn
  <2> SUFFICES ASSUME NEW t \in answered, NEW i \in RecordsOf(t)
               PROVE  /\ logs[i].bytes = Total(Lengths(delivered[t]), Keys)
                      /\ t = 1 /\ ~plain /\ session.restore =>
                           logs[i].restored = Total(OriginalsIn(delivered[t]), Keys)
    BY <1>2 DEF SizeOfItsTurn
  <2> QED
    BY DEF SizeInv, RecordsSized, RecordsOf, Measured
<1> QED
  BY <1>1, <1>3 DEF AnswerToItsTurn

\* What a client that waits gets for a turn, and what the record of the turn says of it, is the
\* answer to that turn (on_server_text, on_client_text and finish_turn of one connection that
\* serves all turns): its text restored as a whole, the size of all that was sent for it, what
\* was held back and sent before the last event included, and, for the first turn, as many
\* restorations as originals have come to the client.  This is for all answers that end with
\* their terminal event and whose events carry one text at most.
THEOREM AnswerIsOfItsTurn ==
    ASSUME NoneIsNoRecord, NoneIsNoUsage, NoneIsNoTail, AnswersReport, AnswersArrive
    PROVE  Spec => []AnswerToItsTurn
<1>1. Init => SizeInv
  BY SizeInit
<1>2. Spec => []SizeInv
  BY <1>1, SizeNext, PTL DEF Spec
<1> QED
  BY <1>2, SizeIsOfItsTurn, PTL
=============================================================================
