--------------------------- MODULE Exchange_proofs ---------------------------
(* Each forwarded exchange leaves one record, which tells what its client got; the client    *)
(* gets originals as it was to, whatever the other exchanges do to the table: for every      *)
(* number of requests, values and chunks, and every capacity.                                *)
EXTENDS Exchange, FiniteSetTheorems, SequenceTheorems, TLAPS

\* Where an exchange stands between the record it carries and the records it has left.
Standing(e, records) ==
    /\ e.phase \in {"new", "reading"} => e.log = None /\ e.sent = None /\ records = <<>>
    /\ e.phase = "reading" => e.value \in Values
    /\ e.phase \in {"connecting", "buffering", "streaming"} =>
          /\ e.log # None /\ e.sent # None /\ records = <<>>
          /\ e.chat /\ e.sent = "raw" => e.log.warned
    /\ e.phase = "over" =>
          /\ e.log = None
          /\ e.sent = None => records = <<>>
          /\ e.sent # None => Len(records) = 1
          /\ e.sent = "raw" /\ e.chat => records[1].warned

Accounted == \A x \in Requests : Standing(exchange[x], logs[x])

\* A step of one exchange: what it becomes, and the records it leaves.
Becomes(x, e, records) ==
    /\ exchange' = [exchange EXCEPT ![x] = e]
    /\ logs' = [logs EXCEPT ![x] = records]

Moved(x) ==
    \E e \in Exchange, records \in Seq(Log) : Becomes(x, e, records) /\ Standing(e, records)

LEMMA OneAtATime ==
    ASSUME TypeOK, Accounted, NEW x \in Requests, Moved(x)
    PROVE  /\ exchange' \in [Requests -> Exchange] /\ logs' \in [Requests -> Seq(Log)]
           /\ Accounted'
<1>1. PICK e \in Exchange, records \in Seq(Log) : Becomes(x, e, records) /\ Standing(e, records)
  BY DEF Moved
<1>2. /\ exchange' \in [Requests -> Exchange] /\ logs' \in [Requests -> Seq(Log)]
  BY <1>1 DEF TypeOK, Becomes
<1>3. \A y \in Requests : /\ exchange'[y] = IF y = x THEN e ELSE exchange[y]
                          /\ logs'[y] = IF y = x THEN records ELSE logs[y]
  BY <1>1 DEF TypeOK, Becomes
<1>4. \A y \in Requests : Standing(exchange'[y], logs'[y])
  BY <1>1, <1>3 DEF Accounted
<1> QED
  BY <1>2, <1>4 DEF Accounted

\* An exchange that goes on leaves no record.
LEMMA GoesOn ==
    ASSUME TypeOK, NEW x \in Requests, NEW e \in Exchange, Continue(x, e), UNCHANGED logs,
           Standing(e, logs[x])
    PROVE  Moved(x)
<1>1. Becomes(x, e, logs[x]) /\ logs[x] \in Seq(Log)
  BY DEF Continue, Becomes, TypeOK
<1> QED
  BY <1>1 DEF Moved

\* An exchange that ends leaves the record that it carries.
LEMMA Ends ==
    ASSUME TypeOK, NEW x \in Requests, NEW e \in Exchange, End(x, e),
           e.log = None => logs[x] = <<>> /\ e.sent = None,
           e.log # None => logs[x] = <<>> /\ e.sent # None /\ (e.chat /\ e.sent = "raw" => e.log.warned)
    PROVE  Moved(x)
<1> /\ <<>> \in Seq(Units) /\ <<>> \in Seq(Log)
  OBVIOUS
<1>1. Finished(e) \in Exchange
  BY DEF Finished, Exchange
<1>2. /\ Finished(e).phase = "over" /\ Finished(e).log = None
      /\ Finished(e).sent = e.sent /\ Finished(e).chat = e.chat
  BY DEF Finished, Exchange
<1>3. exchange' = [exchange EXCEPT ![x] = Finished(e)]
  BY DEF End, Continue
<1>4. CASE e.log = None
  <2>1. logs' = [logs EXCEPT ![x] = <<>>]
    BY <1>4 DEF End, Record, TypeOK
  <2>2. Becomes(x, Finished(e), <<>>) /\ Standing(Finished(e), <<>>)
    BY <1>2, <1>3, <1>4, <2>1, ExchangeAssumption DEF Becomes, Standing
  <2> QED
    BY <1>1, <2>2 DEF Moved
<1>5. CASE e.log # None
  <2>1. e.log \in Log
    BY <1>5 DEF Exchange
  <2>2. logs' = [logs EXCEPT ![x] = <<e.log>>]
    <3>1. logs' = [logs EXCEPT ![x] = Append(logs[x], e.log)]
      BY <1>5 DEF End, Record
    <3>2. logs[x] = <<>>
      BY <1>5
    <3>3. Append(<<>>, e.log) = <<e.log>>
      BY <2>1
    <3> QED
      BY <3>1, <3>2, <3>3
  <2>3. <<e.log>> \in Seq(Log) /\ Len(<<e.log>>) = 1 /\ <<e.log>>[1] = e.log
    BY <2>1
  <2>4. Becomes(x, Finished(e), <<e.log>>) /\ Standing(Finished(e), <<e.log>>)
    BY <1>2, <1>3, <1>5, <2>2, <2>3 DEF Becomes, Standing
  <2> QED
    BY <1>1, <2>3, <2>4 DEF Moved
<1> QED
  BY <1>4, <1>5

\* placeholder_for keeps the table within its capacity.
LEMMA IssueTypes ==
    ASSUME TypeOK, NEW v \in Values, Issue(v)
    PROVE  table' \in Seq(Values) /\ Len(table') <= Cap /\ lost' \subseteq Requests
<1>1. Cap \in Nat /\ Cap > 0 /\ table \in Seq(Values) /\ Len(table) <= Cap
  BY ExchangeAssumption DEF TypeOK
<1>5. lost' \subseteq Requests
  BY DEF Issue, TypeOK
<1>2. CASE Known(v)
  BY <1>1, <1>2, <1>5 DEF Issue
<1>3. CASE ~Known(v) /\ Len(table) = Cap
  <2>1. Tail(table) \in Seq(Values) /\ Len(Tail(table)) = Cap - 1
    BY <1>1, <1>3
  <2>2. table' = Append(Tail(table), v)
    BY <1>3 DEF Issue
  <2> QED
    BY <1>1, <1>5, <2>1, <2>2
<1>4. CASE ~Known(v) /\ Len(table) # Cap
  BY <1>1, <1>4, <1>5 DEF Issue
<1> QED
  BY <1>2, <1>3, <1>4
-----------------------------------------------------------------------------
\* What the invariants say of an exchange before each of its steps.
LEMMA Before ==
    ASSUME TypeOK, Accounted, NEW x \in Requests
    PROVE  /\ exchange[x] \in Exchange /\ Standing(exchange[x], logs[x])
           /\ NewExchange \in Exchange /\ EmptyLog \in Log /\ EmptyLog # None
<1> /\ <<>> \in Seq(Units) /\ <<>> \in Seq(Units \cup {"original"}) /\ MaxChunks \in Nat
  BY ExchangeAssumption
<1>1. EmptyLog \in Log
  BY DEF EmptyLog, Log
<1>3. EmptyLog # None
  BY <1>1, ExchangeAssumption
<1>2. NewExchange \in Exchange
  BY DEF NewExchange, Exchange
<1> QED
  BY <1>1, <1>2, <1>3 DEF TypeOK, Accounted

LEMMA LocalMoves ==
    ASSUME TypeOK, Accounted, NEW x \in Requests, Local(x)
    PROVE  Moved(x)
<1> DEFINE e == [NewExchange EXCEPT !.phase = "over"]
<1>1. e \in Exchange
  BY Before DEF Exchange
<1>2. Standing(e, logs[x])
  BY Before, ExchangeAssumption DEF Local, In, Standing, NewExchange
<1> QED
  BY <1>1, <1>2, GoesOn DEF Local

LEMMA HandleMoves ==
    ASSUME TypeOK, Accounted, NEW x \in Requests, NEW chat \in BOOLEAN, NEW v \in Values,
           Handle(x, chat, v)
    PROVE  Moved(x)
<1> DEFINE e == [NewExchange EXCEPT
            !.phase = "reading", !.chat = chat, !.value = v, !.restore = restore]
<1>1. e \in Exchange
  BY Before DEF Exchange, TypeOK
<1>2. Standing(e, logs[x])
  BY Before DEF Handle, In, Standing, NewExchange
<1> QED
  BY <1>1, <1>2, GoesOn DEF Handle

LEMMA RedactMoves ==
    ASSUME TypeOK, Accounted, NEW x \in Requests, Redact(x)
    PROVE  Moved(x)
<1> DEFINE e == [exchange[x] EXCEPT !.phase = "connecting", !.sent = "alias", !.log = EmptyLog]
<1>1. e \in Exchange
  BY Before, ZenonT(60) DEF Exchange
<1>2. Standing(e, logs[x])
  BY Before, ExchangeAssumption DEF Redact, In, Standing, Exchange
<1> QED
  BY <1>1, <1>2, GoesOn DEF Redact

LEMMA ForwardMoves ==
    ASSUME TypeOK, Accounted, NEW x \in Requests, Forward(x)
    PROVE  Moved(x)
<1> DEFINE log == [EmptyLog EXCEPT !.warned = exchange[x].chat]
           e == [exchange[x] EXCEPT !.phase = "connecting", !.sent = "raw", !.log = log]
<1>1. exchange[x].chat \in BOOLEAN
  BY Before DEF Exchange
<1>2. log \in Log /\ log.warned = exchange[x].chat
  BY <1>1 DEF Log, EmptyLog
<1>6. log # None
  BY <1>2, ExchangeAssumption
<1> HIDE DEF log
<1>3. e \in Exchange /\ e.log = log /\ e.chat = exchange[x].chat
  BY <1>2, Before, ZenonT(60) DEF Exchange
<1>4. Standing(e, logs[x])
  BY <1>2, <1>3, <1>6, Before, ExchangeAssumption, SMTT(60) DEF Forward, In, Standing, Exchange
<1>5. Continue(x, e) /\ UNCHANGED logs
  BY DEF Forward, log
<1> QED
  BY <1>3, <1>4, <1>5, GoesOn

LEMMA FailsMoves ==
    ASSUME TypeOK, Accounted, NEW x \in Requests, Fails(x)
    PROVE  Moved(x)
<1>1. End(x, exchange[x]) /\ exchange[x].log = None /\ exchange[x].sent = None /\ logs[x] = <<>>
  BY Before DEF Fails, In, Standing
<1> QED
  BY <1>1, Before, Ends

\* A record keeps its warning while other fields change.
LEMMA UnderWay ==
    ASSUME TypeOK, Accounted, NEW x \in Requests,
           In(x, "connecting") \/ In(x, "buffering") \/ In(x, "streaming")
    PROVE  /\ exchange[x] \in Exchange /\ exchange[x].log \in Log /\ exchange[x].sent # None
           /\ logs[x] = <<>>
           /\ exchange[x].chat /\ exchange[x].sent = "raw" => exchange[x].log.warned
<1>1. Standing(exchange[x], logs[x]) /\ exchange[x] \in Exchange
  BY Before
<1>2. exchange[x].log # None
  BY <1>1 DEF In, Standing
<1> QED
  BY <1>1, <1>2 DEF In, Standing, Exchange

LEMMA UpstreamFailsMoves ==
    ASSUME TypeOK, Accounted, NEW x \in Requests, UpstreamFails(x)
    PROVE  Moved(x)
<1> DEFINE log == [exchange[x].log EXCEPT !.error = TRUE]
           e == [exchange[x] EXCEPT !.log = log]
<1>1. exchange[x] \in Exchange /\ exchange[x].log \in Log /\ exchange[x].sent # None
      /\ logs[x] = <<>> /\ (exchange[x].chat /\ exchange[x].sent = "raw" => exchange[x].log.warned)
  BY UnderWay DEF UpstreamFails
<1>2. log \in Log /\ log.warned = exchange[x].log.warned
  BY <1>1 DEF Log
<1>3. log # None
  BY <1>2, ExchangeAssumption
<1>4. End(x, e)
  BY DEF UpstreamFails
<1> HIDE DEF log
<1>5. e \in Exchange /\ e.log = log /\ e.chat = exchange[x].chat /\ e.sent = exchange[x].sent
  BY <1>1, <1>2 DEF Exchange
<1> QED
  BY <1>1, <1>2, <1>3, <1>4, <1>5, Ends

LEMMA LeaveMoves ==
    ASSUME TypeOK, Accounted, NEW x \in Requests, Leave(x)
    PROVE  Moved(x)
<1> DEFINE e == [exchange[x] EXCEPT !.left = TRUE]
<1>1. e \in Exchange /\ e.log = exchange[x].log /\ e.chat = exchange[x].chat
      /\ e.sent = exchange[x].sent
  BY Before, ZenonT(60) DEF Exchange
<1>2. End(x, e)
  BY DEF Leave
<1>3. CASE In(x, "reading")
  <2>1. e.log = None /\ e.sent = None /\ logs[x] = <<>>
    BY <1>1, <1>3, Before DEF In, Standing
  <2> QED
    BY <1>1, <1>2, <2>1, Ends
<1>4. CASE In(x, "connecting") \/ In(x, "buffering") \/ In(x, "streaming")
  <2>1. e.log \in Log /\ e.sent # None /\ logs[x] = <<>>
        /\ (e.chat /\ e.sent = "raw" => e.log.warned)
    BY <1>1, <1>4, UnderWay
  <2>2. e.log # None
    BY <2>1, ExchangeAssumption
  <2> QED
    BY <1>1, <1>2, <2>1, <2>2, Ends
<1> QED
  BY <1>3, <1>4 DEF Leave, In

LEMMA UpstreamRespondsMoves ==
    ASSUME TypeOK, Accounted, NEW x \in Requests, NEW sse \in BOOLEAN, UpstreamResponds(x, sse)
    PROVE  Moved(x)
<1> DEFINE f == exchange[x]
           log == [f.log EXCEPT !.warned = @ \/ (f.chat /\ ~f.restore)]
           phase == IF f.chat /\ ~sse THEN "buffering" ELSE "streaming"
           e == [f EXCEPT !.phase = phase, !.log = log]
<1>1. f \in Exchange /\ f.log \in Log /\ f.sent # None
      /\ logs[x] = <<>> /\ (f.chat /\ f.sent = "raw" => f.log.warned)
  BY UnderWay DEF UpstreamResponds
<1>2. log \in Log /\ (f.log.warned => log.warned)
  BY <1>1 DEF Log, Exchange
<1>3. log # None
  BY <1>2, ExchangeAssumption
<1>4. Continue(x, e) /\ UNCHANGED logs
  BY DEF UpstreamResponds
<1> HIDE DEF log
<1>5. /\ e \in Exchange /\ e.log = log /\ e.chat = f.chat /\ e.sent = f.sent
      /\ e.phase \in {"buffering", "streaming"}
  BY <1>1, <1>2 DEF Exchange
<1>6. Standing(e, logs[x])
  BY <1>1, <1>2, <1>3, <1>5 DEF Standing
<1> QED
  BY <1>4, <1>5, <1>6, GoesOn
-----------------------------------------------------------------------------
\* What a client may get.
Text == Seq(Units \cup {"original"})

LEMMA OriginalsIsNat == \A text \in Text : Originals(text) \in Nat
<1> SUFFICES ASSUME NEW text \in Text PROVE Originals(text) \in Nat
  OBVIOUS
<1> DEFINE S == {i \in DOMAIN text : text[i] = "original"}
<1>1. Len(text) \in Nat /\ S \subseteq 1 .. Len(text)
  BY DEF Text
<1>2. IsFiniteSet(S)
  BY <1>1, FS_Interval, FS_Subset
<1> QED
  BY <1>2, FS_CardinalityType DEF Originals

\* What delivering a text, and closing the record of a stream, change and what they leave.
LEMMA DeliverIs ==
    ASSUME NEW e \in Exchange, e.log \in Log, NEW text \in Text
    PROVE  LET f == Deliver(e, text) IN
           /\ f \in Exchange /\ f.log \in Log
           /\ f.client = e.client \o text /\ f.client \in Text
           /\ f.log.bytes = e.log.bytes + Len(text) /\ f.log.error = e.log.error
           /\ f.log.warned = e.log.warned
           /\ f.log.restored = e.log.restored /\ f.log.usage = e.log.usage
           /\ f.phase = e.phase /\ f.chat = e.chat /\ f.value = e.value /\ f.restore = e.restore
           /\ f.sent = e.sent /\ f.carry = e.carry /\ f.chunks = e.chunks /\ f.left = e.left
           /\ f.restored = e.restored /\ f.usage = e.usage
<1> DEFINE log == [e.log EXCEPT !.bytes = @ + Len(text)]
           client == e.client \o text
<1>1. log \in Log /\ log.bytes = e.log.bytes + Len(text) /\ log.error = e.log.error
      /\ log.warned = e.log.warned /\ log.restored = e.log.restored /\ log.usage = e.log.usage
  BY DEF Log, Text
<1>2. client \in Text
  BY DEF Exchange, Text
<1>3. Deliver(e, text) = [e EXCEPT !.client = client, !.log = log]
  BY DEF Deliver, Exchange
<1> HIDE DEF log
<1>4. client = e.client \o text
  OBVIOUS
<1> HIDE DEF client
<1> QED
  BY <1>1, <1>2, <1>3, <1>4 DEF Exchange, Text

LEMMA FinalizeIs ==
    ASSUME NEW e \in Exchange, e.log \in Log
    PROVE  LET f == Finalize(e) IN
           /\ f \in Exchange /\ f.log \in Log
           /\ f.log.bytes = e.log.bytes + Len(e.carry)
           /\ f.log.restored = IF Restores(e) THEN e.restored ELSE e.log.restored
           /\ f.log.usage = IF e.usage THEN TRUE ELSE e.log.usage
           /\ f.log.error = e.log.error /\ f.log.warned = e.log.warned
           /\ f.client = e.client
           /\ f.phase = e.phase /\ f.chat = e.chat /\ f.value = e.value /\ f.restore = e.restore
           /\ f.sent = e.sent /\ f.carry = e.carry /\ f.chunks = e.chunks /\ f.left = e.left
<1> DEFINE usage == IF e.usage THEN TRUE ELSE e.log.usage
           restored == IF Restores(e) THEN e.restored ELSE e.log.restored
           bytes == e.log.bytes + Len(e.carry)
           log == [e.log EXCEPT !.bytes = bytes, !.restored = restored, !.usage = usage]
<1>1. restored \in Nat /\ bytes \in Nat /\ usage \in BOOLEAN
  <2>1. Len(e.carry) \in Nat /\ e.restored \in Nat /\ e.usage \in BOOLEAN
    BY DEF Exchange
  <2>2. e.log.bytes \in Nat /\ e.log.restored \in Nat /\ e.log.usage \in BOOLEAN
    BY DEF Log
  <2>3. restored \in Nat /\ usage \in BOOLEAN
    BY <2>1, <2>2, Zenon
  <2>4. bytes \in Nat
    BY <2>1, <2>2
  <2> QED
    BY <2>3, <2>4
<1>2. Finalize(e) = [e EXCEPT !.log = log]
  BY DEF Finalize, Exchange
<1>3. /\ usage = (IF e.usage THEN TRUE ELSE e.log.usage) /\ bytes = e.log.bytes + Len(e.carry)
      /\ restored = IF Restores(e) THEN e.restored ELSE e.log.restored
  OBVIOUS
<1> HIDE DEF usage, restored, bytes
<1>4. /\ log \in Log /\ log.bytes = bytes /\ log.restored = restored /\ log.usage = usage
      /\ log.error = e.log.error
      /\ log.warned = e.log.warned
  BY <1>1 DEF Log
<1> HIDE DEF log
<1>5. /\ Finalize(e) \in Exchange /\ Finalize(e).log = log /\ Finalize(e).client = e.client
      /\ Finalize(e).phase = e.phase /\ Finalize(e).chat = e.chat /\ Finalize(e).value = e.value
      /\ Finalize(e).restore = e.restore /\ Finalize(e).sent = e.sent /\ Finalize(e).carry = e.carry
      /\ Finalize(e).chunks = e.chunks /\ Finalize(e).left = e.left
  BY <1>2, <1>4 DEF Exchange
<1> QED
  BY <1>3, <1>4, <1>5, Zenon

\* An exchange under way that ends with another record, typed and as warned as before.
LEMMA EndsUnderWay ==
    ASSUME TypeOK, Accounted, NEW x \in Requests, In(x, "buffering") \/ In(x, "streaming"),
           NEW e \in Exchange, End(x, e), e.log \in Log, e.log.warned = exchange[x].log.warned,
           e.chat = exchange[x].chat, e.sent = exchange[x].sent
    PROVE  Moved(x)
<1>1. e.log # None
  BY ExchangeAssumption
<1> QED
  BY <1>1, UnderWay, Ends

LEMMA BufferedMoves ==
    ASSUME TypeOK, Accounted, NEW x \in Requests, NEW text \in Bodies, Buffered(x, text)
    PROVE  Moved(x)
<1> DEFINE f == exchange[x]
           restored == IF Restores(f) THEN Restore(f, text) ELSE text
           g == Deliver(f, restored)
           usage == Reports(restored)
           error == Has(restored, "fault")
           log == [g.log EXCEPT !.restored = Originals(restored), !.usage = usage, !.error = error]
           e == [g EXCEPT !.log = log]
<1>1. restored \in Text
  <2>1. text \in Seq(Units)
    BY ExchangeAssumption
  <2>2. text \in Text /\ <<"original">> \in Text
    BY <2>1 DEF Text
  <2> QED
    BY <2>2 DEF Restore
<1>2. f \in Exchange /\ f.log \in Log
  BY UnderWay DEF Buffered
<1>3. g \in Exchange /\ g.log \in Log /\ g.log.warned = f.log.warned
      /\ g.chat = f.chat /\ g.sent = f.sent
  BY <1>1, <1>2, DeliverIs
<1>4. Originals(restored) \in Nat
  BY <1>1, OriginalsIsNat
<1>5. End(x, [g EXCEPT !.log.restored = Originals(restored), !.log.usage = usage, !.log.error = error])
  BY DEF Buffered
<1>9. usage \in BOOLEAN /\ error \in BOOLEAN
  BY DEF Reports, Has
<1> HIDE DEF restored, g, usage, error
<1>6. log \in Log /\ log.warned = f.log.warned
  BY <1>3, <1>4, <1>9 DEF Log
<1>7. [g EXCEPT !.log.restored = Originals(restored), !.log.usage = usage, !.log.error = error] = e
  BY <1>3 DEF Exchange
<1> HIDE DEF log
<1>8. e \in Exchange /\ e.log = log /\ e.chat = f.chat /\ e.sent = f.sent
  BY <1>3, <1>6 DEF Exchange
<1> QED
  BY <1>5, <1>6, <1>7, <1>8, EndsUnderWay DEF Buffered

LEMMA ChunkMoves ==
    ASSUME TypeOK, Accounted, NEW x \in Requests, NEW unit \in Units, Chunk(x, unit)
    PROVE  Moved(x)
<1> DEFINE f == exchange[x]
           text == IF Restores(f) THEN Restore(f, Append(f.carry, unit)) ELSE <<unit>>
           hold == IF Restores(f) /\ unit = "start" THEN 1 ELSE 0
           sent == SubSeq(text, 1, Len(text) - hold)
           carry == SubSeq(text, Len(text) - hold + 1, Len(text))
           g == Deliver(f, sent)
           restored == g.restored + Originals(text)
           usage == g.usage \/ (f.chat /\ Reports(<<unit>>))
           e == [g EXCEPT !.chunks = @ + 1, !.carry = carry, !.restored = restored, !.usage = usage]
<1>1. f \in Exchange /\ f.log \in Log
  BY UnderWay DEF Chunk
<1>2. Append(f.carry, unit) \in Seq(Units) /\ f.carry \in Seq(Units)
  BY <1>1 DEF Exchange
<1>3. text \in Text
  <2>1. Append(f.carry, unit) \in Text /\ <<unit>> \in Text /\ <<"original">> \in Text
    BY <1>2 DEF Text
  <2> HIDE DEF f
  <2> QED
    BY <2>1 DEF Restore
<1>4. sent \in Text
  <2>1. Len(text) \in Nat /\ \A i \in 1 .. Len(text) : text[i] \in Units \cup {"original"}
    BY <1>3 DEF Text
  <2>2. hold \in {0, 1}
    OBVIOUS
  <2> HIDE DEF text, hold
  <2> QED
    BY <1>3, <2>1, <2>2, SubSeqProperties DEF Text
<1>5. carry \in Seq(Units)
  <2>1. CASE hold = 0
    <3>1. carry = SubSeq(text, Len(text) + 1, Len(text)) /\ Len(text) \in Nat
      <4>1. Len(text) \in Nat
        BY <1>3 DEF Text
      <4> HIDE DEF text, hold
      <4> QED
        BY <2>1, <4>1
    <3>2. Len(carry) = 0 /\ carry \in Text
      <4> HIDE DEF text, carry
      <4> QED
        BY <1>3, <3>1, SubSeqProperties DEF Text
    <3> HIDE DEF carry
    <3> QED
      BY <3>2 DEF Text
  <2>2. CASE hold # 0
    <3>1. Restores(f) /\ unit = "start" /\ hold = 1
      BY <2>2
    <3>2. Append(f.carry, unit) # Alias
      <4>1. Append(f.carry, unit)[Len(f.carry) + 1] = "start" /\ Len(Append(f.carry, unit)) = Len(f.carry) + 1
        BY <1>2, <3>1
      <4>2. Len(Alias) = 2 /\ Alias[2] = "end"
        BY DEF Alias
      <4> QED
        BY <4>1, <4>2
    <3>3. text = Append(f.carry, unit)
      BY <3>1, <3>2 DEF Restore
    <3>4. carry = SubSeq(text, Len(text), Len(text)) /\ Len(text) \in Nat /\ Len(text) > 0
      BY <1>2, <3>1, <3>3
    <3> HIDE DEF text, carry
    <3> QED
      BY <1>2, <3>3, <3>4, SubSeqProperties
  <2> QED
    BY <2>1, <2>2
<1>6. g \in Exchange /\ g.log \in Log /\ g.log.warned = f.log.warned
      /\ g.phase = f.phase /\ g.chat = f.chat /\ g.sent = f.sent
  BY <1>1, <1>4, DeliverIs, ZenonT(60)
<1>7. g.chunks = f.chunks /\ f.chunks \in 0 .. MaxChunks /\ f.chunks < MaxChunks /\ MaxChunks \in Nat
  BY <1>1, ExchangeAssumption DEF Chunk, Deliver, Exchange
<1>11. restored \in Nat /\ usage \in BOOLEAN
  <2>1. Originals(text) \in Nat
    BY <1>3, OriginalsIsNat
  <2>2. g.restored \in Nat /\ g.usage \in BOOLEAN /\ f.chat \in BOOLEAN
    <3> HIDE DEF f, g
    <3> QED
      BY <1>1, <1>6 DEF Exchange
  <2>3. Reports(<<unit>>) \in BOOLEAN
    BY DEF Reports, Has
  <2> HIDE DEF text, g, f
  <2> QED
    BY <2>1, <2>2, <2>3
<1>8. Continue(x, e) /\ UNCHANGED logs
  BY DEF Chunk
<1> HIDE DEF text, hold, sent, carry, g, restored, usage
<1>9. e \in Exchange /\ e.log = g.log /\ e.chat = f.chat /\ e.sent = f.sent /\ e.phase = f.phase
  <2>1. f.chunks + 1 \in 0 .. MaxChunks
    BY <1>7
  <2>2. g.chunks + 1 \in 0 .. MaxChunks
    BY <1>7, <2>1
  <2> QED
    BY <1>5, <1>6, <1>11, <2>2 DEF Exchange
<1>10. Standing(e, logs[x])
  BY <1>6, <1>9, UnderWay, ExchangeAssumption DEF Chunk, In, Standing
<1> QED
  BY <1>8, <1>9, <1>10, GoesOn

LEMMA StreamEndsMoves ==
    ASSUME TypeOK, Accounted, NEW x \in Requests, StreamEnds(x)
    PROVE  Moved(x)
<1> DEFINE f == exchange[x]
           g == Finalize(f)
           e == [g EXCEPT !.client = @ \o f.carry]
<1>1. f \in Exchange /\ f.log \in Log
  BY UnderWay DEF StreamEnds
<1>2. g \in Exchange /\ g.log \in Log /\ g.log.warned = f.log.warned
      /\ g.chat = f.chat /\ g.sent = f.sent
  BY <1>1, FinalizeIs
<1>3. End(x, e)
  BY DEF StreamEnds
<1> HIDE DEF g
<1>4. e \in Exchange /\ e.log = g.log /\ e.chat = f.chat /\ e.sent = f.sent
  <2>1. g.client \o f.carry \in Text
    BY <1>1, <1>2 DEF Exchange, Text
  <2> QED
    BY <1>2, <2>1 DEF Exchange, Text
<1> QED
  BY <1>2, <1>3, <1>4, EndsUnderWay DEF StreamEnds

LEMMA StreamBreaksMoves ==
    ASSUME TypeOK, Accounted, NEW x \in Requests, StreamBreaks(x)
    PROVE  Moved(x)
<1> DEFINE f == exchange[x]
           g == Finalize(f)
           log == [g.log EXCEPT !.error = TRUE]
           e == [g EXCEPT !.log = log]
<1>1. f \in Exchange /\ f.log \in Log
  BY UnderWay DEF StreamBreaks
<1>2. g \in Exchange /\ g.log \in Log /\ g.log.warned = f.log.warned
      /\ g.chat = f.chat /\ g.sent = f.sent
  BY <1>1, FinalizeIs
<1>3. End(x, e)
  BY DEF StreamBreaks
<1> HIDE DEF g
<1>4. log \in Log /\ log.warned = f.log.warned
  BY <1>2 DEF Log
<1> HIDE DEF log
<1>5. e \in Exchange /\ e.log = log /\ e.chat = f.chat /\ e.sent = f.sent
  BY <1>2, <1>4 DEF Exchange
<1> QED
  BY <1>3, <1>4, <1>5, EndsUnderWay DEF StreamBreaks
-----------------------------------------------------------------------------
LEMMA StepKeeps ==
    TypeOK /\ Accounted /\ [Next]_vars => TypeOK' /\ Accounted'
<1> SUFFICES ASSUME TypeOK, Accounted, [Next]_vars
    PROVE  TypeOK' /\ Accounted'
  OBVIOUS
\* Steps that leave the table as it is.
<1>1. ASSUME NEW x \in Requests, Moved(x), restore' \in BOOLEAN, table' = table, lost' = lost
      PROVE  TypeOK' /\ Accounted'
  BY <1>1, OneAtATime DEF TypeOK
\* Steps that issue an alias.
<1>2. ASSUME NEW x \in Requests, Moved(x), restore' \in BOOLEAN, NEW v \in Values, Issue(v)
      PROVE  TypeOK' /\ Accounted'
  BY <1>2, OneAtATime, IssueTypes DEF TypeOK
<1>3. restore \in BOOLEAN
  BY DEF TypeOK
<1>4. ASSUME NEW x \in Requests, Local(x)
      PROVE  TypeOK' /\ Accounted'
  BY <1>1, <1>3, <1>4, LocalMoves, ZenonT(60) DEF Local
<1>5. ASSUME NEW x \in Requests, NEW chat \in BOOLEAN, NEW v \in Values, Handle(x, chat, v)
      PROVE  TypeOK' /\ Accounted'
  BY <1>1, <1>3, <1>5, HandleMoves, ZenonT(60) DEF Handle
<1>6. ASSUME NEW x \in Requests, Redact(x)
      PROVE  TypeOK' /\ Accounted'
  <2>1. exchange[x].value \in Values
    BY <1>6, Before DEF Redact, In, Standing
  <2> QED
    BY <1>2, <1>3, <1>6, <2>1, RedactMoves, ZenonT(60) DEF Redact
<1>7. ASSUME NEW x \in Requests, Forward(x)
      PROVE  TypeOK' /\ Accounted'
  BY <1>1, <1>3, <1>7, ForwardMoves, ZenonT(60) DEF Forward
<1>8. ASSUME NEW x \in Requests, Fails(x)
      PROVE  TypeOK' /\ Accounted'
  <2>1. exchange[x].value \in Values
    BY <1>8, Before DEF Fails, In, Standing
  <2>2. UNCHANGED <<table, lost>> \/ Issue(exchange[x].value)
    BY <1>8 DEF Fails
  <2>3. restore' \in BOOLEAN /\ Moved(x)
    BY <1>3, <1>8, FailsMoves DEF Fails
  <2> QED
    BY <1>1, <1>2, <2>1, <2>2, <2>3
<1>9. ASSUME NEW x \in Requests, UpstreamFails(x)
      PROVE  TypeOK' /\ Accounted'
  BY <1>1, <1>3, <1>9, UpstreamFailsMoves, ZenonT(60) DEF UpstreamFails
<1>10. ASSUME NEW x \in Requests, NEW sse \in BOOLEAN, UpstreamResponds(x, sse)
      PROVE  TypeOK' /\ Accounted'
  BY <1>1, <1>3, <1>10, UpstreamRespondsMoves, ZenonT(60) DEF UpstreamResponds
<1>11. ASSUME NEW x \in Requests, NEW text \in Bodies, Buffered(x, text)
      PROVE  TypeOK' /\ Accounted'
  BY <1>1, <1>3, <1>11, BufferedMoves, ZenonT(60) DEF Buffered
<1>12. ASSUME NEW x \in Requests, NEW unit \in Units, Chunk(x, unit)
      PROVE  TypeOK' /\ Accounted'
  BY <1>1, <1>3, <1>12, ChunkMoves, ZenonT(60) DEF Chunk
<1>13. ASSUME NEW x \in Requests, StreamEnds(x)
      PROVE  TypeOK' /\ Accounted'
  BY <1>1, <1>3, <1>13, StreamEndsMoves, ZenonT(60) DEF StreamEnds
<1>14. ASSUME NEW x \in Requests, StreamBreaks(x)
      PROVE  TypeOK' /\ Accounted'
  BY <1>1, <1>3, <1>14, StreamBreaksMoves, ZenonT(60) DEF StreamBreaks
<1>15. ASSUME NEW x \in Requests, Leave(x)
      PROVE  TypeOK' /\ Accounted'
  BY <1>1, <1>3, <1>15, LeaveMoves, ZenonT(60) DEF Leave
<1>16. CASE UpdateConfig
  <2>1. restore' \in BOOLEAN
    BY <1>3, <1>16 DEF UpdateConfig
  <2> QED
    BY <1>16, <2>1 DEF UpdateConfig, TypeOK, Accounted
<1>17. CASE UNCHANGED vars
  BY <1>17 DEF vars, TypeOK, Accounted
<1> QED
  BY <1>4, <1>5, <1>6, <1>7, <1>8, <1>9, <1>10, <1>11, <1>12, <1>13, <1>14, <1>15, <1>16, <1>17
  DEF Next

LEMMA Initially == Init => TypeOK /\ Accounted
<1> SUFFICES ASSUME Init PROVE TypeOK /\ Accounted
  OBVIOUS
<1>1. NewExchange \in Exchange
  BY ExchangeAssumption DEF NewExchange, Exchange
<1>2. TypeOK
  BY <1>1, ExchangeAssumption DEF Init, TypeOK
<1>3. Accounted
  BY DEF Init, Accounted, Standing, NewExchange
<1> QED
  BY <1>2, <1>3

\* The inductive invariant: an exchange under way carries the one record it will leave, and
\* a record of a chat request that went out as it came is born with its warning.
THEOREM Accounting == Spec => [](TypeOK /\ Accounted)
<1>1. Init => TypeOK /\ Accounted
  BY Initially
<1>2. TypeOK /\ Accounted /\ [Next]_vars => TypeOK' /\ Accounted'
  BY StepKeeps
<1> QED
  BY <1>1, <1>2, PTL DEF Spec

\* The table stays within its capacity and every exchange keeps its type.
THEOREM TypeCorrect == Spec => []TypeOK
  BY Accounting, PTL

\* An exchange that was forwarded leaves exactly one record, on each of its ways out.
THEOREM OneRecordEach == Spec => []LoggedOnce
<1>1. TypeOK /\ Accounted => LoggedOnce
  <2> SUFFICES ASSUME TypeOK, Accounted, NEW x \in Requests
      PROVE  Len(logs[x]) = IF In(x, "over") /\ exchange[x].sent # None THEN 1 ELSE 0
    BY DEF LoggedOnce
  <2>1. exchange[x] \in Exchange /\ Standing(exchange[x], logs[x])
    BY DEF TypeOK, Accounted
  <2> QED
    BY <2>1 DEF Standing, In, Exchange
<1> QED
  BY <1>1, Accounting, PTL

\* A chat request that went out as it came is recorded with a warning.
THEOREM RawCarriesWarning == Spec => []RawIsWarned
<1>1. TypeOK /\ Accounted => RawIsWarned
  <2> SUFFICES ASSUME TypeOK, Accounted, NEW x \in Requests, NEW i \in DOMAIN logs[x],
                      exchange[x].chat, exchange[x].sent = "raw"
      PROVE  logs[x][i].warned
    BY DEF RawIsWarned
  <2>1. exchange[x] \in Exchange /\ Standing(exchange[x], logs[x])
    BY DEF TypeOK, Accounted
  <2>2. "raw" # None /\ DOMAIN logs[x] = 1 .. Len(logs[x])
    BY ExchangeAssumption DEF TypeOK
  <2>3. exchange[x].phase = "over" /\ Len(logs[x]) = 1
    BY <2>1, <2>2 DEF Standing, Exchange
  <2>4. i = 1
    BY <2>2, <2>3
  <2> QED
    BY <2>1, <2>3, <2>4 DEF Standing
<1> QED
  BY <1>1, Accounting, PTL
-----------------------------------------------------------------------------
\* What the record of an exchange that was read to its end says of it.
Tells(log, e) ==
    /\ log.bytes = Len(e.client)
    /\ log.restored = Originals(e.client)
    /\ log.usage <=> e.chat /\ Reports(e.client)

\* A record that tells nothing yet; one whose stream has been counted so far.
Blank(log) == ~log.error /\ log.bytes = 0 /\ log.restored = 0 /\ ~log.usage
Counted(e) ==
    /\ ~e.log.error /\ e.log.bytes = Len(e.client) /\ e.log.restored = 0 /\ ~e.log.usage
    /\ e.restored = Originals(e.client)
    /\ e.usage <=> e.chat /\ Reports(e.client)

\* What an exchange and its records have to do with what its client got.
Truth(e, records) ==
    /\ e.phase = "new" => e = NewExchange
    /\ e.phase \in {"reading", "connecting", "buffering"} =>
          e.client = <<>> /\ e.carry = <<>> /\ e.restored = 0 /\ ~e.usage /\ ~e.left
    /\ e.phase \in {"connecting", "buffering"} => Blank(e.log)
    /\ e.phase = "buffering" => e.chat
    /\ e.phase = "streaming" => ~e.left /\ Counted(e)
    /\ e.phase = "over" =>
          \A i \in DOMAIN records : ~records[i].error /\ ~e.left => Tells(records[i], e)
    /\ ~Restores(e) => e.client \in Seq(Units) /\ e.carry = <<>>
    /\ e.carry \in {<<>>, <<"start">>}
Truthful == \A x \in Requests : Truth(exchange[x], logs[x])

\* No alias in the text that a client got, and none that the next chunk completes.
NoPair(text) == \A i \in 1 .. Len(text) - 1 : ~(text[i] = "start" /\ text[i + 1] = "end")
OpenEnd(text) == text # <<>> /\ text[Len(text)] = "start"
Smooth(e) ==
    Restores(e) =>
        NoPair(e.client) /\ (e.phase = "streaming" /\ OpenEnd(e.client) => e.carry = <<"start">>)

\* How an exchange e goes on as f: it keeps what it is for, and what was restored stays restored.
Carries(e, f) ==
    /\ f.chat = e.chat /\ f.value = e.value /\ f.restore = e.restore
    /\ \/ f.sent = e.sent
       \/ /\ f.client = <<>>
          /\ f.sent = "alias" => e.chat /\ e.value \in Values /\ Issue(e.value)
    /\ Known(e.value) /\ Smooth(e) => Smooth(f)
Progress(x) ==
    \E f \in Exchange, records \in Seq(Log) :
        Becomes(x, f, records) /\ Truth(f, records) /\ Carries(exchange[x], f)
-----------------------------------------------------------------------------
LEMMA OneMore == ASSUME NEW S, NEW c \in Seq(S), NEW u \in S
                 PROVE  /\ Append(c, u) \in Seq(S) /\ Len(Append(c, u)) = Len(c) + 1
                        /\ Append(c, u)[Len(c) + 1] = u
                        /\ \A i \in 1 .. Len(c) : Append(c, u)[i] = c[i]
  OBVIOUS

LEMMA OneIn == ASSUME NEW S, NEW u \in S
               PROVE  /\ <<u>> \in Seq(S) /\ Len(<<u>>) = 1 /\ <<u>>[1] = u /\ Append(<<>>, u) = <<u>>
                      /\ \A v \in S : /\ Append(<<u>>, v) = <<u, v>> /\ <<u, v>> \in Seq(S)
                                       /\ <<v>> # <<u, v>>
<1>1. <<u>> \in Seq(S) /\ Len(<<u>>) = 1 /\ <<u>>[1] = u /\ <<>> \in Seq(S) /\ Len(<<>>) = 0
  OBVIOUS
<1>2. Append(<<>>, u) \in Seq(S) /\ Len(Append(<<>>, u)) = 1 /\ Append(<<>>, u)[1] = u
  BY <1>1, OneMore
<1>3. Append(<<>>, u) = <<u>>
  BY <1>1, <1>2, SeqEqual
<1>4. ASSUME NEW v \in S
      PROVE  Append(<<u>>, v) = <<u, v>> /\ <<u, v>> \in Seq(S) /\ <<v>> # <<u, v>>
  <2>1. /\ <<u, v>> \in Seq(S) /\ Len(<<u, v>>) = 2 /\ <<u, v>>[1] = u /\ <<u, v>>[2] = v
        /\ Len(<<v>>) = 1
    OBVIOUS
  <2>2. /\ Append(<<u>>, v) \in Seq(S) /\ Len(Append(<<u>>, v)) = 2
        /\ Append(<<u>>, v)[1] = u /\ Append(<<u>>, v)[2] = v
    BY <1>1, OneMore
  <2>3. Append(<<u>>, v) = <<u, v>>
    <3>1. \A i \in 1 .. 2 : i = 1 \/ i = 2
      OBVIOUS
    <3> QED
      BY <2>1, <2>2, <3>1, SeqEqual
  <2> QED
    BY <2>1, <2>3
<1> QED
  BY <1>1, <1>3, <1>4

LEMMA WholeAndNothing ==
    ASSUME NEW S, NEW text \in Seq(S)
    PROVE  SubSeq(text, 1, Len(text) - 0) = text /\ SubSeq(text, Len(text) - 0 + 1, Len(text)) = <<>>
<1> DEFINE a == SubSeq(text, 1, Len(text))
<1>1. Len(text) \in Nat /\ Len(text) - 0 = Len(text) /\ \A i \in 1 .. Len(text) : text[i] \in S
  OBVIOUS
<1>2. /\ a \in Seq(S) /\ Len(a) = Len(text)
      /\ \A i \in 1 .. Len(text) : a[i] = text[i]
  BY <1>1, SubSeqProperties
<1>3. a = text
  BY <1>2, SeqEqual
<1>4. SubSeq(text, Len(text) + 1, Len(text)) = <<>>
  BY <1>1, SubSeqEmpty
<1> QED
  BY <1>1, <1>3, <1>4

LEMMA AllButLast ==
    ASSUME NEW S, NEW c \in Seq(S), NEW u \in S, NEW text, text = Append(c, u)
    PROVE  SubSeq(text, 1, Len(text) - 1) = c /\ SubSeq(text, Len(text) - 1 + 1, Len(text)) = <<u>>
<1> DEFINE a == SubSeq(text, 1, Len(c))  b == SubSeq(text, Len(c) + 1, Len(c) + 1)
<1>1. /\ Len(c) \in Nat /\ text \in Seq(S) /\ Len(text) = Len(c) + 1 /\ text[Len(c) + 1] = u
      /\ \A i \in 1 .. Len(c) : text[i] = c[i]
  BY OneMore
<1>2. \A i \in 1 .. Len(c) + 1 : text[i] \in S
  BY <1>1
<1>3. a \in Seq(S) /\ Len(a) = Len(c) /\ \A i \in 1 .. Len(c) : a[i] = text[i]
  BY <1>1, <1>2, SubSeqProperties
<1>4. a = c
  BY <1>1, <1>3, SeqEqual
<1>5. b \in Seq(S) /\ Len(b) = 1 /\ b[1] = text[Len(c) + 1]
  BY <1>1, <1>2, SubSeqProperties
<1>6. b = <<u>>
  <2> HIDE DEF b
  <2>1. Len(b) = Len(<<u>>) /\ \A i \in 1 .. Len(b) : b[i] = <<u>>[i]
    BY <1>1, <1>5
  <2> QED
    BY <1>5, <2>1, OneIn, SeqEqual
<1>7. Len(text) - 1 = Len(c) /\ Len(text) - 1 + 1 = Len(c) + 1
  BY <1>1
<1> QED
  BY <1>1, <1>4, <1>6, <1>7

\* What a chunk of one unit delivers and holds back.
Piece(e, unit, piece, carry) ==
    \/ ~Restores(e) /\ piece = <<unit>> /\ carry = <<>>
    \/ /\ Restores(e) /\ e.carry = <<>>
       /\ \/ unit = "start" /\ piece = <<>> /\ carry = <<"start">>
          \/ unit # "start" /\ piece = <<unit>> /\ carry = <<>>
    \/ /\ Restores(e) /\ e.carry = <<"start">>
       /\ \/ unit = "start" /\ piece = <<"start">> /\ carry = <<"start">>
          \/ /\ unit # "start" /\ carry = <<>>
             /\ piece = IF unit = "end" /\ Known(e.value) THEN <<"original">> ELSE <<"start", unit>>

LEMMA TwoEqual == ASSUME NEW S, NEW a \in S, NEW b \in S, NEW c \in S
                  PROVE  <<a, c>> = <<a, b>> <=> c = b
  OBVIOUS
LEMMA OneIsNotTwo == ASSUME NEW S, NEW a \in S, NEW b \in S, NEW c \in S PROVE  <<c>> # <<a, b>>
  OBVIOUS

LEMMA AliasOrNot ==
    ASSUME NEW unit \in Units
    PROVE  /\ Append(<<>>, unit) = <<unit>> /\ <<unit>> # Alias
           /\ Append(<<"start">>, unit) = <<"start", unit>>
           /\ <<"start", unit>> = Alias <=> unit = "end"
<1> DEFINE a == "start"  b == "end"
<1>1. a \in Units /\ b \in Units
  BY DEF Units
<1>2. Alias = <<a, b>>
  BY Zenon DEF Alias
<1> HIDE DEF a, b
<1>3. /\ Append(<<>>, unit) = <<unit>> /\ Append(<<a>>, unit) = <<a, unit>>
  BY <1>1, OneIn, ZenonT(60)
<1>4. <<unit>> # Alias
  BY <1>1, <1>2, OneIsNotTwo, Zenon
<1>5. <<a, unit>> = Alias <=> unit = b
  BY <1>1, <1>2, TwoEqual, Zenon
<1> QED
  BY <1>3, <1>4, <1>5, Zenon DEF a, b

Delivered(e, unit) ==
    LET text == IF Restores(e) THEN Restore(e, Append(e.carry, unit)) ELSE <<unit>>
        hold == IF Restores(e) /\ unit = "start" THEN 1 ELSE 0
    IN  SubSeq(text, 1, Len(text) - hold)
Kept(e, unit) ==
    LET text == IF Restores(e) THEN Restore(e, Append(e.carry, unit)) ELSE <<unit>>
        hold == IF Restores(e) /\ unit = "start" THEN 1 ELSE 0
    IN  SubSeq(text, Len(text) - hold + 1, Len(text))

LEMMA ChunkPiece ==
    ASSUME NEW e \in Exchange, e.carry \in {<<>>, <<"start">>}, NEW unit \in Units
    PROVE  Piece(e, unit, Delivered(e, unit), Kept(e, unit))
<1> DEFINE text == IF Restores(e) THEN Restore(e, Append(e.carry, unit)) ELSE <<unit>>
           hold == IF Restores(e) /\ unit = "start" THEN 1 ELSE 0
<1>0. /\ text = IF Restores(e) THEN Restore(e, Append(e.carry, unit)) ELSE <<unit>>
      /\ hold = IF Restores(e) /\ unit = "start" THEN 1 ELSE 0
  OBVIOUS
<1> SUFFICES Piece(e, unit, SubSeq(text, 1, Len(text) - hold),
                   SubSeq(text, Len(text) - hold + 1, Len(text)))
  BY DEF Delivered, Kept
<1> HIDE DEF text, hold
<1>1. CASE ~Restores(e)
  <2>1. text = <<unit>> /\ hold = 0
    BY <1>0, <1>1
  <2>2. text \in Seq(Units)
    BY <2>1
  <2>3. SubSeq(text, 1, Len(text) - hold) = text /\ SubSeq(text, Len(text) - hold + 1, Len(text)) = <<>>
    BY <2>1, <2>2, WholeAndNothing
  <2> QED
    BY <1>1, <2>1, <2>3, Zenon DEF Piece
<1>2. CASE Restores(e) /\ unit = "start"
  <2>1. hold = 1 /\ text = Append(e.carry, unit)
    <3>1. unit # "end"
      BY <1>2
    <3>2. Append(e.carry, unit) # Alias
      BY <3>1, AliasOrNot, Zenon
    <3> QED
      BY <1>0, <1>2, <3>2 DEF Restore
  <2>2. e.carry \in Seq(Units)
    <3>1. <<>> \in Seq(Units)
      OBVIOUS
    <3>2. "start" \in Units
      BY DEF Units
    <3>3. <<"start">> \in Seq(Units)
      BY <3>2, OneIn, Zenon
    <3> QED
      BY <3>1, <3>3
  <2>3. SubSeq(text, 1, Len(text) - 1) = e.carry /\ SubSeq(text, Len(text) - 1 + 1, Len(text)) = <<unit>>
    <3>1. text = Append(e.carry, unit) /\ unit \in Units
      BY <2>1
    <3>2. \A c \in Seq(Units), u \in Units : \A x : x = Append(c, u) =>
             SubSeq(x, 1, Len(x) - 1) = c /\ SubSeq(x, Len(x) - 1 + 1, Len(x)) = <<u>>
      BY AllButLast, Zenon
    <3> QED
      BY <2>2, <3>1, <3>2, ZenonT(60)
  <2> QED
    BY <1>2, <2>1, <2>3, Zenon DEF Piece
<1>3. CASE Restores(e) /\ unit # "start"
  <2>1. hold = 0
    BY <1>0, <1>3
  <2>2. CASE e.carry = <<>>
    <3>1. text = <<unit>>
      BY <1>0, <1>3, <2>2, AliasOrNot, Zenon DEF Restore
    <3>2. text \in Seq(Units)
      BY <3>1, OneIn, Zenon
    <3>3. SubSeq(text, 1, Len(text) - hold) = text /\ SubSeq(text, Len(text) - hold + 1, Len(text)) = <<>>
      BY <2>1, <3>2, WholeAndNothing
    <3> QED
      BY <1>3, <2>2, <3>1, <3>3, Zenon DEF Piece
  <2>3. CASE e.carry = <<"start">>
    <3>1. text = IF unit = "end" /\ Known(e.value) THEN <<"original">> ELSE <<"start", unit>>
      <4>1. Append(e.carry, unit) = <<"start", unit>> /\ (<<"start", unit>> = Alias <=> unit = "end")
        BY <2>3, AliasOrNot, Zenon
      <4>2. text = Restore(e, <<"start", unit>>)
        BY <1>0, <1>3, <4>1, Zenon
      <4> QED
        BY <4>1, <4>2, Zenon DEF Restore
    <3>2. text \in Seq(Units \cup {"original"})
      <4>1. /\ <<"original">> \in Seq(Units \cup {"original"})
            /\ <<"start", unit>> \in Seq(Units \cup {"original"})
        BY DEF Units
      <4> QED
        BY <3>1, <4>1, Zenon
    <3>3. SubSeq(text, 1, Len(text) - hold) = text /\ SubSeq(text, Len(text) - hold + 1, Len(text)) = <<>>
      BY <2>1, <3>2, WholeAndNothing, Zenon
    <3> QED
      BY <1>3, <2>3, <3>1, <3>3, Zenon DEF Piece
  <2> QED
    BY <2>2, <2>3
<1> QED
  BY <1>1, <1>2, <1>3
-----------------------------------------------------------------------------
LEMMA NoOriginals == ASSUME NEW text \in Seq(Units) PROVE Originals(text) = 0
<1>1. {i \in DOMAIN text : text[i] = "original"} = {}
  <2>1. \A u \in Units : u # "original"
    BY DEF Units
  <2>2. \A i \in DOMAIN text : text[i] \in Units
    OBVIOUS
  <2> QED
    BY <2>1, <2>2
<1> QED
  BY <1>1, FS_EmptySet DEF Originals

LEMMA OriginalsBefore ==
    ASSUME NEW text \in Text, NEW more \in Seq(Units)
    PROVE  Originals(text \o more) = Originals(text)
<1> DEFINE u == text \o more
<1>1. text \in Seq(Units \cup {"original"}) /\ more \in Seq(Units \cup {"original"})
  BY DEF Text
<1>2. /\ Len(u) = Len(text) + Len(more) /\ u \in Seq(Units \cup {"original"})
      /\ \A i \in 1 .. Len(u) : u[i] = IF i <= Len(text) THEN text[i] ELSE more[i - Len(text)]
  BY <1>1, ConcatProperties
<1>3. Len(text) \in Nat /\ Len(more) \in Nat /\ DOMAIN u = 1 .. Len(u) /\ DOMAIN text = 1 .. Len(text)
  BY <1>1, <1>2
<1>4. \A v \in Units : v # "original"
  BY DEF Units
<1>5. \A i \in 1 .. Len(more) : more[i] # "original"
  BY <1>4
<1> HIDE DEF u
<1> DEFINE o == "original"
<1>6. \A i \in 1 .. Len(more) : more[i] # o
  BY <1>5
<1> HIDE DEF o
<1>7. {i \in DOMAIN u : u[i] = o} = {i \in DOMAIN text : text[i] = o}
  BY <1>2, <1>3, <1>6, SMTT(60)
<1> QED
  BY <1>7 DEF Originals, o, u

LEMMA OneItem ==
    ASSUME NEW v
    PROVE  <<v>> # <<>> /\ <<v>>[1] = v /\ Len(<<v>>) = 1 /\ <<v>>[Len(<<v>>)] = v
  OBVIOUS
LEMMA TwoItems ==
    ASSUME NEW v, NEW w
    PROVE  /\ <<v, w>> # <<>> /\ <<v, w>>[1] = v /\ <<v, w>>[2] = w /\ Len(<<v, w>>) = 2
           /\ <<v, w>>[Len(<<v, w>>)] = w
  OBVIOUS

LEMMA PairIs ==
    ASSUME NEW S, NEW text \in Seq(S), NEW i \in 1 .. Len(text) - 1
    PROVE  SubSeq(text, i, i + 1) = <<text[i], text[i + 1]>>
<1> DEFINE a == SubSeq(text, i, i + 1)  b == <<text[i], text[i + 1]>>
<1>1. /\ i \in Int /\ i + 1 \in Int /\ i + 1 - i + 1 = 2 /\ i + 1 - 1 = i /\ i + 2 - 1 = i + 1
      /\ \A j \in i .. i + 1 : text[j] \in S
      /\ text[i] \in S /\ text[i + 1] \in S
  OBVIOUS
<1>2. a \in Seq(S) /\ Len(a) = 2 /\ a[1] = text[i] /\ a[2] = text[i + 1]
  <2>1. \A j \in 1 .. 2 : a[j] = text[i + j - 1]
    BY <1>1, SubSeqProperties
  <2>2. a \in Seq(S) /\ Len(a) = 2
    BY <1>1, SubSeqProperties
  <2> HIDE DEF a
  <2> QED
    BY <1>1, <2>1, <2>2
<1>3. b \in Seq(S) /\ Len(b) = 2 /\ b[1] = text[i] /\ b[2] = text[i + 1]
  BY <1>1
<1>4. \A j \in 1 .. 2 : j = 1 \/ j = 2
  OBVIOUS
<1> HIDE DEF a, b
<1>5. a = b
  BY <1>2, <1>3, <1>4, SeqEqual
<1> QED
  BY <1>5 DEF a, b

LEMMA PairNotAlias ==
    ASSUME NEW v, NEW w, <<v, w>> = Alias PROVE v = "start" /\ w = "end"
<1>1. <<v, w>>[1] = Alias[1] /\ <<v, w>>[2] = Alias[2]
  BY Zenon
<1> QED
  BY <1>1, TwoItems, Zenon DEF Alias

LEMMA PairOfItems ==
    ASSUME NEW v, NEW w
    PROVE  NoPair(<<v>>) /\ (NoPair(<<v, w>>) <=> ~(v = "start" /\ w = "end"))
<1> DEFINE a == "start"  b == "end"
<1>1. \A t : NoPair(t) <=> \A i \in 1 .. Len(t) - 1 : ~(t[i] = a /\ t[i + 1] = b)
  BY Zenon DEF NoPair
<1> HIDE DEF a, b
<1>2. 1 .. Len(<<v>>) - 1 = {} /\ 1 .. Len(<<v, w>>) - 1 = {1}
  OBVIOUS
<1>3. <<v, w>>[1] = v /\ <<v, w>>[1 + 1] = w
  OBVIOUS
<1>4. NoPair(<<v>>)
  BY <1>1, <1>2
<1>5. NoPair(<<v, w>>) <=> ~(v = a /\ w = b)
  <2> DEFINE t == <<v, w>>
  <2>1. NoPair(t) <=> \A i \in {1} : ~(t[i] = a /\ t[i + 1] = b)
    BY <1>1, <1>2, Zenon
  <2>2. t[1] = v /\ t[1 + 1] = w
    BY <1>3
  <2> HIDE DEF t
  <2>3. NoPair(t) <=> ~(v = a /\ w = b)
    BY <2>1, <2>2
  <2> QED
    BY <2>3 DEF t
<1> QED
  BY <1>4, <1>5, Zenon DEF a, b

LEMMA PairJoin ==
    ASSUME NEW text \in Text, NEW piece \in Text, NoPair(text), NoPair(piece),
           OpenEnd(text) /\ piece # <<>> => piece[1] # "end"
    PROVE  /\ NoPair(text \o piece)
           /\ OpenEnd(text \o piece) =>
                  IF piece = <<>> THEN OpenEnd(text) ELSE piece[Len(piece)] = "start"
<1> DEFINE u == text \o piece  a == "start"  b == "end"
<1>1. \A t : NoPair(t) <=> \A i \in 1 .. Len(t) - 1 : ~(t[i] = a /\ t[i + 1] = b)
  BY Zenon DEF NoPair
<1>2. \A t : OpenEnd(t) <=> t # <<>> /\ t[Len(t)] = a
  BY Zenon DEF OpenEnd
<1>3. OpenEnd(text) /\ piece # <<>> => piece[1] # b
  BY Zenon
<1> HIDE DEF a, b
<1>4. /\ Len(text) \in Nat /\ Len(piece) \in Nat /\ Len(u) = Len(text) + Len(piece)
      /\ \A i \in 1 .. Len(u) : u[i] = IF i <= Len(text) THEN text[i] ELSE piece[i - Len(text)]
      /\ (piece = <<>> <=> Len(piece) = 0) /\ (text = <<>> <=> Len(text) = 0)
      /\ (u = <<>> <=> Len(u) = 0)
  <2>1. text \in Seq(Units \cup {"original"}) /\ piece \in Seq(Units \cup {"original"})
    BY DEF Text
  <2> DEFINE V == Units \cup {"original"}
  <2>2. text \in Seq(V) /\ piece \in Seq(V)
    BY <2>1
  <2> HIDE DEF V
  <2> QED
    BY <2>2, ConcatProperties
<1>5. \A i \in 1 .. Len(text) - 1 : ~(text[i] = a /\ text[i + 1] = b)
  BY <1>1, Zenon
<1>6. \A i \in 1 .. Len(piece) - 1 : ~(piece[i] = a /\ piece[i + 1] = b)
  BY <1>1, Zenon
<1>7. Len(text) > 0 /\ Len(piece) > 0 => ~(text[Len(text)] = a /\ piece[1] = b)
  BY <1>2, <1>3, <1>4
<1> HIDE DEF u
<1>8. ASSUME NEW i \in 1 .. Len(u) - 1 PROVE ~(u[i] = a /\ u[i + 1] = b)
  <2>1. CASE i < Len(text)
    <3>1. i \in 1 .. Len(text) - 1 /\ i \in 1 .. Len(u) /\ i + 1 \in 1 .. Len(u)
          /\ i <= Len(text) /\ i + 1 <= Len(text)
      BY <1>4, <2>1
    <3>2. u[i] = text[i] /\ u[i + 1] = text[i + 1]
      BY <1>4, <3>1, Zenon
    <3> QED
      BY <1>5, <3>1, <3>2, Zenon
  <2>2. CASE i = Len(text)
    <3>1. /\ i \in 1 .. Len(u) /\ i + 1 \in 1 .. Len(u) /\ i <= Len(text) /\ ~(i + 1 <= Len(text))
          /\ i + 1 - Len(text) = 1 /\ Len(text) > 0 /\ Len(piece) > 0
      BY <1>4, <2>2
    <3>2. u[i] = text[Len(text)] /\ u[i + 1] = piece[1]
      BY <1>4, <2>2, <3>1
    <3> QED
      BY <1>7, <3>1, <3>2
  <2>3. CASE i > Len(text)
    <3> DEFINE j == i - Len(text)
    <3>1. /\ i \in 1 .. Len(u) /\ i + 1 \in 1 .. Len(u) /\ ~(i <= Len(text)) /\ ~(i + 1 <= Len(text))
          /\ j \in 1 .. Len(piece) - 1 /\ i + 1 - Len(text) = j + 1
      BY <1>4, <2>3
    <3>2. u[i] = piece[j] /\ u[i + 1] = piece[j + 1]
      <4>1. u[i] = piece[i - Len(text)] /\ u[i + 1] = piece[i + 1 - Len(text)]
        BY <1>4, <3>1
      <4> QED
        BY <3>1, <4>1
    <3> QED
      BY <1>6, <3>1, <3>2
  <2> QED
    BY <1>4, <2>1, <2>2, <2>3
<1>9. NoPair(u)
  BY <1>1, <1>8, Zenon
<1>10. ASSUME u # <<>>
       PROVE  /\ piece = <<>> => text # <<>> /\ u[Len(u)] = text[Len(text)]
              /\ piece # <<>> => u[Len(u)] = piece[Len(piece)]
  <2>1. Len(u) > 0 /\ Len(u) \in 1 .. Len(u)
    BY <1>4, <1>10
  <2>2. u[Len(u)] = IF Len(u) <= Len(text) THEN text[Len(u)] ELSE piece[Len(u) - Len(text)]
    BY <1>4, <2>1, Zenon
  <2>3. piece = <<>> => Len(u) <= Len(text) /\ Len(u) = Len(text) /\ Len(text) # 0
    BY <1>4, <2>1
  <2>4. piece # <<>> => ~(Len(u) <= Len(text)) /\ Len(u) - Len(text) = Len(piece)
    BY <1>4, <2>1
  <2> QED
    BY <1>4, <2>2, <2>3, <2>4, Zenon
<1>11. OpenEnd(u) => IF piece = <<>> THEN OpenEnd(text) ELSE piece[Len(piece)] = a
  BY <1>2, <1>10, Zenon
<1> QED
  BY <1>9, <1>11, Zenon DEF u, a

\* What the provider reports in a text made of others.
LEMMA HasJoin ==
    ASSUME NEW text \in Text, NEW more \in Text, NEW u
    PROVE  Has(text \o more, u) <=> Has(text, u) \/ Has(more, u)
<1> DEFINE w == text \o more
<1>1. text \in Seq(Units \cup {"original"}) /\ more \in Seq(Units \cup {"original"})
  BY DEF Text
<1>2. /\ Len(w) = Len(text) + Len(more) /\ w \in Seq(Units \cup {"original"})
      /\ \A i \in 1 .. Len(w) : w[i] = IF i <= Len(text) THEN text[i] ELSE more[i - Len(text)]
  BY <1>1, ConcatProperties
<1>3. /\ Len(text) \in Nat /\ Len(more) \in Nat /\ DOMAIN w = 1 .. Len(w)
      /\ DOMAIN text = 1 .. Len(text) /\ DOMAIN more = 1 .. Len(more)
  BY <1>1, <1>2
<1> HIDE DEF w
<1>4. ASSUME NEW i \in 1 .. Len(w), w[i] = u PROVE Has(text, u) \/ Has(more, u)
  <2>1. CASE i <= Len(text)
    <3>1. i \in 1 .. Len(text) /\ text[i] = u
      BY <1>2, <1>3, <1>4, <2>1
    <3> QED
      BY <1>3, <3>1 DEF Has
  <2>2. CASE ~(i <= Len(text))
    <3>1. i - Len(text) \in 1 .. Len(more) /\ more[i - Len(text)] = u
      BY <1>2, <1>3, <1>4, <2>2
    <3> QED
      BY <1>3, <3>1, Zenon DEF Has
  <2> QED
    BY <2>1, <2>2
<1>5. ASSUME NEW i \in 1 .. Len(text), text[i] = u PROVE Has(w, u)
  <2>1. i \in 1 .. Len(w) /\ i <= Len(text)
    BY <1>2, <1>3
  <2> QED
    BY <1>2, <1>3, <1>5, <2>1 DEF Has
<1>6. ASSUME NEW i \in 1 .. Len(more), more[i] = u PROVE Has(w, u)
  <2>1. /\ Len(text) + i \in 1 .. Len(w) /\ ~(Len(text) + i <= Len(text))
        /\ Len(text) + i - Len(text) = i
    BY <1>2, <1>3
  <2>2. w[Len(text) + i] = more[i]
    BY <1>2, <2>1
  <2> QED
    BY <1>3, <1>6, <2>1, <2>2, Zenon DEF Has
<1> QED
  BY <1>3, <1>4, <1>5, <1>6, Zenon DEF Has, w

LEMMA ReportsJoin ==
    ASSUME NEW text \in Text, NEW more \in Text
    PROVE  Reports(text \o more) <=> Reports(text) \/ Reports(more)
  BY HasJoin, Zenon DEF Reports

LEMMA ReportsOf ==
    /\ ~Reports(<<>>)
    /\ \A u : Reports(<<u>>) <=> u = "usage" \/ u = "fault"
<1>1. DOMAIN <<>> = {} /\ \A u : DOMAIN <<u>> = {1} /\ <<u>>[1] = u
  OBVIOUS
<1> QED
  BY <1>1, Zenon DEF Reports, Has

LEMMA ReportsOfPair ==
    \A u : Reports(<<"start", u>>) <=> u = "usage" \/ u = "fault"
<1>1. \A u : \A a : DOMAIN <<a, u>> = {1, 2} /\ <<a, u>>[1] = a /\ <<a, u>>[2] = u
  OBVIOUS
<1>2. "start" # "usage" /\ "start" # "fault"
  OBVIOUS
<1> QED
  BY <1>1, <1>2, ZenonT(60) DEF Reports, Has

\* What the restorer puts back and delivers is one original more.
LEMMA OneOriginal == Originals(<<"original">>) = 1
<1>1. {i \in DOMAIN <<"original">> : <<"original">>[i] = "original"} = {1}
  OBVIOUS
<1> QED
  BY <1>1, FS_Singleton DEF Originals

LEMMA OriginalsJoin ==
    ASSUME NEW text \in Text, NEW piece, piece \in Seq(Units) \/ piece = <<"original">>
    PROVE  Originals(text \o piece) = Originals(text) + Originals(piece)
<1>0. Originals(text) \in Nat
  BY OriginalsIsNat
<1>1. CASE piece \in Seq(Units)
  <2>1. Originals(text \o piece) = Originals(text) /\ Originals(piece) = 0
    BY <1>1, OriginalsBefore, NoOriginals
  <2> QED
    BY <1>0, <2>1
<1>2. CASE piece = <<"original">>
  <2> DEFINE u == text \o piece  o == "original"
             S == {i \in DOMAIN text : text[i] = o}  n == Len(text) + 1
  <2>1. text \in Seq(Units \cup {o}) /\ piece \in Seq(Units \cup {o}) /\ Len(piece) = 1 /\ piece[1] = o
    BY <1>2 DEF Text
  <2> HIDE DEF o
  <2>2. /\ Len(u) = Len(text) + Len(piece) /\ u \in Seq(Units \cup {o})
        /\ \A i \in 1 .. Len(u) : u[i] = IF i <= Len(text) THEN text[i] ELSE piece[i - Len(text)]
    <3> DEFINE V == Units \cup {o}
    <3>1. text \in Seq(V) /\ piece \in Seq(V)
      BY <2>1
    <3> HIDE DEF V
    <3>2. /\ Len(u) = Len(text) + Len(piece) /\ u \in Seq(V)
          /\ \A i \in 1 .. Len(u) : u[i] = IF i <= Len(text) THEN text[i] ELSE piece[i - Len(text)]
      BY <3>1, ConcatProperties
    <3> QED
      BY <3>2 DEF V
  <2>3. /\ Len(text) \in Nat /\ DOMAIN u = 1 .. Len(u) /\ DOMAIN text = 1 .. Len(text)
        /\ Len(u) = n
    BY <2>1, <2>2
  <2> HIDE DEF u
  <2>4. u[n] = o /\ \A i \in 1 .. Len(text) : i \in 1 .. Len(u) /\ u[i] = text[i]
    BY <2>1, <2>2, <2>3
  <2>5. \A i \in 1 .. Len(u) : i \in 1 .. Len(text) \/ i = n
    BY <2>3
  <2>6. {i \in DOMAIN u : u[i] = o} = S \cup {n} /\ n \notin S
    <3>1. n \notin S /\ n \in 1 .. Len(u)
      BY <2>3
    <3> HIDE DEF n
    <3> QED
      BY <2>3, <2>4, <2>5, <3>1
  <2>7. IsFiniteSet(S)
    <3>1. S \subseteq 1 .. Len(text) /\ IsFiniteSet(1 .. Len(text))
      BY <2>3, FS_Interval
    <3> QED
      BY <3>1, FS_Subset
  <2> HIDE DEF S, n
  <2>8. Cardinality(S \cup {n}) = Cardinality(S) + 1
    BY <2>6, <2>7, FS_AddElement
  <2>9. Originals(text) = Cardinality(S) /\ Originals(u) = Cardinality(S \cup {n})
    BY <2>6 DEF Originals, S, o
  <2> QED
    BY <1>2, <2>8, <2>9, OneOriginal DEF u
<1> QED
  BY <1>1, <1>2

Whole(e, unit) == IF Restores(e) THEN Restore(e, Append(e.carry, unit)) ELSE <<unit>>

LEMMA PieceHasAll ==
    ASSUME NEW e, e.carry \in {<<>>, <<"start">>}, NEW unit \in Units, NEW piece, NEW carry,
           Piece(e, unit, piece, carry)
    PROVE  Originals(Whole(e, unit)) = Originals(piece)
<1>1. /\ <<>> \in Seq(Units) /\ <<unit>> \in Seq(Units) /\ <<"start">> \in Seq(Units)
      /\ <<"start", unit>> \in Seq(Units)
  <2>1. <<>> \in Seq(Units) /\ "start" \in Units
    BY DEF Units
  <2> QED
    BY <2>1, OneIn, Zenon
<1>2. CASE ~Restores(e)
  BY <1>2, Zenon DEF Piece, Whole
<1>3. CASE Restores(e) /\ e.carry = <<>>
  <2>1. Whole(e, unit) = <<unit>>
    BY <1>3, AliasOrNot, Zenon DEF Whole, Restore
  <2>2. piece \in Seq(Units)
    BY <1>1, <1>3, OneItem, Zenon DEF Piece
  <2> QED
    BY <1>1, <2>1, <2>2, NoOriginals
<1>4. CASE Restores(e) /\ e.carry = <<"start">>
  <2>1. Whole(e, unit) = IF unit = "end" /\ Known(e.value) THEN <<"original">> ELSE <<"start", unit>>
    BY <1>4, AliasOrNot, Zenon DEF Whole, Restore
  <2>2. e.carry # <<>> /\ "start" # "end"
    BY <1>4, OneItem
  <2>3. CASE unit = "start"
    <3>1. piece = <<"start">> /\ Whole(e, unit) = <<"start", unit>>
      BY <1>4, <2>1, <2>2, <2>3, Zenon DEF Piece
    <3> QED
      BY <1>1, <3>1, NoOriginals
  <2>4. CASE unit # "start"
    <3>1. piece = IF unit = "end" /\ Known(e.value) THEN <<"original">> ELSE <<"start", unit>>
      BY <1>4, <2>2, <2>4, Zenon DEF Piece
    <3> QED
      BY <2>1, <3>1
  <2> QED
    BY <2>3, <2>4
<1> QED
  BY <1>2, <1>3, <1>4

\* A chunk leaves no alias in what the client has got, as long as the alias is in the table.
LEMMA PieceIs ==
    ASSUME NEW e, NEW unit \in Units, NEW piece, NEW carry, Piece(e, unit, piece, carry)
    PROVE  /\ piece \in Text /\ carry \in {<<>>, <<"start">>}
           /\ ~Restores(e) => piece \in Seq(Units) /\ carry = <<>>
           /\ piece \in Seq(Units) \/ piece = <<"original">>
           /\ Reports(piece) <=> Reports(<<unit>>)
<1>1. "start" \in Units
  BY DEF Units
<1>2. /\ <<unit>> \in Seq(Units) /\ <<"start">> \in Seq(Units) /\ <<"start", unit>> \in Seq(Units)
      /\ <<>> \in Seq(Units)
  <2>1. <<>> \in Seq(Units)
    OBVIOUS
  <2> QED
    BY <1>1, <2>1, OneIn, Zenon
<1>3. \A u \in Seq(Units) : u \in Text
  BY DEF Text
<1>4. <<"original">> \in Text
  BY DEF Text
<1>6. piece \in Text
  BY <1>2, <1>3, <1>4, Zenon DEF Piece
<1>7. carry \in {<<>>, <<"start">>}
  BY Zenon DEF Piece
<1>8. ~Restores(e) => piece \in Seq(Units) /\ carry = <<>>
  BY <1>2, Zenon DEF Piece
<1>5. piece \in Seq(Units) \/ piece = <<"original">>
  BY <1>2, Zenon DEF Piece
<1>9. Reports(piece) <=> Reports(<<unit>>)
  <2>1. /\ "start" # "usage" /\ "start" # "fault" /\ "original" # "usage" /\ "original" # "fault"
        /\ "end" # "usage" /\ "end" # "fault"
    OBVIOUS
  <2>2. /\ ~Reports(<<>>) /\ ~Reports(<<"start">>) /\ ~Reports(<<"original">>) /\ ~Reports(<<"end">>)
        /\ Reports(<<"start", unit>>) <=> Reports(<<unit>>)
    BY <2>1, ReportsOf, ReportsOfPair, Zenon
  <2>3. unit = "end" => ~Reports(<<unit>>)
    BY <2>2, Zenon
  <2>4. unit = "start" => ~Reports(<<unit>>)
    BY <2>2, Zenon
  <2> QED
    BY <2>2, <2>3, <2>4, Zenon DEF Piece
<1> QED
  BY <1>5, <1>6, <1>7, <1>8, <1>9, Zenon

LEMMA PieceSmooth ==
    ASSUME NEW e, NEW unit \in Units, NEW piece, NEW carry, Piece(e, unit, piece, carry),
           e.client \in Text, Known(e.value), Restores(e), NoPair(e.client),
           OpenEnd(e.client) => e.carry = <<"start">>
    PROVE  NoPair(e.client \o piece) /\ (OpenEnd(e.client \o piece) => carry = <<"start">>)
<1>0. "start" # "end" /\ "original" # "end" /\ "original" # "start"
  OBVIOUS
<1>1. piece \in Text
  BY PieceIs
<1>2. CASE piece = <<>> /\ carry = <<"start">>
  <2>1. NoPair(piece)
    <3>1. \A i \in 1 .. Len(<<>>) - 1 : FALSE
      OBVIOUS
    <3> QED
      BY <1>2, <3>1, Zenon DEF NoPair
  <2> QED
    BY <1>1, <1>2, <2>1, PairJoin, Zenon
<1>3. CASE piece = <<unit>> /\ unit # "start" /\ e.carry = <<>>
  <2>1. ~OpenEnd(e.client)
    BY <1>3, OneItem, Zenon
  <2> QED
    BY <1>1, <1>3, <2>1, PairJoin, PairOfItems, OneItem, Zenon
<1>4. CASE piece = <<"start">> /\ carry = <<"start">>
  BY <1>0, <1>1, <1>4, PairJoin, PairOfItems, OneItem, Zenon
<1>5. CASE piece = <<"original">>
  BY <1>0, <1>1, <1>5, PairJoin, PairOfItems, OneItem, Zenon
<1>6. CASE piece = <<"start", unit>> /\ unit # "start" /\ unit # "end"
  <2>1. NoPair(piece)
    BY <1>6, PairOfItems, Zenon
  <2>2. piece # <<>> /\ piece[1] = "start" /\ piece[Len(piece)] = unit
    BY <1>6, TwoItems, Zenon
  <2> QED
    BY <1>0, <1>1, <1>6, <2>1, <2>2, PairJoin, Zenon
<1>7. CASE unit = "start"
  <2>1. (piece = <<>> \/ piece = <<"start">>) /\ carry = <<"start">>
    BY <1>7, Zenon DEF Piece
  <2> QED
    BY <1>2, <1>4, <2>1, Zenon
<1>8. CASE unit # "start"
  <2>1. e.carry = <<>> \/ e.carry = <<"start">>
    BY Zenon DEF Piece
  <2>2. e.carry = <<>> => piece = <<unit>>
    BY <1>8, OneItem, Zenon DEF Piece
  <2>3. e.carry = <<"start">> => piece = <<"original">> \/ (piece = <<"start", unit>> /\ unit # "end")
    <3>1. e.carry = <<"start">> =>
              piece = IF unit = "end" /\ Known(e.value) THEN <<"original">> ELSE <<"start", unit>>
      BY <1>8, OneItem, Zenon DEF Piece
    <3> QED
      BY <3>1, Zenon
  <2> QED
    BY <1>3, <1>5, <1>6, <1>8, <2>1, <2>2, <2>3, Zenon
<1> QED
  BY <1>7, <1>8, Zenon
-----------------------------------------------------------------------------
-----------------------------------------------------------------------------
\* How a step keeps to the truth.
LEMMA NothingYet == NoPair(<<>>) /\ ~OpenEnd(<<>>) /\ Originals(<<>>) = 0
<1>1. 1 .. Len(<<>>) - 1 = {}
  OBVIOUS
<1>2. NoPair(<<>>)
  BY <1>1, Zenon DEF NoPair
<1>3. <<>> \in Seq(Units)
  OBVIOUS
<1>4. Originals(<<>>) = 0
  BY <1>3, NoOriginals
<1> QED
  BY <1>2, <1>4, Zenon DEF OpenEnd

LEMMA GoesOnTruly ==
    ASSUME TypeOK, NEW x \in Requests, NEW f \in Exchange, Continue(x, f), UNCHANGED logs,
           Truth(f, logs[x]), Carries(exchange[x], f)
    PROVE  Progress(x)
<1>1. Becomes(x, f, logs[x]) /\ logs[x] \in Seq(Log)
  BY DEF Continue, Becomes, TypeOK
<1> QED
  BY <1>1, Zenon DEF Progress

LEMMA EndsTruly ==
    ASSUME TypeOK, NEW x \in Requests, NEW f \in Exchange, End(x, f), logs[x] = <<>>,
           f.log # None => f.log.error \/ f.left \/ Tells(f.log, f),
           ~Restores(f) => f.client \in Seq(Units),
           f.chat = exchange[x].chat, f.value = exchange[x].value,
           f.restore = exchange[x].restore, f.sent = exchange[x].sent,
           Restores(f) /\ Known(f.value) /\ Smooth(exchange[x]) => NoPair(f.client)
    PROVE  Progress(x)
<1> DEFINE g == Finished(f)
           records == IF f.log = None THEN <<>> ELSE <<f.log>>
<1> /\ <<>> \in Seq(Units) /\ <<>> \in Seq(Log)
  OBVIOUS
<1>1. /\ g \in Exchange /\ g.phase = "over" /\ g.carry = <<>> /\ g.client = f.client
      /\ g.chat = f.chat /\ g.value = f.value /\ g.restore = f.restore /\ g.sent = f.sent
      /\ g.left = f.left
  BY DEF Finished, Exchange
<1>2. f.log # None => f.log \in Log
  BY DEF Exchange
<1>3. /\ records \in Seq(Log)
      /\ \A i \in DOMAIN records : f.log # None /\ records[i] = f.log
  <2>1. CASE f.log = None
    BY <2>1
  <2>2. CASE f.log # None
    <3>1. <<f.log>> \in Seq(Log) /\ DOMAIN <<f.log>> = 1 .. 1 /\ <<f.log>>[1] = f.log
      BY <1>2, <2>2
    <3>2. \A i \in 1 .. 1 : i = 1
      OBVIOUS
    <3>3. records = <<f.log>>
      BY <2>2, Zenon
    <3> QED
      BY <2>2, <3>1, <3>2, <3>3, Zenon
  <2> QED
    BY <2>1, <2>2
<1>4. Becomes(x, g, records)
  <2>1. exchange' = [exchange EXCEPT ![x] = g]
    BY DEF End, Continue
  <2>2. logs' = [logs EXCEPT ![x] = records]
    <3>1. CASE f.log = None
      <4>1. logs = [logs EXCEPT ![x] = logs[x]]
        BY DEF TypeOK
      <4> QED
        BY <3>1, <4>1, Zenon DEF End, Record
    <3>2. CASE f.log # None
      <4>1. Append(logs[x], f.log) = <<f.log>>
        BY <1>2, <3>2, OneIn, Zenon
      <4> QED
        BY <3>2, <4>1, Zenon DEF End, Record
    <3> QED
      BY <3>1, <3>2
  <2> QED
    BY <2>1, <2>2, Zenon DEF Becomes
<1> HIDE DEF g, records
<1>5. Restores(g) = Restores(f) /\ Restores(f) = Restores(exchange[x])
  BY <1>1, Zenon DEF Restores
<1>6. \A i \in DOMAIN records : ~records[i].error /\ ~g.left => Tells(records[i], g)
  BY <1>1, <1>3, Zenon DEF Tells
<1>7. Truth(g, records)
  <2>1. g.phase = "over" /\ "over" # "new" /\ "over" # "reading" /\ "over" # "connecting"
        /\ "over" # "buffering" /\ "over" # "streaming"
    BY <1>1
  <2>2. (~Restores(g) => g.client \in Seq(Units) /\ g.carry = <<>>) /\ g.carry \in {<<>>, <<"start">>}
    BY <1>1, <1>5
  <2> QED
    BY <1>6, <2>1, <2>2, Zenon DEF Truth
<1>8. Carries(exchange[x], g)
  <2>1. Known(exchange[x].value) /\ Smooth(exchange[x]) /\ Restores(g) => NoPair(g.client)
    BY <1>1, <1>5, Zenon
  <2>2. g.phase # "streaming"
    BY <1>1
  <2> QED
    BY <1>1, <2>1, <2>2, Zenon DEF Carries, Smooth
<1> QED
  BY <1>1, <1>3, <1>4, <1>7, <1>8, Zenon DEF Progress

\* What the invariants say of an exchange whose record is open.
LEMMA UnderWayTruly ==
    ASSUME TypeOK, Accounted, Truthful, NEW x \in Requests,
           In(x, "connecting") \/ In(x, "buffering") \/ In(x, "streaming")
    PROVE  LET e == exchange[x] IN
           /\ e \in Exchange /\ e.log \in Log /\ e.log # None /\ logs[x] = <<>> /\ ~e.left /\ ~e.log.error
           /\ e.client \in Text /\ e.carry \in {<<>>, <<"start">>}
           /\ ~Restores(e) => e.client \in Seq(Units) /\ e.carry = <<>>
           /\ ~In(x, "streaming") =>
                  e.client = <<>> /\ e.carry = <<>> /\ e.restored = 0 /\ ~e.usage /\ Blank(e.log)
           /\ In(x, "buffering") => e.chat
           /\ In(x, "streaming") => Counted(e)
<1>1. Truth(exchange[x], logs[x])
  BY DEF Truthful
<1>2. exchange[x] \in Exchange /\ exchange[x].log \in Log /\ logs[x] = <<>>
  BY UnderWay
<1>3. exchange[x].log # None
  BY <1>2, ExchangeAssumption
<1>4. exchange[x].client \in Text
  BY <1>2 DEF Exchange, Text
<1> DEFINE e == exchange[x]
<1> HIDE DEF e
<1>5. "streaming" # "connecting" /\ "streaming" # "buffering" /\ "connecting" # "buffering"
  OBVIOUS
<1> QED
  BY <1>1, <1>2, <1>3, <1>4, <1>5, Zenon DEF Truth, In, Blank, Counted

\* An exchange that ends with what its client had got before.
LEMMA EndsAsItWas ==
    ASSUME TypeOK, Truthful, NEW x \in Requests, NEW f \in Exchange, End(x, f), logs[x] = <<>>,
           f.log # None => f.log.error \/ f.left, f.client = exchange[x].client,
           f.chat = exchange[x].chat, f.value = exchange[x].value,
           f.restore = exchange[x].restore, f.sent = exchange[x].sent
    PROVE  Progress(x)
<1>1. Restores(f) = Restores(exchange[x])
  BY Zenon DEF Restores
<1>2. ~Restores(f) => f.client \in Seq(Units)
  BY <1>1, Zenon DEF Truthful, Truth
<1>3. Restores(f) /\ Known(f.value) /\ Smooth(exchange[x]) => NoPair(f.client)
  BY <1>1, Zenon DEF Smooth
<1> QED
  BY <1>2, <1>3, EndsTruly, Zenon

LEMMA LocalTruly ==
    ASSUME TypeOK, Accounted, Truthful, NEW x \in Requests, Local(x)
    PROVE  Progress(x)
<1> DEFINE e == [NewExchange EXCEPT !.phase = "over"]
<1>1. e \in Exchange
  BY Before DEF Exchange
<1>2. exchange[x] = NewExchange /\ logs[x] = <<>>
  BY Before DEF Local, In, Truthful, Truth, Standing
<1>3. /\ e.phase = "over" /\ e.client = <<>> /\ e.carry = <<>> /\ e.chat = NewExchange.chat
      /\ e.value = NewExchange.value /\ e.restore = NewExchange.restore /\ e.sent = NewExchange.sent
  BY DEF NewExchange
<1>4. Continue(x, e) /\ UNCHANGED logs
  BY DEF Local
<1> HIDE DEF e
<1>5. Truth(e, logs[x])
  <2>1. <<>> \in Seq(Units) /\ DOMAIN logs[x] = {}
    BY <1>2
  <2> QED
    BY <1>3, <2>1 DEF Truth
<1>6. Carries(exchange[x], e)
  <2>1. e.phase # "streaming"
    BY <1>3
  <2> QED
    BY <1>2, <1>3, <2>1, NothingYet, Zenon DEF Carries, Smooth
<1> QED
  BY <1>1, <1>4, <1>5, <1>6, GoesOnTruly, Zenon

LEMMA RedactTruly ==
    ASSUME TypeOK, Accounted, Truthful, NEW x \in Requests, Redact(x)
    PROVE  Progress(x)
<1> DEFINE f == exchange[x]
           e == [f EXCEPT !.phase = "connecting", !.sent = "alias", !.log = EmptyLog]
<1>1. f \in Exchange /\ f.phase = "reading" /\ Truth(f, logs[x])
  BY Before DEF Redact, In, Truthful
<1>2. /\ e \in Exchange /\ e.phase = "connecting" /\ e.log = EmptyLog /\ e.client = f.client
      /\ e.carry = f.carry /\ e.restored = f.restored /\ e.usage = f.usage /\ e.left = f.left
      /\ e.chat = f.chat /\ e.value = f.value /\ e.restore = f.restore
  BY <1>1, Before DEF Exchange
<1>3. f.client = <<>> /\ f.carry = <<>> /\ f.restored = 0 /\ ~f.usage /\ ~f.left
  BY <1>1 DEF Truth
<1>4. Continue(x, e) /\ UNCHANGED logs
  BY DEF Redact
<1> HIDE DEF e, f
<1>5. f.chat /\ f.value \in Values /\ Issue(f.value)
  BY Before DEF Redact, In, Standing, f
<1>6. Truth(e, logs[x])
  <2>1. <<>> \in Seq(Units) /\ Blank(EmptyLog)
    BY DEF EmptyLog, Blank
  <2> QED
    BY <1>2, <1>3, <2>1 DEF Truth
<1>7. Carries(f, e)
  BY <1>2, <1>3, <1>5, NothingYet, Zenon DEF Carries, Smooth
<1> QED
  BY <1>2, <1>4, <1>6, <1>7, GoesOnTruly, Zenon DEF f

LEMMA ForwardTruly ==
    ASSUME TypeOK, Accounted, Truthful, NEW x \in Requests, Forward(x)
    PROVE  Progress(x)
<1> DEFINE f == exchange[x]
           log == [EmptyLog EXCEPT !.warned = f.chat]
           e == [f EXCEPT !.phase = "connecting", !.sent = "raw", !.log = log]
<1>1. f \in Exchange /\ f.phase = "reading" /\ Truth(f, logs[x])
  BY Before DEF Forward, In, Truthful
<1>2. log \in Log /\ Blank(log)
  <2>1. f.chat \in BOOLEAN
    BY <1>1 DEF Exchange
  <2> QED
    BY <2>1 DEF Log, EmptyLog, Blank
<1>3. Continue(x, e) /\ UNCHANGED logs
  BY DEF Forward
<1> HIDE DEF log
<1>4. /\ e \in Exchange /\ e.phase = "connecting" /\ e.log = log /\ e.client = f.client
      /\ e.carry = f.carry /\ e.restored = f.restored /\ e.usage = f.usage /\ e.left = f.left
      /\ e.chat = f.chat /\ e.value = f.value /\ e.restore = f.restore
  BY <1>1, <1>2 DEF Exchange
<1>5. e.sent # "alias"
  BY <1>1 DEF Exchange
<1>6. f.client = <<>> /\ f.carry = <<>> /\ f.restored = 0 /\ ~f.usage /\ ~f.left
  BY <1>1 DEF Truth
<1> HIDE DEF e, f
<1>7. Truth(e, logs[x])
  <2>1. <<>> \in Seq(Units)
    OBVIOUS
  <2> QED
    BY <1>2, <1>4, <1>6, <2>1 DEF Truth
<1>8. Carries(f, e)
  BY <1>4, <1>6, <1>5, NothingYet, Zenon DEF Carries, Smooth
<1> QED
  BY <1>3, <1>4, <1>7, <1>8, GoesOnTruly, Zenon DEF f

LEMMA FailsTruly ==
    ASSUME TypeOK, Accounted, Truthful, NEW x \in Requests, Fails(x)
    PROVE  Progress(x)
<1>1. End(x, exchange[x]) /\ exchange[x].log = None /\ logs[x] = <<>> /\ exchange[x] \in Exchange
  BY Before DEF Fails, In, Standing
<1> QED
  BY <1>1, EndsAsItWas, Zenon

LEMMA UpstreamFailsTruly ==
    ASSUME TypeOK, Accounted, Truthful, NEW x \in Requests, UpstreamFails(x)
    PROVE  Progress(x)
<1> DEFINE f == exchange[x]
           log == [f.log EXCEPT !.error = TRUE]
           e == [f EXCEPT !.log = log]
<1>1. f \in Exchange /\ f.log \in Log /\ logs[x] = <<>>
  BY UnderWay DEF UpstreamFails
<1>2. log \in Log /\ log.error
  BY <1>1 DEF Log
<1>3. End(x, e)
  BY DEF UpstreamFails
<1> HIDE DEF log
<1>4. /\ e \in Exchange /\ e.log = log /\ e.client = f.client /\ e.chat = f.chat
      /\ e.value = f.value /\ e.restore = f.restore /\ e.sent = f.sent
  BY <1>1, <1>2 DEF Exchange
<1> HIDE DEF e
<1> QED
  BY <1>1, <1>2, <1>3, <1>4, EndsAsItWas, Zenon

LEMMA LeaveTruly ==
    ASSUME TypeOK, Accounted, Truthful, NEW x \in Requests, Leave(x)
    PROVE  Progress(x)
<1> DEFINE f == exchange[x]
           e == [f EXCEPT !.left = TRUE]
<1>1. f \in Exchange
  BY Before
<1>2. /\ e \in Exchange /\ e.left /\ e.log = f.log /\ e.client = f.client /\ e.chat = f.chat
      /\ e.value = f.value /\ e.restore = f.restore /\ e.sent = f.sent
  BY <1>1 DEF Exchange
<1>3. End(x, e)
  BY DEF Leave
<1>4. logs[x] = <<>>
  BY Before, ExchangeAssumption DEF Leave, Standing
<1> HIDE DEF e
<1> QED
  BY <1>1, <1>2, <1>3, <1>4, EndsAsItWas, Zenon

LEMMA StreamBreaksTruly ==
    ASSUME TypeOK, Accounted, Truthful, NEW x \in Requests, StreamBreaks(x)
    PROVE  Progress(x)
<1> DEFINE f == exchange[x]
           g == Finalize(f)
           log == [g.log EXCEPT !.error = TRUE]
           e == [g EXCEPT !.log = log]
<1>1. f \in Exchange /\ f.log \in Log /\ logs[x] = <<>>
  BY UnderWay DEF StreamBreaks
<1>2. /\ g \in Exchange /\ g.log \in Log /\ g.client = f.client /\ g.chat = f.chat
      /\ g.value = f.value /\ g.restore = f.restore /\ g.sent = f.sent
  BY <1>1, FinalizeIs, Zenon
<1>3. End(x, e)
  BY DEF StreamBreaks
<1> HIDE DEF g
<1>4. log \in Log /\ log.error
  BY <1>2 DEF Log
<1> HIDE DEF log
<1>5. /\ e \in Exchange /\ e.log = log /\ e.client = g.client /\ e.chat = g.chat
      /\ e.value = g.value /\ e.restore = g.restore /\ e.sent = g.sent
  BY <1>2, <1>4 DEF Exchange
<1> HIDE DEF e
<1> QED
  BY <1>1, <1>2, <1>3, <1>4, <1>5, EndsAsItWas, Zenon

LEMMA UpstreamRespondsTruly ==
    ASSUME TypeOK, Accounted, Truthful, NEW x \in Requests, NEW sse \in BOOLEAN,
           UpstreamResponds(x, sse)
    PROVE  Progress(x)
<1> DEFINE f == exchange[x]
           warned == f.log.warned \/ (f.chat /\ ~f.restore)
           log == [f.log EXCEPT !.warned = warned]
           phase == IF f.chat /\ ~sse THEN "buffering" ELSE "streaming"
           e == [f EXCEPT !.phase = phase, !.log = log]
<1>1. /\ f \in Exchange /\ f.log \in Log /\ logs[x] = <<>> /\ ~f.left
      /\ f.client = <<>> /\ f.carry = <<>> /\ f.restored = 0 /\ ~f.usage /\ Blank(f.log)
  <2>1. ~In(x, "streaming") /\ In(x, "connecting")
    BY DEF UpstreamResponds, In
  <2> QED
    BY <2>1, UnderWayTruly
<1>2. log \in Log /\ Blank(log)
  BY <1>1 DEF Log, Exchange, Blank
<1>3. Continue(x, e) /\ UNCHANGED logs
  BY DEF UpstreamResponds
<1> HIDE DEF log
<1>4. /\ phase \in {"buffering", "streaming"} /\ (phase = "buffering" => f.chat)
  OBVIOUS
<1> HIDE DEF phase
<1>5. /\ e \in Exchange /\ e.phase = phase /\ e.log = log /\ e.client = f.client
      /\ e.carry = f.carry /\ e.restored = f.restored /\ e.usage = f.usage /\ e.left = f.left
      /\ e.chat = f.chat
      /\ e.value = f.value /\ e.restore = f.restore /\ e.sent = f.sent
  BY <1>1, <1>2, <1>4 DEF Exchange
<1> HIDE DEF e, f
<1>6. Truth(e, logs[x])
  <2>1. <<>> \in Seq(Units) /\ Len(<<>>) = 0 /\ Originals(<<>>) = 0 /\ ~Reports(<<>>)
    BY NothingYet, ReportsOf
  <2>2. Counted(e)
    BY <1>1, <1>2, <1>5, <2>1 DEF Counted, Blank
  <2> QED
    BY <1>1, <1>2, <1>4, <1>5, <2>1, <2>2 DEF Truth
<1>7. Carries(f, e)
  BY <1>1, <1>5, NothingYet, Zenon DEF Carries, Smooth
<1> QED
  BY <1>3, <1>5, <1>6, <1>7, GoesOnTruly, Zenon DEF f

\* A body of the upstream has no alias but the one it consists of.
LEMMA BodyPairs ==
    ASSUME NEW text \in Bodies
    PROVE  text \in Seq(Units) /\ (text # Alias => NoPair(text))
<1>1. text \in Seq(Units)
  BY ExchangeAssumption
<1>2. ASSUME text # Alias PROVE NoPair(text)
  <2>1. \A i \in 1 .. Len(text) - 1 : SubSeq(text, i, i + 1) # Alias
    BY <1>2, ExchangeAssumption
  <2> SUFFICES ASSUME NEW i \in 1 .. Len(text) - 1, text[i] = "start" /\ text[i + 1] = "end"
               PROVE  FALSE
    BY Zenon DEF NoPair
  <2>2. SubSeq(text, i, i + 1) = <<text[i], text[i + 1]>>
    BY <1>1, PairIs
  <2> QED
    BY <2>1, <2>2, Zenon DEF Alias
<1> QED
  BY <1>1, <1>2

LEMMA BufferedTruly ==
    ASSUME TypeOK, Accounted, Truthful, NEW x \in Requests, NEW text \in Bodies, Buffered(x, text)
    PROVE  Progress(x)
<1> DEFINE f == exchange[x]
           restored == IF Restores(f) THEN Restore(f, text) ELSE text
           g == Deliver(f, restored)
           usage == Reports(restored)
           error == Has(restored, "fault")
           log == [g.log EXCEPT !.restored = Originals(restored), !.usage = usage, !.error = error]
           e == [g EXCEPT !.log = log]
<1>1. /\ f \in Exchange /\ f.log \in Log /\ logs[x] = <<>> /\ f.client = <<>> /\ f.log.bytes = 0
      /\ f.chat
  <2>1. ~In(x, "streaming") /\ In(x, "buffering")
    BY DEF Buffered, In
  <2> QED
    BY <2>1, UnderWayTruly DEF Blank
<1>2. text \in Seq(Units) /\ (text # Alias => NoPair(text))
  BY BodyPairs
<1>3. /\ <<"original">> \in Text /\ text \in Text
  BY <1>2 DEF Text
<1>4. restored = text \/ (text = Alias /\ restored = <<"original">>)
  BY Zenon DEF Restore
<1>5. restored \in Text
  BY <1>3, <1>4, Zenon
<1>6. usage <=> Reports(restored)
  OBVIOUS
<1>7. ~Restores(f) => restored \in Seq(Units)
  BY <1>2, Zenon
<1>8. Restores(f) /\ Known(f.value) => NoPair(restored)
  <2>1. NoPair(<<"original">>)
    BY PairOfItems, Zenon
  <2>2. Restores(f) /\ Known(f.value) => restored = IF text = Alias THEN <<"original">> ELSE text
    BY Zenon DEF Restore
  <2> QED
    BY <1>2, <2>1, <2>2, Zenon
<1>9. End(x, [g EXCEPT !.log.restored = Originals(restored), !.log.usage = usage, !.log.error = error])
  BY DEF Buffered
<1>10. usage \in BOOLEAN /\ error \in BOOLEAN
  BY DEF Reports, Has
<1> HIDE DEF restored, usage, error
<1>11. Originals(restored) \in Nat
  BY <1>5, OriginalsIsNat
<1>12. /\ g \in Exchange /\ g.log \in Log /\ g.client = restored /\ g.log.bytes = Len(restored)
       /\ g.chat = f.chat /\ g.value = f.value /\ g.restore = f.restore /\ g.sent = f.sent
  <2>1. /\ g \in Exchange /\ g.log \in Log /\ g.client = f.client \o restored
        /\ g.log.bytes = f.log.bytes + Len(restored)
        /\ g.chat = f.chat /\ g.value = f.value /\ g.restore = f.restore /\ g.sent = f.sent
    BY <1>1, <1>5, DeliverIs, Zenon
  <2>2. <<>> \o restored = restored /\ 0 + Len(restored) = Len(restored)
    BY <1>5, ConcatEmptySeq DEF Text
  <2> QED
    BY <1>1, <2>1, <2>2, Zenon
<1> HIDE DEF g
<1>13. /\ log \in Log /\ log.bytes = g.log.bytes /\ log.restored = Originals(restored)
       /\ log.usage = usage
  BY <1>10, <1>11, <1>12 DEF Log
<1>14. [g EXCEPT !.log.restored = Originals(restored), !.log.usage = usage, !.log.error = error] = e
  BY <1>12 DEF Exchange
<1> HIDE DEF log
<1>15. /\ e \in Exchange /\ e.log = log /\ e.client = g.client /\ e.chat = g.chat
       /\ e.value = g.value /\ e.restore = g.restore /\ e.sent = g.sent
  BY <1>12, <1>13 DEF Exchange
<1>16. End(x, e)
  BY <1>9, <1>14
<1> HIDE DEF e, f
<1>17. Restores(e) = Restores(f)
  BY <1>12, <1>15, Zenon DEF Restores
<1>18. Tells(e.log, e)
  BY <1>1, <1>6, <1>12, <1>13, <1>15, Zenon DEF Tells
<1>19. ~Restores(e) => e.client \in Seq(Units)
  BY <1>7, <1>12, <1>15, <1>17, Zenon
<1>20. Restores(e) /\ Known(e.value) => NoPair(e.client)
  BY <1>8, <1>12, <1>15, <1>17, Zenon
<1>21. e.chat = f.chat /\ e.value = f.value /\ e.restore = f.restore /\ e.sent = f.sent
  BY <1>12, <1>15, Zenon
<1> QED
  BY <1>1, <1>15, <1>16, <1>18, <1>19, <1>20, <1>21, EndsTruly, Zenon DEF f

LEMMA StreamEndsTruly ==
    ASSUME TypeOK, Accounted, Truthful, NEW x \in Requests, StreamEnds(x)
    PROVE  Progress(x)
<1> DEFINE f == exchange[x]
           g == Finalize(f)
           client == g.client \o f.carry
           e == [g EXCEPT !.client = client]
<1>1. /\ f \in Exchange /\ f.log \in Log /\ logs[x] = <<>> /\ f.client \in Text
      /\ f.carry \in {<<>>, <<"start">>} /\ Counted(f)
      /\ ~Restores(f) => f.client \in Seq(Units) /\ f.carry = <<>>
  BY UnderWayTruly DEF StreamEnds
<1>2. /\ g \in Exchange /\ g.log \in Log /\ g.client = f.client
      /\ g.log.bytes = f.log.bytes + Len(f.carry)
      /\ g.log.restored = IF Restores(f) THEN f.restored ELSE f.log.restored
      /\ g.log.usage = IF f.usage THEN TRUE ELSE f.log.usage
      /\ g.chat = f.chat /\ g.value = f.value /\ g.restore = f.restore /\ g.sent = f.sent
  BY <1>1, FinalizeIs, Zenon
<1>3. End(x, e)
  BY DEF StreamEnds
<1>4. f.carry \in Seq(Units) /\ f.carry \in Text
  BY <1>1 DEF Exchange, Text
<1>5. client = f.client \o f.carry
  BY <1>2, Zenon
<1> HIDE DEF g, client
<1>6. client \in Text /\ Len(client) = Len(f.client) + Len(f.carry)
  BY <1>1, <1>4, <1>5 DEF Text
<1>14. Reports(client) <=> Reports(f.client)
  <2>1. "start" # "usage" /\ "start" # "fault"
    OBVIOUS
  <2>2. ~Reports(f.carry)
    BY <1>1, <2>1, ReportsOf, Zenon
  <2> QED
    BY <1>1, <1>4, <1>5, <2>2, ReportsJoin, Zenon
<1>15. g.log.restored = Originals(f.client) /\ (g.log.usage <=> f.chat /\ Reports(f.client))
  <2>1. ~Restores(f) => Originals(f.client) = 0
    BY <1>1, NoOriginals
  <2>2. f.restored = Originals(f.client) /\ (f.usage <=> f.chat /\ Reports(f.client))
        /\ f.log.restored = 0 /\ ~f.log.usage
    BY <1>1, Zenon DEF Counted
  <2> QED
    BY <1>2, <2>1, <2>2, Zenon
<1>16. g.log.bytes = Len(client)
  BY <1>1, <1>2, <1>6, Zenon DEF Counted
<1>7. Originals(client) = Originals(f.client)
  BY <1>1, <1>4, <1>5, OriginalsBefore, Zenon
<1>8. /\ e \in Exchange /\ e.log = g.log /\ e.client = client /\ e.chat = g.chat
      /\ e.value = g.value /\ e.restore = g.restore /\ e.sent = g.sent
  BY <1>2, <1>6 DEF Exchange, Text
<1> HIDE DEF e
<1>9. Restores(e) = Restores(f)
  BY <1>2, <1>8, Zenon DEF Restores
<1>10. ~Restores(e) => e.client \in Seq(Units)
  <2>1. ~Restores(f) => f.client \o <<>> \in Seq(Units)
    BY <1>1, ConcatEmptySeq
  <2> QED
    BY <1>1, <1>5, <1>8, <1>9, <2>1, Zenon
<1>11. Tells(e.log, e)
  BY <1>2, <1>7, <1>8, <1>14, <1>15, <1>16, Zenon DEF Tells
<1>12. ASSUME Restores(e), Known(e.value), Smooth(f) PROVE NoPair(e.client)
  <2>1. NoPair(f.client)
    BY <1>9, <1>12, Zenon DEF Smooth
  <2>2. /\ NoPair(f.carry)
        /\ f.carry # <<>> => f.carry[1] # "end"
    <3>1. NoPair(<<"start">>) /\ <<"start">>[1] = "start" /\ "start" # "end"
      BY PairOfItems, OneItem
    <3> QED
      BY <1>1, <3>1, NothingYet, Zenon
  <2> QED
    BY <1>1, <1>4, <1>5, <1>8, <2>1, <2>2, PairJoin, Zenon
<1>13. e.chat = f.chat /\ e.value = f.value /\ e.restore = f.restore /\ e.sent = f.sent
  BY <1>2, <1>8, Zenon
<1> QED
  BY <1>1, <1>3, <1>8, <1>10, <1>11, <1>12, <1>13, EndsTruly, Zenon

LEMMA ChunkTruly ==
    ASSUME TypeOK, Accounted, Truthful, NEW x \in Requests, NEW unit \in Units, Chunk(x, unit)
    PROVE  Progress(x)
<1> DEFINE f == exchange[x]
           piece == Delivered(f, unit)
           carry == Kept(f, unit)
           g == Deliver(f, piece)
           chunks == g.chunks + 1
           restored == g.restored + Originals(Whole(f, unit))
           usage == g.usage \/ (f.chat /\ Reports(<<unit>>))
           e == [g EXCEPT !.chunks = chunks, !.carry = carry, !.restored = restored, !.usage = usage]
<1>1. /\ f \in Exchange /\ f.log \in Log /\ logs[x] = <<>> /\ f.client \in Text
      /\ ~f.left /\ f.carry \in {<<>>, <<"start">>} /\ Counted(f)
      /\ ~Restores(f) => f.client \in Seq(Units) /\ f.carry = <<>>
  BY UnderWayTruly DEF Chunk
<1>2. Continue(x, e) /\ UNCHANGED logs /\ f.phase = "streaming" /\ f.chunks < MaxChunks
  BY DEF Chunk, In, Delivered, Kept, Whole
<1>3. Piece(f, unit, piece, carry)
  <2>1. f \in Exchange /\ f.carry \in {<<>>, <<"start">>}
    BY <1>1
  <2> HIDE DEF f
  <2> QED
    BY <2>1, ChunkPiece
<1> HIDE DEF piece, carry
<1>4. /\ piece \in Text /\ carry \in {<<>>, <<"start">>}
      /\ ~Restores(f) => piece \in Seq(Units) /\ carry = <<>>
      /\ piece \in Seq(Units) \/ piece = <<"original">>
      /\ Reports(piece) <=> Reports(<<unit>>)
  BY <1>3, PieceIs, Zenon
<1>13. Originals(Whole(f, unit)) = Originals(piece) /\ Originals(piece) \in Nat
  <2> HIDE DEF f
  <2>1. Originals(Whole(f, unit)) = Originals(piece)
    BY <1>1, <1>3, PieceHasAll
  <2> QED
    BY <1>4, <2>1, OriginalsIsNat, Zenon
<1>5. /\ g \in Exchange /\ g.log \in Log /\ g.client = f.client \o piece /\ g.client \in Text
      /\ g.log.bytes = f.log.bytes + Len(piece) /\ g.log.error = f.log.error
      /\ g.phase = f.phase /\ g.chat = f.chat /\ g.value = f.value /\ g.restore = f.restore
      /\ g.sent = f.sent /\ g.chunks = f.chunks /\ g.left = f.left
      /\ g.restored = f.restored /\ g.usage = f.usage
      /\ g.log.restored = f.log.restored /\ g.log.usage = f.log.usage
  BY <1>1, <1>4, DeliverIs, Zenon
<1> HIDE DEF g
<1>14. /\ restored \in Nat /\ restored = Originals(f.client \o piece)
       /\ usage \in BOOLEAN /\ (usage <=> f.chat /\ Reports(f.client \o piece))
  <2>1. Originals(f.client \o piece) = Originals(f.client) + Originals(piece)
    BY <1>1, <1>4, OriginalsJoin
  <2>2. Originals(f.client) \in Nat
    BY <1>1, OriginalsIsNat
  <2>3. Reports(f.client \o piece) <=> Reports(f.client) \/ Reports(<<unit>>)
    BY <1>1, <1>4, ReportsJoin, Zenon
  <2>4. f.chat \in BOOLEAN /\ g.usage \in BOOLEAN
    BY <1>1, <1>5 DEF Exchange
  <2>5. restored = Originals(f.client) + Originals(piece)
    BY <1>1, <1>5, <1>13, Zenon DEF Counted
  <2>6. usage <=> f.chat /\ (Reports(f.client) \/ Reports(<<unit>>))
    BY <1>1, <1>5, Zenon DEF Counted
  <2>7. usage \in BOOLEAN
    BY <2>4 DEF Reports, Has
  <2> HIDE DEF restored, usage
  <2> QED
    BY <1>13, <2>1, <2>2, <2>3, <2>5, <2>6, <2>7
<1> HIDE DEF restored, usage
<1>6. chunks \in 0 .. MaxChunks /\ chunks > 0
  BY <1>1, <1>2, <1>5, ExchangeAssumption, SMTT(60) DEF Exchange
<1> HIDE DEF chunks
<1>7. carry \in Seq(Units)
  <2>1. <<>> \in Seq(Units) /\ <<"start">> \in Seq(Units)
    BY DEF Units
  <2> QED
    BY <1>4, <2>1, Zenon
<1>8. /\ e \in Exchange /\ e.log = g.log /\ e.client = g.client /\ e.chat = g.chat
      /\ e.value = g.value /\ e.restore = g.restore /\ e.sent = g.sent /\ e.phase = g.phase
      /\ e.chunks = chunks /\ e.carry = carry /\ e.left = g.left
      /\ e.restored = restored /\ e.usage = usage
  BY <1>5, <1>6, <1>7, <1>14 DEF Exchange
<1> HIDE DEF e
<1>9. Restores(e) = Restores(f)
  BY <1>5, <1>8, Zenon DEF Restores
<1>10. Len(f.client \o piece) = Len(f.client) + Len(piece)
  BY <1>1, <1>4 DEF Text
<1>11. Truth(e, logs[x])
  <2>1. ~Restores(e) => e.client \in Seq(Units)
    <3>1. ~Restores(f) => f.client \o piece \in Seq(Units)
      BY <1>1, <1>4, ConcatProperties
    <3> QED
      BY <1>5, <1>8, <1>9, <3>1, Zenon
  <2>2. Counted(e)
    <3>1. /\ ~f.log.error /\ f.log.bytes = Len(f.client) /\ f.log.restored = 0 /\ ~f.log.usage
      BY <1>1, Zenon DEF Counted
    <3> QED
      BY <1>5, <1>8, <1>10, <1>14, <3>1, Zenon DEF Counted
  <2>3. /\ e.phase = "streaming" /\ "streaming" # "new" /\ "streaming" # "reading"
        /\ "streaming" # "connecting" /\ "streaming" # "buffering" /\ "streaming" # "over"
    BY <1>2, <1>5, <1>8
  <2> QED
    BY <1>1, <1>4, <1>5, <1>8, <1>9, <2>1, <2>2, <2>3, Zenon DEF Truth
<1>12. Carries(f, e)
  <2>1. ASSUME Restores(f), Known(f.value), Smooth(f)
        PROVE  NoPair(e.client) /\ (OpenEnd(e.client) => e.carry = <<"start">>)
    <3>1. NoPair(f.client) /\ (OpenEnd(f.client) => f.carry = <<"start">>)
      BY <1>2, <2>1, Zenon DEF Smooth
    <3> QED
      BY <1>1, <1>3, <1>5, <1>8, <2>1, <3>1, PieceSmooth, ZenonT(60)
  <2> QED
    BY <1>5, <1>8, <1>9, <2>1, Zenon DEF Carries, Smooth
<1> QED
  BY <1>2, <1>8, <1>11, <1>12, GoesOnTruly, Zenon
-----------------------------------------------------------------------------
\* A step leaves the table as it is, or issues the alias of a request of a conversation.
TableMoves(x) ==
    /\ ~In(x, "over")
    /\ \/ UNCHANGED <<table, lost>>
       \/ exchange[x].chat /\ exchange[x].value \in Values /\ Issue(exchange[x].value)

LEMMA StepsProgress ==
    ASSUME TypeOK, Accounted, Truthful, Next
    PROVE  \/ \E x \in Requests : Progress(x) /\ TableMoves(x)
           \/ \E x \in Requests, chat \in BOOLEAN, v \in Values : Handle(x, chat, v)
           \/ UpdateConfig
<1>0. "over" \notin {"new", "reading", "connecting", "buffering", "streaming"}
      /\ "new" # "over" /\ "reading" # "over" /\ "connecting" # "over"
      /\ "buffering" # "over" /\ "streaming" # "over"
  OBVIOUS
<1>1. ASSUME NEW x \in Requests, Local(x) PROVE Progress(x) /\ TableMoves(x)
  BY <1>0, <1>1, LocalTruly, ZenonT(60) DEF Local, TableMoves, In
<1>2. ASSUME NEW x \in Requests, Redact(x) PROVE Progress(x) /\ TableMoves(x)
  <2>1. exchange[x].value \in Values
    BY <1>2, Before DEF Redact, In, Standing
  <2> QED
    BY <1>0, <1>2, <2>1, RedactTruly, ZenonT(60) DEF Redact, TableMoves, In
<1>3. ASSUME NEW x \in Requests, Forward(x) PROVE Progress(x) /\ TableMoves(x)
  BY <1>0, <1>3, ForwardTruly, ZenonT(60) DEF Forward, TableMoves, In
<1>4. ASSUME NEW x \in Requests, Fails(x) PROVE Progress(x) /\ TableMoves(x)
  <2>1. exchange[x].value \in Values
    BY <1>4, Before DEF Fails, In, Standing
  <2> QED
    BY <1>0, <1>4, <2>1, FailsTruly, ZenonT(60) DEF Fails, TableMoves, In
<1>5. ASSUME NEW x \in Requests, UpstreamFails(x) PROVE Progress(x) /\ TableMoves(x)
  BY <1>0, <1>5, UpstreamFailsTruly, ZenonT(60) DEF UpstreamFails, TableMoves, In
<1>6. ASSUME NEW x \in Requests, NEW sse \in BOOLEAN, UpstreamResponds(x, sse)
      PROVE  Progress(x) /\ TableMoves(x)
  BY <1>0, <1>6, UpstreamRespondsTruly, ZenonT(60) DEF UpstreamResponds, TableMoves, In
<1>7. ASSUME NEW x \in Requests, NEW text \in Bodies, Buffered(x, text)
      PROVE  Progress(x) /\ TableMoves(x)
  BY <1>0, <1>7, BufferedTruly, ZenonT(60) DEF Buffered, TableMoves, In
<1>8. ASSUME NEW x \in Requests, NEW unit \in Units, Chunk(x, unit)
      PROVE  Progress(x) /\ TableMoves(x)
  BY <1>0, <1>8, ChunkTruly, ZenonT(60) DEF Chunk, TableMoves, In
<1>9. ASSUME NEW x \in Requests, StreamEnds(x) PROVE Progress(x) /\ TableMoves(x)
  BY <1>0, <1>9, StreamEndsTruly, ZenonT(60) DEF StreamEnds, TableMoves, In
<1>10. ASSUME NEW x \in Requests, StreamBreaks(x) PROVE Progress(x) /\ TableMoves(x)
  BY <1>0, <1>10, StreamBreaksTruly, ZenonT(60) DEF StreamBreaks, TableMoves, In
<1>11. ASSUME NEW x \in Requests, Leave(x) PROVE Progress(x) /\ TableMoves(x)
  BY <1>0, <1>11, LeaveTruly, ZenonT(60) DEF Leave, TableMoves, In
<1> QED
  BY <1>1, <1>2, <1>3, <1>4, <1>5, <1>6, <1>7, <1>8, <1>9, <1>10, <1>11, Zenon DEF Next

\* A request that begins is served as it is asked, under the setting in force.
LEMMA HandleIs ==
    ASSUME TypeOK, Accounted, Truthful, NEW x \in Requests, NEW chat \in BOOLEAN,
           NEW v \in Values, Handle(x, chat, v)
    PROVE  /\ exchange[x] = NewExchange /\ logs' = logs
           /\ \E e \in Exchange :
                  /\ exchange' = [exchange EXCEPT ![x] = e]
                  /\ Truth(e, logs[x]) /\ e.chat = chat /\ e.value = v /\ e.sent = None
<1> DEFINE e == [NewExchange EXCEPT
            !.phase = "reading", !.chat = chat, !.value = v, !.restore = restore]
<1>1. exchange[x] = NewExchange
  BY DEF Handle, In, Truthful, Truth
<1>2. exchange' = [exchange EXCEPT ![x] = e] /\ logs' = logs
  BY DEF Handle, Continue
<1>3. /\ e \in Exchange /\ e.phase = "reading" /\ e.chat = chat /\ e.value = v /\ e.sent = None
      /\ e.client = <<>> /\ e.carry = <<>> /\ e.restored = 0 /\ ~e.usage /\ ~e.left
  <2>1. restore \in BOOLEAN /\ NewExchange \in Exchange
    BY Before DEF TypeOK
  <2> QED
    BY <2>1, ZenonT(60) DEF Exchange, NewExchange
<1> HIDE DEF e
<1>4. Truth(e, logs[x])
  <2>1. <<>> \in Seq(Units)
    OBVIOUS
  <2> QED
    BY <1>3, <2>1 DEF Truth
<1> QED
  BY <1>1, <1>2, <1>3, <1>4, Zenon

LEMMA TruthStays ==
    ASSUME TypeOK, Accounted, Truthful, [Next]_vars
    PROVE  Truthful'
<1>1. ASSUME NEW x \in Requests, NEW f \in Exchange, NEW records \in Seq(Log),
             Becomes(x, f, records), Truth(f, records)
      PROVE  Truthful'
  <2>1. \A y \in Requests : /\ exchange'[y] = IF y = x THEN f ELSE exchange[y]
                            /\ logs'[y] = IF y = x THEN records ELSE logs[y]
    BY <1>1 DEF TypeOK, Becomes
  <2>2. \A y \in Requests : Truth(exchange'[y], logs'[y])
    BY <1>1, <2>1, Zenon DEF Truthful
  <2> QED
    BY <2>2, Zenon DEF Truthful
<1>2. ASSUME NEW x \in Requests, Progress(x) PROVE Truthful'
  BY <1>1, <1>2, Zenon DEF Progress
<1>3. ASSUME NEW x \in Requests, NEW chat \in BOOLEAN, NEW v \in Values, Handle(x, chat, v)
      PROVE  Truthful'
  <2>1. PICK e \in Exchange : exchange' = [exchange EXCEPT ![x] = e] /\ Truth(e, logs[x])
    BY <1>3, HandleIs, Zenon
  <2>2. logs' = logs
    BY <1>3, HandleIs, Zenon
  <2>3. Becomes(x, e, logs[x]) /\ logs[x] \in Seq(Log)
    BY <2>1, <2>2 DEF Becomes, TypeOK
  <2> QED
    BY <1>1, <2>1, <2>3
<1>4. CASE UpdateConfig
  BY <1>4, Zenon DEF UpdateConfig, Truthful
<1>5. CASE UNCHANGED vars
  BY <1>5, Zenon DEF vars, Truthful
<1>6. CASE Next
  BY <1>2, <1>3, <1>4, <1>6, StepsProgress, Zenon
<1> QED
  BY <1>5, <1>6, Zenon

LEMMA TrueAtFirst == Init => Truthful
<1>1. <<>> \in Seq(Units) /\ DOMAIN <<>> = {}
  OBVIOUS
<1>2. Truth(NewExchange, <<>>)
  BY <1>1 DEF Truth, NewExchange
<1> QED
  BY <1>2 DEF Init, Truthful

LEMMA Faithful == Spec => [](TypeOK /\ Accounted /\ Truthful)
<1>1. Init => TypeOK /\ Accounted /\ Truthful
  BY Initially, TrueAtFirst
<1>2. TypeOK /\ Accounted /\ Truthful /\ [Next]_vars => TypeOK' /\ Accounted' /\ Truthful'
  BY StepKeeps, TruthStays
<1> QED
  BY <1>1, <1>2, PTL DEF Spec

\* The record of an exchange that was read to its end tells what the client got, on every way
\* to that end: what the restorer and the collector of a stream have counted chunk by chunk
\* (body.rs: poll_next, finalize), and what the buffered answer counts at once, are what went
\* out, the held tail included.
THEOREM RecordIsTrue == Spec => []RecordTellsDelivery
<1>1. TypeOK /\ Accounted /\ Truthful => RecordTellsDelivery
  <2> SUFFICES ASSUME TypeOK, Accounted, Truthful, NEW x \in Requests, NEW i \in DOMAIN logs[x],
                      ~logs[x][i].error, ~exchange[x].left
      PROVE  Tells(logs[x][i], exchange[x])
    BY Zenon DEF RecordTellsDelivery, Tells
  <2>1. logs[x] # <<>>
    BY DEF TypeOK
  <2>2. exchange[x].phase = "over"
    BY <2>1, Before DEF Standing, Exchange
  <2> QED
    BY <2>2, Zenon DEF Truthful, Truth
<1> QED
  BY <1>1, Faithful, PTL
-----------------------------------------------------------------------------
\* The alias of a rewritten request stays in the table until its response is through, unless
\* others push it out; until then no client has got an alias of its own.
AllKept ==
    \A x \in Requests : exchange[x].sent = "alias" /\ x \notin lost =>
        Smooth(exchange[x]) /\ (~In(x, "over") => Known(exchange[x].value))

KnownThen(v) == \E i \in DOMAIN table' : table'[i] = v

LEMMA IssueKnows ==
    ASSUME TypeOK, NEW v \in Values, Issue(v)
    PROVE  KnownThen(v)
<1>1. table \in Seq(Values) /\ Len(table) \in Nat /\ Len(table) <= Cap /\ Cap \in Nat \ {0}
  BY ExchangeAssumption DEF TypeOK
<1>2. CASE Known(v)
  BY <1>2 DEF Issue, Known, KnownThen
<1>3. ASSUME NEW head \in Seq(Values), table' = Append(head, v) PROVE KnownThen(v)
  <2>1. Len(head) + 1 \in DOMAIN table' /\ table'[Len(head) + 1] = v
    BY <1>3
  <2> QED
    BY <2>1 DEF KnownThen
<1>4. CASE ~Known(v) /\ Len(table) = Cap
  <2>1. Tail(table) \in Seq(Values) /\ table' = Append(Tail(table), v)
    BY <1>1, <1>4 DEF Issue
  <2> QED
    BY <1>3, <2>1
<1>5. CASE ~Known(v) /\ Len(table) # Cap
  <2>1. table' = Append(table, v)
    BY <1>5 DEF Issue
  <2> QED
    BY <1>1, <1>3, <2>1
<1> QED
  BY <1>2, <1>4, <1>5

LEMMA ProgressKeepsAll ==
    ASSUME TypeOK, AllKept, NEW x \in Requests, Progress(x), TableMoves(x)
    PROVE  AllKept'
<1>1. PICK f \in Exchange, records \in Seq(Log) :
           Becomes(x, f, records) /\ Carries(exchange[x], f)
  BY Zenon DEF Progress
<1> DEFINE e == exchange[x]
<1>2. exchange' = [exchange EXCEPT ![x] = f]
  BY <1>1 DEF Becomes
<1>3. \A y \in Requests : exchange'[y] = IF y = x THEN f ELSE exchange[y]
  BY <1>2 DEF TypeOK
\* What was known stays so, or its request is noted.
<1>4. /\ lost \subseteq lost'
      /\ \A y \in Requests :
            /\ exchange[y].sent = "alias" /\ exchange[y].phase # "over" /\ y \notin lost'
            /\ Known(exchange[y].value)
            => KnownThen(exchange[y].value)
  <2>1. CASE UNCHANGED <<table, lost>>
    BY <2>1, Zenon DEF Known, KnownThen
  <2>2. CASE exchange[x].chat /\ exchange[x].value \in Values /\ Issue(exchange[x].value)
    <3>1. lost' = lost \cup {y \in Requests :
              /\ exchange[y].sent = "alias" /\ exchange[y].phase # "over"
              /\ ~KnownThen(exchange[y].value)}
      BY <2>2, Zenon DEF Issue, In, KnownThen
    <3> QED
      BY <3>1
  <2> QED
    BY <2>1, <2>2, Zenon DEF TableMoves
<1>5. ASSUME NEW y \in Requests, exchange'[y].sent = "alias", y \notin lost'
      PROVE  /\ Smooth(exchange'[y])
             /\ exchange'[y].phase # "over" => KnownThen(exchange'[y].value)
  <2>1. CASE y # x
    <3>1. exchange'[y] = exchange[y] /\ y \notin lost
      BY <1>3, <1>4, <1>5, <2>1
    <3> QED
      BY <1>4, <1>5, <3>1, Zenon DEF AllKept, In
  <2>2. CASE y = x /\ f.sent = e.sent
    <3>1. exchange'[y] = f /\ y \notin lost /\ e.sent = "alias" /\ e.phase # "over"
      BY <1>3, <1>4, <1>5, <2>2 DEF TableMoves, In
    <3>2. Known(e.value) /\ Smooth(e)
      BY <2>2, <3>1, Zenon DEF AllKept, In
    <3>3. KnownThen(e.value)
      BY <1>4, <1>5, <2>2, <3>1, <3>2, Zenon
    <3> QED
      BY <1>1, <3>1, <3>2, <3>3, Zenon DEF Carries
  <2>3. CASE /\ y = x /\ f.client = <<>>
             /\ f.sent = "alias" => e.chat /\ e.value \in Values /\ Issue(e.value)
    <3>1. exchange'[y] = f /\ f.value = e.value /\ e.value \in Values /\ Issue(e.value)
      BY <1>1, <1>3, <1>5, <2>3, Zenon DEF Carries
    <3>2. KnownThen(e.value)
      BY <3>1, IssueKnows
    <3>3. Smooth(f)
      BY <2>3, NothingYet, Zenon DEF Smooth
    <3> QED
      BY <3>1, <3>2, <3>3, Zenon
  <2> QED
    BY <1>1, <2>1, <2>2, <2>3, Zenon DEF Carries
<1> QED
  BY <1>5, Zenon DEF AllKept, In, Known, KnownThen

LEMMA HandleKeepsAll ==
    ASSUME TypeOK, Accounted, Truthful, AllKept, NEW x \in Requests, NEW chat \in BOOLEAN,
           NEW v \in Values, Handle(x, chat, v)
    PROVE  AllKept'
<1>1. PICK e \in Exchange : exchange' = [exchange EXCEPT ![x] = e] /\ e.sent = None
  <2>1. PICK e \in Exchange :
            /\ exchange' = [exchange EXCEPT ![x] = e]
            /\ Truth(e, logs[x]) /\ e.chat = chat /\ e.value = v /\ e.sent = None
    BY HandleIs
  <2> QED
    BY <2>1
<1>2. \A y \in Requests : exchange'[y] = IF y = x THEN e ELSE exchange[y]
  BY <1>1 DEF TypeOK
<1>3. table' = table /\ lost' = lost /\ None # "alias"
  BY ExchangeAssumption DEF Handle
<1>4. \A y \in Requests : exchange'[y].sent = "alias" => exchange'[y] = exchange[y]
  BY <1>1, <1>2, <1>3, Zenon
<1> QED
  BY <1>3, <1>4, Zenon DEF AllKept, In, Known

LEMMA KeepsAll ==
    ASSUME TypeOK, Accounted, Truthful, AllKept, [Next]_vars
    PROVE  AllKept'
<1>0. ASSUME exchange' = exchange, table' = table, lost' = lost PROVE AllKept'
  BY <1>0, Zenon DEF AllKept, In, Known
<1>1. CASE UpdateConfig
  BY <1>0, <1>1, Zenon DEF UpdateConfig
<1>2. CASE UNCHANGED vars
  BY <1>0, <1>2, Zenon DEF vars
<1>3. CASE Next
  BY <1>1, <1>3, StepsProgress, ProgressKeepsAll, HandleKeepsAll, Zenon
<1> QED
  BY <1>2, <1>3, Zenon

LEMMA AllKeptAtFirst == Init => AllKept
  BY ExchangeAssumption DEF Init, AllKept, NewExchange

\* The client of a request that was not to be restored gets no original; the client of one
\* that was, and that went out rewritten, never gets an alias of its own request, not even one
\* cut by chunks, until the requests of others push that alias out of the table before the
\* response is through (SseRestorer, placeholder_for).
THEOREM OriginalsAsAsked == Spec => []RestoredAsAsked
<1>1. Init => TypeOK /\ Accounted /\ Truthful /\ AllKept
  BY Initially, TrueAtFirst, AllKeptAtFirst
<1>2. TypeOK /\ Accounted /\ Truthful /\ AllKept /\ [Next]_vars
          => TypeOK' /\ Accounted' /\ Truthful' /\ AllKept'
  BY StepKeeps, TruthStays, KeepsAll
<1>3. TypeOK /\ Truthful /\ AllKept => RestoredAsAsked
  <2> SUFFICES ASSUME TypeOK, Truthful, AllKept, NEW x \in Requests
      PROVE  /\ ~Restores(exchange[x]) => Originals(exchange[x].client) = 0
             /\ Restores(exchange[x]) /\ exchange[x].sent = "alias" /\ x \notin lost =>
                    \A i \in 1 .. Len(exchange[x].client) - 1 : SubSeq(exchange[x].client, i, i + 1) # Alias
    BY Zenon DEF RestoredAsAsked
  <2>1. ~Restores(exchange[x]) => Originals(exchange[x].client) = 0
    BY NoOriginals, Zenon DEF Truthful, Truth
  <2>2. ASSUME Restores(exchange[x]), exchange[x].sent = "alias", x \notin lost,
               NEW i \in 1 .. Len(exchange[x].client) - 1
        PROVE  SubSeq(exchange[x].client, i, i + 1) # Alias
    <3> DEFINE text == exchange[x].client
    <3>1. text \in Text
      BY DEF TypeOK, Exchange, Text
    <3>2. ~(text[i] = "start" /\ text[i + 1] = "end")
      BY <2>2, Zenon DEF AllKept, Smooth, NoPair
    <3> HIDE DEF text
    <3>3. SubSeq(text, i, i + 1) = <<text[i], text[i + 1]>>
      BY <2>2, <3>1, PairIs DEF Text, text
    <3>4. <<text[i], text[i + 1]>> # Alias
      BY <3>2, PairNotAlias, Zenon
    <3> QED
      BY <3>3, <3>4, Zenon DEF text
  <2> QED
    BY <2>1, <2>2, Zenon
<1> QED
  BY <1>1, <1>2, <1>3, PTL DEF Spec
=============================================================================
