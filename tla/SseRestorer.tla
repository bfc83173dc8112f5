---------------------------- MODULE SseRestorer ----------------------------
(***************************************************************************)
(* Restoring aliases in a stream of JSON events, where one alias may be    *)
(* spread over several events (crates/proxy-core/src/sse_restore.rs, with  *)
(* the carriers and terminators of crates/providers/src/sse.rs).           *)
(*                                                                         *)
(* An event is its carriers, that is the texts it appends to the blocks of *)
(* the response, the blocks it ends, and the key prefix that the proxy     *)
(* reads in it (Terminator::Prefix; the empty prefix is Terminator::All).  *)
(* The table does not change while the response is streamed.               *)
(***************************************************************************)
EXTENDS AliasText

CONSTANTS
    Keys,       \* the keys of the blocks of a response, such as c0 and c0t1: sequences
    Events,     \* the events the upstream may send
    Tables,     \* the tables a response may be restored with
    MaxEvents,  \* bound: events per response
    None        \* no pending tail, no terminator

Characters == UNION {ToSet(text) : text \in
    Aliases \cup {Original[a] : a \in Aliases} \cup {PREFIX} \cup
    UNION {{e.carriers[i].text : i \in DOMAIN e.carriers} : e \in Events}}

Carriers == [key : Keys, text : Seq(Characters)]

\* A tail that is held back, and what will deliver it: the carriers of an event, one of which
\* has a slot for the tail.
PendingTails == [tail : Seq(Characters), template : Seq(Carriers), slot : Nat]

ASSUME EventAssumption ==
    /\ \A e \in Events :
        /\ e.ends \subseteq Keys
        /\ e.terminator = None <=> e.ends = {}
        /\ e.carriers \in Seq(Carriers)
    /\ \A t \in Tables : t \subseteq Aliases /\ IsFiniteSet(t)
    /\ IsFiniteSet(Keys)
    /\ None \notin PendingTails

VARIABLES
    live,       \* the aliases in the table
    events,     \* how many events have arrived
    pending,    \* key -> [tail, template, slot], or None
    received,   \* key -> the text of the block as the upstream sent it
    delivered,  \* key -> the text of the block as the client has it
    ended,      \* the blocks that the upstream has ended
    finished    \* the response is over

vars == <<live, events, pending, received, delivered, ended, finished>>

Init ==
    /\ live \in Tables
    /\ events = 0
    /\ pending = [k \in Keys |-> None]
    /\ received = [k \in Keys |-> <<>>]
    /\ delivered = [k \in Keys |-> <<>>]
    /\ ended = {}
    /\ finished = FALSE
-----------------------------------------------------------------------------
\* The text that a sequence of carriers, or of events, appends to the block k.
TextOf(carriers, k) ==
    FlattenSeq([i \in DOMAIN carriers |-> IF carriers[i].key = k THEN carriers[i].text ELSE <<>>])
TextOfAll(out, k) == FlattenSeq([i \in DOMAIN out |-> TextOf(out[i], k)])

\* The i-th carrier of an event: its text is put after the pending tail and restored, and
\* the end of the result, when it may begin an alias, stays pending with the event as it is
\* now as its template.  acc: the pending tails and the event, as modified so far.
Carry(acc, i) ==
    LET k == acc.event[i].key
        tail == IF acc.pending[k] = None THEN <<>> ELSE acc.pending[k].tail
        restored == Restore(live, tail \o acc.event[i].text)
        split == Len(restored) - Holdback(live, live, restored)
        event == [acc.event EXCEPT ![i].text = SubSeq(restored, 1, split)]
    IN  [event |-> event,
         pending |-> [acc.pending EXCEPT ![k] =
             IF split = Len(restored) THEN None
             ELSE [tail |-> SubSeq(restored, split + 1, Len(restored)),
                   template |-> event, slot |-> i]]]

\* Mutant: the template is sent without the tail.
FlushedTemplate(p) == p.template

\* The event that delivers a pending tail: its template with the tail in its slot.
Flushed(p) == [p.template EXCEPT ![p.slot].text = Restore(live, p.tail)]

\* Mutant: a terminator is compared with the whole key.
TerminatedExactly(terminator) == IF terminator = None THEN {} ELSE {k \in Keys : terminator = k}

\* The blocks whose tails a terminator asks for.
Terminated(terminator) ==
    IF terminator = None THEN {} ELSE {k \in Keys : IsPrefix(terminator, k)}

\* The events that can be restored exactly: one text each, the end of a block by itself, and
\* a terminator that is the beginning of the keys of just the blocks that it ends.
PlainEvents ==
    \A e \in Events :
        /\ Len(e.carriers) <= 1
        /\ e.carriers = <<>> \/ e.ends = {}
        /\ \A k \in Keys : k \in e.ends <=> e.terminator # None /\ IsPrefix(e.terminator, k)

\* Mutant: a tail that has been flushed stays pending.
FlushKept(held, keys) == held

\* flush_pending takes the keys of a HashMap: in any order.
FlushOrders(held, keys) == SetToSeqs({k \in keys : held[k] # None})
FlushPending(held, keys) == [k \in Keys |-> IF k \in keys THEN None ELSE held[k]]

\* The client appends what it gets, event by event.
Deliver(out) == delivered' = [k \in Keys |-> delivered[k] \o TextOfAll(out, k)]
-----------------------------------------------------------------------------
RestoreJsonEvent(e) ==
    LET acc == FoldLeft(Carry, [event |-> e.carriers, pending |-> pending],
                        [i \in DOMAIN e.carriers |-> i])
        keys == Terminated(e.terminator)
    IN
    /\ pending' = FlushPending(acc.pending, keys)
    /\ \E order \in FlushOrders(acc.pending, keys) :
          Deliver([i \in DOMAIN order |-> Flushed(acc.pending[order[i]])] \o <<acc.event>>)
    /\ received' = [k \in Keys |-> received[k] \o TextOf(e.carriers, k)]
    /\ ended' = ended \cup e.ends

\* Nothing is sent to a block after its end.
Receive(e) ==
    /\ ~finished
    /\ events < MaxEvents
    /\ \A i \in DOMAIN e.carriers : e.carriers[i].key \notin ended
    /\ RestoreJsonEvent(e)
    /\ events' = events + 1
    /\ UNCHANGED <<live, finished>>

Finish ==
    /\ ~finished
    /\ pending' = FlushPending(pending, Keys)
    /\ \E order \in FlushOrders(pending, Keys) :
          Deliver([i \in DOMAIN order |-> Flushed(pending[order[i]])])
    /\ finished' = TRUE
    /\ UNCHANGED <<live, events, received, ended>>

Next == Finish \/ \E e \in Events : Receive(e)

Spec == Init /\ [][Next]_vars
-----------------------------------------------------------------------------
Held(k) == IF pending[k] = None THEN <<>> ELSE pending[k].tail

\* The client has every block exactly as one restoration of the whole block would give it:
\* once the block has ended, and before that up to the tail that is held back.  An alias
\* may be cut anywhere, and the blocks of a response are interleaved.
RestoredWhole ==
    \A k \in Keys : delivered[k] \o Restore(live, Held(k)) = Restore(live, received[k])

\* RestoredWhole, as long as the aliases can be told apart.
BlocksRestored ==
    NoOverlap(live) /\ NoneWithin(live) /\ WellShaped(live) /\ InertOriginals(live) => RestoredWhole

\* RestoredWhole also when an alias is part of another one (the test of holdback that keeps a
\* complete alias because a longer one may follow).  The restorer replaces the shorter
\* alias before it asks for the holdback.
LongerAliasRestored == NoOverlap(live) /\ InertOriginals(live) => RestoredWhole

\* A tail is never held for a block that has ended: the client would get text after its end
\* (the test that expects the stop event to be the last one), or never.
NoTailAfterEnd ==
    \A k \in Keys : pending[k] # None => k \notin ended /\ ~finished

\* Nothing is lost, repeated or reordered, whatever the aliases look like: the client has a
\* partial restoration of what arrived.  (What is held may be restored text already; an
\* original in it must not be taken for an alias.)
NothingLost ==
    InertOriginals(live) =>
        \A k \in Keys : delivered[k] \o Held(k) \in PartlyRestored(live, received[k])
=============================================================================
