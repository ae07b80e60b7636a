----------------------------- MODULE LiveEvents ------------------------------
(***************************************************************************)
(* A vendor's dashboard on its WebSocket: the orders service keeps the     *)
(* last events of a store in a Redis list, sends them round by Redis       *)
(* publish, and hands them to a small channel per client.  The client      *)
(* reconnects with the stamp of the last event it saw, and what the list   *)
(* still has after that stamp is replayed.  One replica, one client of     *)
(* interest; other clients of the store come and go.                       *)
(***************************************************************************)
EXTENDS Integers, SequencesExt

CONSTANTS
    MaxEvent,       \* bound: events published
    HistLen,
    Buffer          \* events a client's channel holds

ASSUME LiveEventsAssumption == MaxEvent \in Nat /\ HistLen \in Nat /\ Buffer \in Nat

VARIABLES
    stamp,          \* stamp[e]: the millisecond event e was published in
    publisher,      \* publisher[e]: how far Publish is with e
    history,        \* the store's list
    wire,           \* published by Redis, not yet handed out by the replica
    handing,        \* the event being handed to the clients listed when it came
    replay,         \* what the client's replay has still to send
    stray,          \* a replay for a connection that has closed is still running
    online,         \* the client is connected
    channel,        \* its channel
    last,           \* the stamp of the last event the client saw, 0 for none
    accounted       \* history: events the client has seen, or a named cause took from it

eventsVars == <<stamp, publisher, history, wire, handing, replay, stray, online, channel, last, accounted>>

-----------------------------------------------------------------------------

Event == 1..MaxEvent

Nothing == [op |-> "nothing"]

LiveEventsTypeOK ==
    /\ stamp \in [Event -> 0..MaxEvent]
    /\ publisher \in [Event -> {"none", "started", "stored", "done"}]
    /\ history \in Seq(Event) /\ Len(history) <= HistLen
    /\ wire \in Seq(Event)
    /\ handing \in {Nothing} \cup [op: {"handing"}, event: Event, open: BOOLEAN, shifted: BOOLEAN]
    /\ replay \in {Nothing} \cup [op: {"asked"}, after: 0..MaxEvent]
                            \cup [op: {"sending"}, items: Seq(Event), after: 0..MaxEvent]
    /\ stray \in BOOLEAN
    /\ online \in BOOLEAN
    /\ channel \in Seq(Event) /\ Len(channel) <= Buffer
    /\ last \in 0..MaxEvent
    /\ accounted \subseteq Event

LiveEventsInit ==
    /\ stamp = [e \in Event |-> 0]
    /\ publisher = [e \in Event |-> "none"]
    /\ history = <<>> /\ wire = <<>>
    /\ handing = Nothing /\ replay = Nothing /\ stray = FALSE
    /\ online = TRUE /\ channel = <<>> /\ last = 0
    /\ accounted = {}

-----------------------------------------------------------------------------
(* Publish, a goroutine per event. *)

\* Events are numbered in the order they start; two may share a millisecond.
Publish(e) ==
    /\ publisher[e] = "none" /\ \A f \in 1..(e - 1) : publisher[f] # "none"
    /\ \E tick \in {0, 1} :
           stamp' = [stamp EXCEPT ![e] = IF e = 1 THEN 1 ELSE stamp[e - 1] + tick]
    /\ publisher' = [publisher EXCEPT ![e] = "started"]
    /\ UNCHANGED <<history, wire, handing, replay, stray, online, channel, last, accounted>>

\* A replay that has asked for the list and not got it yet will miss what leaves it.
Dropped(es) == accounted' = IF replay.op = "asked" THEN accounted \cup es ELSE accounted

\* RPUSH and LTRIM.
AppendHistory(e) ==
    /\ publisher[e] = "started"
    /\ LET longer == Append(history, e)
           over == Len(longer) > HistLen
       IN  /\ history' = IF over THEN Tail(longer) ELSE longer
           /\ Dropped(IF over THEN {Head(longer)} ELSE {})
    /\ publisher' = [publisher EXCEPT ![e] = "stored"]
    /\ UNCHANGED <<stamp, wire, handing, replay, stray, online, channel, last>>

\* Redis refuses the list, and the event is sent round all the same.
HistoryWriteFails(e) ==
    /\ publisher[e] = "started"
    /\ publisher' = [publisher EXCEPT ![e] = "stored"]
    /\ UNCHANGED <<stamp, history, wire, handing, replay, stray, online, channel, last, accounted>>

\* PUBLISH comes back to this replica.  When Redis refuses it the replica hands the event
\* out by itself, which is the same to a client of this replica.
Broadcast(e) ==
    /\ publisher[e] = "stored"
    /\ wire' = Append(wire, e)
    /\ publisher' = [publisher EXCEPT ![e] = "done"]
    /\ UNCHANGED <<stamp, history, handing, replay, stray, online, channel, last, accounted>>

\* Ten minutes without an event.
HistoryExpires ==
    /\ history # <<>> /\ \A e \in Event : publisher[e] \in {"none", "done"}
    /\ history' = <<>>
    /\ Dropped(Range(history))
    /\ UNCHANGED <<stamp, publisher, wire, handing, replay, stray, online, channel, last>>

\* The subscription breaks, and what was under way is not sent again.
SubscriptionEnds ==
    /\ wire # <<>>
    /\ wire' = <<>>
    /\ accounted' = IF online THEN accounted \cup Range(wire) ELSE accounted
    /\ UNCHANGED <<stamp, publisher, history, handing, replay, stray, online, channel, last>>

-----------------------------------------------------------------------------
(* The replica's own delivery.  The clients are listed under the lock and sent to outside. *)

\* Mutant: the client is registered when its replay is over.
RegisteredLast == online /\ replay = Nothing

Registered == online

ListClients ==
    /\ wire # <<>> /\ handing = Nothing
    /\ wire' = Tail(wire)
    /\ handing' = IF Registered THEN [op |-> "handing", event |-> Head(wire), open |-> TRUE, shifted |-> FALSE]
                  ELSE Nothing
    /\ UNCHANGED <<stamp, publisher, history, replay, stray, online, channel, last, accounted>>

\* Another client leaves: the list that was read shares its array with the new one.
OtherLeaves ==
    /\ handing.op = "handing" /\ ~handing.shifted
    /\ handing' = [handing EXCEPT !.shifted = TRUE]
    /\ UNCHANGED <<stamp, publisher, history, wire, replay, stray, online, channel, last, accounted>>

\* A client that does not keep up is passed over.
Offer(e) ==
    IF Len(channel) < Buffer
    THEN channel' = Append(channel, e) /\ UNCHANGED accounted
    ELSE UNCHANGED channel /\ accounted' = accounted \cup {e}

Hand ==
    /\ handing.op = "handing" /\ handing.open
    /\ \/ Offer(handing.event)
       \/ handing.shifted /\ UNCHANGED channel /\ accounted' = accounted \cup {handing.event}
    /\ handing' = Nothing
    /\ UNCHANGED <<stamp, publisher, history, wire, replay, stray, online, last>>

\* The process stops; what it held is gone, and what it had not stored is nowhere else.
StopProcess ==
    /\ publisher' = [e \in Event |-> IF publisher[e] = "none" THEN "none" ELSE "done"]
    /\ wire' = <<>> /\ handing' = Nothing /\ replay' = Nothing /\ stray' = FALSE
    /\ online' = FALSE /\ channel' = <<>>
    /\ UNCHANGED <<stamp, history, last, accounted>>

\* A send on the channel of a client that has left panics, in a goroutine nobody recovers.
HandToTheGone == handing.op = "handing" /\ ~handing.open /\ StopProcess

-----------------------------------------------------------------------------
(* The client. *)

Read ==
    /\ online /\ channel # <<>>
    /\ LET e == Head(channel)
       IN  /\ accounted' = accounted \cup {e}
           /\ last' = stamp[e]
    /\ channel' = Tail(channel)
    /\ UNCHANGED <<stamp, publisher, history, wire, handing, replay, stray, online>>

\* Of what the list held when it was read, a replay sends what came after the stamp.
Newer(events, after) == {e \in Range(events) : stamp[e] > after}

ToReplay == IF last = 0 THEN {} ELSE Newer(history, last)

\* Published, gone by as a live event, and not in what a replay would read: trimmed, or
\* older than an event that came live before an earlier replay was through.
Missed == {e \in Event : publisher[e] = "done"} \ (Range(wire) \cup ToReplay)

\* Without a stamp nothing is replayed.
AskForReplay == replay' = IF last = 0 THEN Nothing ELSE [op |-> "asked", after |-> last]

\* Registered first and replayed afterwards, so that an event is in the list or comes live.
Subscribe ==
    /\ ~online
    /\ online' = TRUE /\ channel' = <<>>
    /\ AskForReplay
    /\ accounted' = accounted \cup Missed
    /\ UNCHANGED <<stamp, publisher, history, wire, handing, stray, last>>

\* unsub: the channel is taken off the list and closed.
Leave ==
    /\ online
    /\ online' = FALSE /\ channel' = <<>>
    /\ handing' = IF handing.op = "handing" THEN [handing EXCEPT !.open = FALSE] ELSE handing
    /\ stray' = (stray \/ replay # Nothing) /\ replay' = Nothing
    /\ UNCHANGED <<stamp, publisher, history, wire, last, accounted>>

ReadHistory ==
    /\ replay.op = "asked"
    /\ replay' = [op |-> "sending", items |-> history, after |-> replay.after]
    /\ UNCHANGED <<stamp, publisher, history, wire, handing, stray, online, channel, last, accounted>>

\* LRANGE fails or takes more than 3 s.
HistoryReadFails ==
    /\ replay.op = "asked"
    /\ replay' = Nothing
    /\ accounted' = accounted \cup Range(history)
    /\ UNCHANGED <<stamp, publisher, history, wire, handing, stray, online, channel, last>>

ReplayNext ==
    /\ replay.op = "sending"
    /\ IF replay.items = <<>>
       THEN replay' = Nothing /\ UNCHANGED <<channel, accounted>>
       ELSE /\ replay' = [replay EXCEPT !.items = Tail(@)]
            /\ IF stamp[Head(replay.items)] > replay.after THEN Offer(Head(replay.items))
               ELSE UNCHANGED <<channel, accounted>>
    /\ UNCHANGED <<stamp, publisher, history, wire, handing, stray, online, last>>

\* A replay whose client has left notices that, or panics as well.
ReplayToTheGone ==
    /\ stray
    /\ \/ StopProcess
       \/ stray' = FALSE
          /\ UNCHANGED <<stamp, publisher, history, wire, handing, replay, online, channel, last, accounted>>

LiveEventsNext ==
    \/ \E e \in Event : Publish(e)
    \/ \E e \in Event : AppendHistory(e)
    \/ \E e \in Event : HistoryWriteFails(e)
    \/ \E e \in Event : Broadcast(e)
    \/ HistoryExpires
    \/ SubscriptionEnds
    \/ ListClients
    \/ OtherLeaves
    \/ Hand
    \/ HandToTheGone
    \/ Read
    \/ Subscribe
    \/ Leave
    \/ ReadHistory
    \/ HistoryReadFails
    \/ ReplayNext
    \/ ReplayToTheGone

LiveEventsSpec == LiveEventsInit /\ [][LiveEventsNext]_eventsVars

-----------------------------------------------------------------------------

\* Nothing is on its way to a client who is connected.
Settled ==
    /\ online /\ channel = <<>> /\ wire = <<>> /\ handing = Nothing /\ replay = Nothing
    /\ \A e \in Event : publisher[e] \in {"none", "done"}

\* A client who is connected with nothing on the way has seen every event but those a
\* named cause took: whichever moment it left and came back at, registering before the
\* replay leaves no gap between the list and the live events.
NothingLostBetween ==
    Settled => \A e \in Event : publisher[e] = "done" => e \in accounted

=============================================================================
