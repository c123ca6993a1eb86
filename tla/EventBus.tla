------------------------------- MODULE EventBus -------------------------------
(***************************************************************************)
(* The event bus of src/observe/event_bus.c and the admin event streams    *)
(* that read from it (handle_admin in src/server/transport_civetweb.c).    *)
(* A stream takes a slot, pops events one at a time and writes them to its *)
(* client; publishers put an event into the queue of every active slot.    *)
(* Everything happens under the bus's mutex.  A stream waits on its own    *)
(* slot only, and only it gives the slot back.                             *)
(*                                                                         *)
(* Events are numbered as they are published; kinds and payloads are left  *)
(* out.  The bus is freed after the transport has ended every stream.      *)
(***************************************************************************)
EXTENDS Integers, Sequences, FiniteSets

CONSTANTS
    Streams,       \* admin event streams
    BusSlots,      \* MAX_EVENT_SUBSCRIBERS
    QueueCap,      \* EVENT_QUEUE_CAPACITY
    MaxPublished,  \* bound: events published
    MaxStreams     \* bound: subscriptions

ASSUME BusAssumption == BusSlots \in Nat /\ QueueCap \in Nat \ {0}

VARIABLES
    slots,      \* subscribers
    nextSub,    \* next_sub_id
    published,  \* number of events published
    stream,     \* by stream: its subscription, and what it has sent (history)
    destroyed

busVars == <<slots, nextSub, published, stream, destroyed>>

NoSub == [active |-> FALSE, id |-> 0, queue |-> <<>>, dropped |-> 0]
Closed == [id |-> 0, since |-> 0, sent |-> <<>>]
Indexes == 1 .. BusSlots

BusInit ==
    /\ slots = [i \in Indexes |-> NoSub]
    /\ nextSub = 0 /\ published = 0 /\ destroyed = FALSE
    /\ stream = [s \in Streams |-> Closed]

\* Mutant: a slot is taken over with what its last owner left in it.
TakenOver(i, id) == [slots EXCEPT ![i].active = TRUE, ![i].id = id]

Taken(i, id) == [slots EXCEPT ![i] = [active |-> TRUE, id |-> id, queue |-> <<>>, dropped |-> 0]]

\* The first free slot; without one the stream is refused.
event_bus_subscribe(s) ==
    /\ ~destroyed /\ stream[s] = Closed /\ nextSub < MaxStreams
    /\ \E i \in Indexes :
         /\ ~slots[i].active /\ \A j \in 1 .. i - 1 : slots[j].active
         /\ slots' = Taken(i, nextSub + 1)
    /\ nextSub' = nextSub + 1
    /\ stream' = [stream EXCEPT ![s] = [id |-> nextSub + 1, since |-> published, sent |-> <<>>]]
    /\ UNCHANGED <<published, destroyed>>

SlotOf(id) == {i \in Indexes : slots[i].active /\ slots[i].id = id}

\* An event for the client. A timeout sends a ping and changes nothing.
event_bus_pop(s) ==
    \E i \in SlotOf(stream[s].id) :
        /\ slots[i].queue # <<>> /\ ~destroyed
        /\ slots' = [slots EXCEPT ![i].queue = Tail(@)]
        /\ stream' = [stream EXCEPT ![s].sent = Append(@, Head(slots[i].queue))]
        /\ UNCHANGED <<nextSub, published, destroyed>>

\* The client is gone, which a write to it shows.
event_bus_unsubscribe(s) ==
    /\ stream[s].id # 0
    /\ slots' = [i \in Indexes |-> IF i \in SlotOf(stream[s].id) THEN [slots[i] EXCEPT !.active = FALSE]
                                   ELSE slots[i]]
    /\ stream' = [stream EXCEPT ![s] = Closed]
    /\ UNCHANGED <<nextSub, published, destroyed>>

\* A full queue loses its oldest event.
Delivered(q, e) == IF Len(q) = QueueCap THEN Append(Tail(q), e) ELSE Append(q, e)

event_bus_publish ==
    /\ ~destroyed /\ published < MaxPublished
    /\ published' = published + 1
    /\ slots' = [i \in Indexes |->
         IF slots[i].active
         THEN [slots[i] EXCEPT !.queue = Delivered(slots[i].queue, published + 1),
                               !.dropped = IF Len(slots[i].queue) = QueueCap THEN slots[i].dropped + 1
                                           ELSE slots[i].dropped]
         ELSE slots[i]]
    /\ UNCHANGED <<nextSub, stream, destroyed>>

event_bus_free ==
    /\ ~destroyed /\ \A s \in Streams : stream[s] = Closed
    /\ destroyed' = TRUE
    /\ slots' = [i \in Indexes |-> NoSub]
    /\ UNCHANGED <<nextSub, published, stream>>

BusNext ==
    \/ \E s \in Streams : event_bus_subscribe(s) \/ event_bus_pop(s) \/ event_bus_unsubscribe(s)
    \/ event_bus_publish \/ event_bus_free

BusSpec == BusInit /\ [][BusNext]_busVars

\* A stream gets every event published since it subscribed, once and in order; what it will never
\* get was dropped by its own full queue and counted there (event_bus_publish, event_bus_pop), also
\* when its slot belonged to another stream before.
BusAccounted ==
    \A s \in Streams : stream[s].id # 0 =>
        \E i \in SlotOf(stream[s].id) :
            LET due == stream[s].sent \o slots[i].queue
            IN  /\ \A a, b \in DOMAIN due : a < b => due[a] < due[b]
                /\ \A a \in DOMAIN due : due[a] > stream[s].since
                /\ Len(due) + slots[i].dropped = published - stream[s].since
=============================================================================
