------------------------------- MODULE Stream --------------------------------
(***************************************************************************)
(* The event stream: the EventBus and the SSE generator of ecn/stream.py   *)
(* and its endpoints in ecn/api.py, which publish each round, replay and   *)
(* stream it to clients and let pollers fetch it by offset.                *)
(*                                                                         *)
(* Everything runs on one event loop.  A generator gives it up at each     *)
(* event it yields and while its queue is empty: a step of a client is     *)
(* what its generator does from one yield to the next.  A round is         *)
(* published to both topics in one step.                                   *)
(*                                                                         *)
(* An event is a topic and its sequence number there; what else it carries *)
(* is not read here.  Heartbeats are left out.                             *)
(***************************************************************************)
EXTENDS Integers, Sequences, FiniteSets

CONSTANTS
    Client,      \* SSE connections
    Poller,      \* clients that poll the topic of transactions by offset
    Requests,    \* what clients ask for: topics, backfill and limit (0 for none)
    MaxLen,      \* capacity of a topic's ring buffer: 1000 in the code
    QueueSize,   \* capacity of a subscriber's queue: 256 in the code
    MaxRounds,   \* bound: rounds published
    MaxRestarts  \* bound: restarts of the service

ALL_TOPICS == {"transactions", "faults"}

ASSUME StreamConstants ==
    /\ \A r \in Requests :
        /\ DOMAIN r = {"topics", "backfill", "limit"}
        /\ r.topics \in Seq(ALL_TOPICS)
        /\ r.backfill \in 0 .. MaxLen  \* at most 500 in the code
        /\ r.limit \in Nat
    /\ {MaxRounds, MaxRestarts} \subseteq Nat
    /\ {MaxLen, QueueSize} \subseteq Nat \ {0}

VARIABLES
    _seq,          \* _seq[t]: the next sequence number of topic t
    _buffers,      \* _buffers[t]: the numbers of the buffered events
    _subscribers,  \* _subscribers[t]: whose queues get the events of t, in order
    queue,         \* queue[c]: events waiting for c
    pc,            \* pc[c]: "off", "replay", "live" or "closed"
    request,       \* request[c]: the topics, the backfill and the limit c asked for
    turn,          \* turn[c]: the position in the list of topics to replay next
    rest,          \* rest[c]: what is left of the events being replayed
    got,           \* got[c]: events sent to c
    offset,        \* offset[p]: the offset p polls from next
    \* history
    replayed,      \* replayed[c][t]: the numbers from which, and before which, t was replayed
    since,         \* since[c][t]: the number of t from which c was subscribed
    dropped,       \* dropped[c]: events c lost because its queue was full
    polled,        \* polled[p]: numbers p has got since the service was started
    carried,       \* carried[p]: the offset p had when the service was last restarted
    rounds, restarts

bus     == <<_seq, _buffers, _subscribers>>
streams == <<queue, pc, request, turn, rest, got, replayed, since, dropped>>
polls   == <<offset, polled, carried>>
vars    == <<bus, streams, polls, rounds, restarts>>

Event(t, seq) == [topic |-> t, seq |-> seq]
Events(t, seqs) == [i \in DOMAIN seqs |-> Event(t, seqs[i])]
Larger(a, b) == IF a > b THEN a ELSE b
Smaller(a, b) == IF a < b THEN a ELSE b
First(n, s) == SubSeq(s, 1, Smaller(Len(s), n))

NoRequest == [topics |-> <<>>, backfill |-> 0, limit |-> 0]
NoNumbers == [t \in ALL_TOPICS |-> 0]
NotReplayed == [t \in ALL_TOPICS |-> [from |-> 0, to |-> 0]]

Init ==
    /\ _seq = NoNumbers
    /\ _buffers = [t \in ALL_TOPICS |-> <<>>]
    /\ _subscribers = [t \in ALL_TOPICS |-> <<>>]
    /\ queue = [c \in Client |-> <<>>]
    /\ pc = [c \in Client |-> "off"]
    /\ request = [c \in Client |-> NoRequest]
    /\ turn = [c \in Client |-> 1]
    /\ rest = [c \in Client |-> <<>>]
    /\ got = [c \in Client |-> <<>>]
    /\ offset = [p \in Poller |-> 0]
    /\ replayed = [c \in Client |-> NotReplayed]
    /\ since = [c \in Client |-> NoNumbers]
    /\ dropped = [c \in Client |-> {}]
    /\ polled = [p \in Poller |-> {}]
    /\ carried = [p \in Poller |-> 0]
    /\ rounds = 0
    /\ restarts = 0

-----------------------------------------------------------------------------
(* EventBus.                                                               *)

\* The ring buffer of a topic after one more event.
Buffered(t) ==
    LET all == Append(_buffers[t], _seq[t])
    IN  IF Len(all) > MaxLen THEN Tail(all) ELSE all

\* Mutant: the first full queue ends the fan-out.
offers_StopsAtFull(c, topics) ==
    LET Reached(t) == {i \in DOMAIN _subscribers[t] :
            /\ _subscribers[t][i] = c
            /\ \A j \in 1 .. i - 1 : Len(queue[_subscribers[t][j]]) < QueueSize}
        To(t) == [i \in 1 .. IF t \in topics THEN Cardinality(Reached(t)) ELSE 0 |-> Event(t, _seq[t])]
    IN  To("transactions") \o To("faults")

\* What publish offers to the queue of c, once for each time it is subscribed.
offers(c, topics) ==
    LET To(t) == [i \in 1 .. IF t \in topics
                             THEN Cardinality({j \in DOMAIN _subscribers[t] : _subscribers[t][j] = c})
                             ELSE 0 |-> Event(t, _seq[t])]
    IN  To("transactions") \o To("faults")

\* submit_transaction publishes a round, and a second time if it has a fault.
\* A queue that is full loses the event.
PublishRound(fault) ==
    LET topics == IF fault THEN ALL_TOPICS ELSE {"transactions"}
        All(c) == queue[c] \o offers(c, topics)
    IN  /\ rounds < MaxRounds
        /\ rounds' = rounds + 1
        /\ _seq' = [t \in ALL_TOPICS |-> IF t \in topics THEN _seq[t] + 1 ELSE _seq[t]]
        /\ _buffers' = [t \in ALL_TOPICS |-> IF t \in topics THEN Buffered(t) ELSE _buffers[t]]
        /\ queue' = [c \in Client |-> First(QueueSize, All(c))]
        /\ dropped' = [c \in Client |->
                dropped[c] \cup {All(c)[i] : i \in QueueSize + 1 .. Len(All(c))}]
        /\ UNCHANGED <<_subscribers, pc, request, turn, rest, got, replayed, since, polls, restarts>>

\* The first "limit" buffered events from an offset on: the loop skips those
\* before it, wherever they are in the buffer.
consume(t, from, limit) ==
    LET seqs  == _buffers[t]
        kept  == {i \in DOMAIN seqs : seqs[i] >= from}
        At(k) == CHOOSE i \in kept : Cardinality({j \in kept : j <= i}) = k
    IN  [k \in 1 .. Smaller(limit, Cardinality(kept)) |-> seqs[At(k)]]

\* subscribe_live adds the queue once for each topic named, unsubscribe_live
\* removes it once from each topic.
subscribe_live(c, topics) ==
    [t \in ALL_TOPICS |->
        _subscribers[t] \o [i \in 1 .. Cardinality({j \in DOMAIN topics : topics[j] = t}) |-> c]]

Without(s, c) ==
    IF \E i \in DOMAIN s : s[i] = c
    THEN LET i == CHOOSE i \in DOMAIN s : s[i] = c /\ \A j \in 1 .. i - 1 : s[j] # c
         IN  SubSeq(s, 1, i - 1) \o SubSeq(s, i + 1, Len(s))
    ELSE s

unsubscribe_live(c) == [t \in ALL_TOPICS |-> Without(_subscribers[t], c)]

-----------------------------------------------------------------------------
(* sse_generator.                                                          *)

LimitReached(c) == request[c].limit > 0 /\ Len(got[c]) >= request[c].limit

\* What the generator replays of a topic when it comes to it.
start(c, t) == Larger(0, _seq[t] - request[c].backfill)
Snapshot(c, t) ==
    IF request[c].backfill > 0 THEN consume(t, start(c, t), request[c].backfill) ELSE <<>>

\* The topics still to come, and those of them that have something to replay.
Ahead(c)   == turn[c] .. Len(request[c].topics)
Pending(c) == {i \in Ahead(c) : Snapshot(c, request[c].topics[i]) # <<>>}

\* The topics read now, up to the i-th: what the history notes about them.
ReplayedUpTo(c, i) ==
    [t \in ALL_TOPICS |->
        IF \E j \in turn[c] .. i : request[c].topics[j] = t
        THEN [from |-> IF request[c].backfill > 0 THEN start(c, t) ELSE _seq[t], to |-> _seq[t]]
        ELSE replayed[c][t]]

\* GET /stream/events.
\* Mutant: the generator subscribes before it replays.
Connect_SubscribesFirst(c, r) ==
    /\ pc[c] = "off"
    /\ pc' = [pc EXCEPT ![c] = "replay"]
    /\ request' = [request EXCEPT ![c] = r]
    /\ _subscribers' = subscribe_live(c, r.topics)
    /\ UNCHANGED <<_seq, _buffers, queue, turn, rest, got, replayed, since, dropped, polls, rounds, restarts>>

Connect(c, r) ==
    /\ pc[c] = "off"
    /\ pc' = [pc EXCEPT ![c] = "replay"]
    /\ request' = [request EXCEPT ![c] = r]
    /\ UNCHANGED <<bus, queue, turn, rest, got, replayed, since, dropped, polls, rounds, restarts>>

\* The next event of the topic being replayed.
ReplayNext(c) ==
    /\ pc[c] = "replay"
    /\ ~LimitReached(c)
    /\ rest[c] # <<>>
    /\ got' = [got EXCEPT ![c] = Append(@, Head(rest[c]))]
    /\ rest' = [rest EXCEPT ![c] = Tail(@)]
    /\ UNCHANGED <<bus, queue, pc, request, turn, replayed, since, dropped, polls, rounds, restarts>>

\* The next topic that has something to replay, and its first event.
ReplayTopic(c) ==
    /\ pc[c] = "replay"
    /\ ~LimitReached(c)
    /\ rest[c] = <<>>
    /\ \E i \in Pending(c) :
        /\ \A j \in Pending(c) : i <= j
        /\ LET t == request[c].topics[i]
               events == Events(t, Snapshot(c, t))
           IN  /\ got' = [got EXCEPT ![c] = Append(@, Head(events))]
               /\ rest' = [rest EXCEPT ![c] = Tail(events)]
        /\ turn' = [turn EXCEPT ![c] = i + 1]
        /\ replayed' = [replayed EXCEPT ![c] = ReplayedUpTo(c, i)]
    /\ UNCHANGED <<bus, queue, pc, request, since, dropped, polls, rounds, restarts>>

\* Nothing is left to replay: without giving up the loop it subscribes.
Subscribe(c) ==
    /\ pc[c] = "replay"
    /\ ~LimitReached(c)
    /\ rest[c] = <<>>
    /\ Pending(c) = {}
    /\ pc' = [pc EXCEPT ![c] = "live"]
    /\ turn' = [turn EXCEPT ![c] = Len(request[c].topics) + 1]
    /\ replayed' = [replayed EXCEPT ![c] = ReplayedUpTo(c, Len(request[c].topics))]
    /\ since' = [since EXCEPT ![c] = _seq]
    /\ _subscribers' = subscribe_live(c, request[c].topics)
    /\ UNCHANGED <<_seq, _buffers, queue, request, rest, got, dropped, polls, rounds, restarts>>

Receive(c) ==
    /\ pc[c] = "live"
    /\ ~LimitReached(c)
    /\ queue[c] # <<>>
    /\ got' = [got EXCEPT ![c] = Append(@, Head(queue[c]))]
    /\ queue' = [queue EXCEPT ![c] = Tail(@)]
    /\ UNCHANGED <<bus, pc, request, turn, rest, replayed, since, dropped, polls, rounds, restarts>>

\* What was sent on a stream that has ended is forgotten, and its queue
\* too, if nobody feeds it any more.
Forget(ended) ==
    /\ pc' = [c \in Client |-> IF c \in ended THEN "closed" ELSE pc[c]]
    /\ queue' = [c \in Client |->
            IF c \in ended /\ \A t \in ALL_TOPICS : \A i \in DOMAIN _subscribers'[t] : _subscribers'[t][i] # c
            THEN <<>> ELSE queue[c]]
    /\ rest' = [c \in Client |-> IF c \in ended THEN <<>> ELSE rest[c]]
    /\ got' = [c \in Client |-> IF c \in ended THEN <<>> ELSE got[c]]
    /\ turn' = [c \in Client |-> IF c \in ended THEN 1 ELSE turn[c]]
    /\ replayed' = [c \in Client |-> IF c \in ended THEN NotReplayed ELSE replayed[c]]
    /\ since' = [c \in Client |-> IF c \in ended THEN NoNumbers ELSE since[c]]
    /\ dropped' = [c \in Client |-> IF c \in ended THEN {} ELSE dropped[c]]

\* Mutant: a stream that ends by its limit keeps its queue subscribed.
Close_KeepsQueue(c) ==
    /\ pc[c] \in {"replay", "live"}
    /\ _subscribers' = IF pc[c] = "live" /\ ~LimitReached(c) THEN unsubscribe_live(c) ELSE _subscribers
    /\ Forget({c})
    /\ UNCHANGED <<_seq, _buffers, request, polls, rounds, restarts>>

\* The limit is reached, or the client has gone away: this is the step that
\* runs the generator's finally.  It may come long after the disconnect; up to
\* it the stream is a live one, whose queue fills and drops as that of a slow
\* client does.
Close(c) ==
    /\ pc[c] \in {"replay", "live"}
    /\ _subscribers' = IF pc[c] = "live" THEN unsubscribe_live(c) ELSE _subscribers
    /\ Forget({c})
    /\ UNCHANGED <<_seq, _buffers, request, polls, rounds, restarts>>

-----------------------------------------------------------------------------
(* GET /stream/topics/{topic}, and the restart of the service.             *)

\* Mutant: the next offset is that of the topic, not of what was returned.
next_offset_OfTopic(from, events) == Larger(from, _seq["transactions"])

next_offset(from, events) == IF events = <<>> THEN from ELSE events[Len(events)] + 1

poll_topic(p, limit) ==
    LET events == consume("transactions", offset[p], limit)
    IN  /\ offset' = [offset EXCEPT ![p] = next_offset(@, events)]
        /\ polled' = [polled EXCEPT ![p] = @ \cup {events[i] : i \in DOMAIN events}]
        /\ UNCHANGED <<bus, streams, carried, rounds, restarts>>

\* Connections end, the bus is a new one, and pollers go on with their offset.
Restart ==
    /\ restarts < MaxRestarts
    /\ restarts' = restarts + 1
    /\ _seq' = NoNumbers
    /\ _buffers' = [t \in ALL_TOPICS |-> <<>>]
    /\ _subscribers' = [t \in ALL_TOPICS |-> <<>>]
    /\ Forget({c \in Client : pc[c] # "off"})
    /\ polled' = [p \in Poller |-> {}]
    /\ carried' = offset
    /\ UNCHANGED <<request, offset, rounds>>

Next ==
    \/ \E fault \in BOOLEAN : PublishRound(fault)
    \/ \E c \in Client :
        \/ \E r \in Requests : Connect(c, r)
        \/ ReplayNext(c) \/ ReplayTopic(c) \/ Subscribe(c)
        \/ Receive(c) \/ Close(c)
    \/ \E p \in Poller, limit \in 1 .. MaxLen : poll_topic(p, limit)
    \/ Restart

Spec == Init /\ [][Next]_vars

-----------------------------------------------------------------------------
(* Properties                                                              *)

TypeOK ==
    /\ _seq \in [ALL_TOPICS -> Nat]
    /\ _buffers \in [ALL_TOPICS -> Seq(Nat)]
    /\ _subscribers \in [ALL_TOPICS -> Seq(Client)]
    /\ queue \in [Client -> Seq([topic : ALL_TOPICS, seq : Nat])]
    /\ pc \in [Client -> {"off", "replay", "live", "closed"}]
    /\ request \in [Client -> Requests \cup {NoRequest}]
    /\ turn \in [Client -> Nat]
    /\ rest \in [Client -> Seq([topic : ALL_TOPICS, seq : Nat])]
    /\ got \in [Client -> Seq([topic : ALL_TOPICS, seq : Nat])]
    /\ offset \in [Poller -> Nat]
    /\ replayed \in [Client -> [ALL_TOPICS -> [from : Nat, to : Nat]]]
    /\ since \in [Client -> [ALL_TOPICS -> Nat]]
    /\ \A c \in Client : dropped[c] \subseteq [topic : ALL_TOPICS, seq : Nat]
    /\ polled \in [Poller -> SUBSET Nat]
    /\ carried \in [Poller -> Nat]
    /\ {rounds, restarts} \subseteq Nat

\* The list of topics names none twice.
Distinct(c) ==
    \A i, j \in DOMAIN request[c].topics :
        request[c].topics[i] = request[c].topics[j] => i = j

\* Replay and live stream fit together without repetition: over what a
\* client has got and what waits for it, each topic's events come in the
\* order they were published, each at most once, if no topic is named twice.
InOrder ==
    \A c \in Client : Distinct(c) =>
        LET all == got[c] \o rest[c] \o queue[c]
        IN  \A i, j \in DOMAIN all :
                i < j /\ all[i].topic = all[j].topic => all[i].seq < all[j].seq

\* What a live client may miss of its topics from the first event of its
\* backfill on: what was published after its topic was replayed and before
\* it subscribed, and what came when its own queue was full.  All else it
\* has or will get, however slow the others are.
MissedOnlyInTheGap ==
    \A c \in Client, t \in ALL_TOPICS :
        /\ pc[c] = "live"
        /\ Distinct(c)
        /\ \E i \in DOMAIN request[c].topics : request[c].topics[i] = t
        => \A seq \in replayed[c][t].from .. _seq[t] - 1 :
                \/ \E i \in DOMAIN got[c] : got[c][i] = Event(t, seq)
                \/ \E i \in DOMAIN queue[c] : queue[c][i] = Event(t, seq)
                \/ seq \in replayed[c][t].to .. since[c][t] - 1
                \/ Event(t, seq) \in dropped[c]

\* The bus feeds no queue that nobody reads: a subscribed queue is that of a
\* live stream.  unsubscribe_live removes a queue once per topic, so that
\* this does not hold of clients that name a topic twice.
QueuesAreOwned ==
    \A t \in ALL_TOPICS : \A i \in DOMAIN _subscribers[t] :
        LET c == _subscribers[t][i] IN pc[c] = "live" \/ ~Distinct(c)

\* A poller that uses next_offset skips no event that is still buffered,
\* however many it asks for at a time.  The exception: a new bus counts from
\* 0 again, and the numbers below the offset of a poller from before the
\* restart are skipped.
PollDeliversBuffered ==
    \A p \in Poller : \A i \in DOMAIN _buffers["transactions"] :
        LET seq == _buffers["transactions"][i]
        IN  seq < offset[p] /\ seq >= carried[p] => seq \in polled[p]
=============================================================================
