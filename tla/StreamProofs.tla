---------------------------- MODULE StreamProofs -----------------------------
(***************************************************************************)
(* What leaves the API without being asked for again: what pollers and     *)
(* streams get of the events, for all sets of clients and requests,        *)
(* capacities of buffers and queues and all bounds; and, at the end of     *)
(* this module, what is posted to webhooks, for all sets of webhooks and   *)
(* rounds.                                                                 *)
(***************************************************************************)
EXTENDS Stream, Webhooks, FiniteSetTheorems, SequenceTheorems, WellFoundedInduction, TLAPS

-----------------------------------------------------------------------------
(* The invariants.                                                         *)

SseEvent == [topic : ALL_TOPICS, seq : Nat]

Has(s, x) == \E i \in DOMAIN s : s[i] = x
Once(s, x) == \A i, j \in DOMAIN s : s[i] = x /\ s[j] = x => i = j

\* A buffer holds the last numbers of its topic, without a gap.
BuffersFollow ==
    \A t \in ALL_TOPICS :
        /\ Len(_buffers[t]) = Smaller(_seq[t], MaxLen)
        /\ \A i \in DOMAIN _buffers[t] : _buffers[t][i] = _seq[t] - Len(_buffers[t]) + i - 1

\* A poller is ahead of the bus only if a restart has put it there, and has
\* got what is buffered behind it, if not from before the restart.
PollersFollow ==
    \A p \in Poller :
        /\ offset[p] <= Larger(_seq["transactions"], carried[p])
        /\ \A x \in Nat :
            /\ carried[p] <= x /\ x < offset[p]
            /\ _seq["transactions"] - Len(_buffers["transactions"]) <= x /\ x < _seq["transactions"]
            => x \in polled[p]

Topics(c) == {request[c].topics[i] : i \in DOMAIN request[c].topics}

\* The queue of a client is subscribed when its stream is live, once to each
\* of its topics.
Subscribed(c, t) ==
    /\ pc[c] \in {"off", "replay"} => ~Has(_subscribers[t], c)
    /\ Distinct(c) =>
        /\ Once(_subscribers[t], c)
        /\ Has(_subscribers[t], c) <=> pc[c] = "live" /\ t \in Topics(c)

SubscribedAsAsked == \A c \in Client, t \in ALL_TOPICS : Subscribed(c, t)

\* What c has got, is being replayed and has waiting for it.
All(c) == got[c] \o rest[c] \o queue[c]

\* Where the generator of c is.
Generator(c) ==
    /\ turn[c] \in 1 .. Len(request[c].topics) + 1
    /\ Len(queue[c]) <= QueueSize
    /\ pc[c] = "off" => request[c] = NoRequest /\ got[c] = <<>> /\ rest[c] = <<>> /\ queue[c] = <<>>
    /\ pc[c] = "replay" => queue[c] = <<>>
    /\ pc[c] = "live" => rest[c] = <<>>
    /\ pc[c] = "closed" => turn[c] = 1 /\ (Distinct(c) => got[c] = <<>> /\ rest[c] = <<>> /\ queue[c] = <<>>)

\* Events that are older than the next of their topic, and in its order.
Ordered(s, next) ==
    /\ \A i \in DOMAIN s : s[i].seq < next[s[i].topic]
    /\ \A i, j \in DOMAIN s : i < j /\ s[i].topic = s[j].topic => s[i].seq < s[j].seq

\* The topics the generator of c has come to.
Begun(c) == {request[c].topics[j] : j \in 1 .. turn[c] - 1}

\* A generator that replays has got, or is about to get, the whole backfill
\* of the topics it has come to, and nothing of the others.
ReplayComplete(c) ==
    /\ \A i \in DOMAIN All(c) : All(c)[i].topic \in Begun(c)
    /\ \A t \in Begun(c), x \in Nat :
            replayed[c][t].from <= x /\ x < replayed[c][t].to => Has(All(c), Event(t, x))

\* A live stream has all, except for what the gap or its own queue lost.
LiveComplete(c) ==
    \A t \in Topics(c), x \in Nat :
        replayed[c][t].from <= x /\ x < _seq[t] =>
            \/ Has(All(c), Event(t, x))
            \/ replayed[c][t].to <= x /\ x < since[c][t]
            \/ Event(t, x) \in dropped[c]

StreamFits(c) ==
    /\ Generator(c)
    /\ Distinct(c) =>
        /\ Ordered(All(c), _seq)
        /\ pc[c] = "replay" => ReplayComplete(c)
        /\ pc[c] = "live" => LiveComplete(c)

StreamsFit == \A c \in Client : StreamFits(c)

StreamInv == TypeOK /\ BuffersFollow /\ PollersFollow /\ SubscribedAsAsked /\ StreamsFit

-----------------------------------------------------------------------------
(* Operators of the bus.                                                   *)

\* From a buffer without gaps consume returns the numbers from the offset on,
\* or from the oldest one, without a gap, and as many as asked for.
LEMMA Consumed ==
    ASSUME TypeOK, BuffersFollow, NEW t \in ALL_TOPICS, NEW from \in Nat, NEW limit \in Nat,
           NEW lo, lo = Larger(from, _seq[t] - Len(_buffers[t]))
    PROVE  /\ lo \in Nat
           /\ consume(t, from, limit) \in Seq(Nat)
           /\ Len(consume(t, from, limit)) = Smaller(limit, IF lo < _seq[t] THEN _seq[t] - lo ELSE 0)
           /\ \A k \in 1 .. Len(consume(t, from, limit)) : consume(t, from, limit)[k] = lo + k - 1
<1> DEFINE seqs == _buffers[t]
           n == Len(seqs)
           q == _seq[t]
           kept == {i \in DOMAIN seqs : seqs[i] >= from}
           At(k) == CHOOSE i \in kept : Cardinality({j \in kept : j <= i}) = k
           m == Smaller(limit, Cardinality(kept))
           a == lo - (q - n) + 1
<1>1. n \in Nat /\ q \in Nat /\ DOMAIN seqs = 1 .. n /\ n <= q /\ \A i \in 1 .. n : seqs[i] = q - n + i - 1
  <2>1. _buffers[t] \in Seq(Nat) /\ _seq[t] \in Nat /\ MaxLen \in Nat
    BY StreamConstants DEF TypeOK
  <2>2. n \in Nat /\ DOMAIN seqs = 1 .. n
    BY <2>1, LenProperties
  <2> QED
    BY SMTT(20), <2>1, <2>2 DEF BuffersFollow, Smaller
<1>2. lo \in Nat /\ lo >= from /\ lo >= q - n /\ (lo = from \/ lo = q - n)
  BY <1>1 DEF Larger
<1>3. consume(t, from, limit) = [k \in 1 .. m |-> seqs[At(k)]]
  BY DEF consume
<1> HIDE DEF m
<1>4. a \in Nat /\ a >= 1
  BY <1>1, <1>2
<1>5. kept = a .. n
  <2>1. \A i \in 1 .. n : seqs[i] >= from <=> i >= a
    <3> HIDE DEF n, q, seqs
    <3> QED
      BY <1>1, <1>2
  <2> HIDE DEF n, seqs
  <2>2. \A i : i \in kept <=> i \in 1 .. n /\ i >= a
    BY <2>1, <1>1
  <2> HIDE DEF kept, a
  <2>3. \A i : i \in a .. n <=> i \in 1 .. n /\ i >= a
    BY <1>1, <1>4
  <2> QED
    BY <2>2, <2>3
<1> HIDE DEF n, q, seqs, a, kept
<1>6. \A i \in Nat : Cardinality(a .. i) = IF a > i THEN 0 ELSE i - a + 1
  BY <1>4, FS_Interval
<1>7. Cardinality(kept) = IF lo < q THEN q - lo ELSE 0
  <2>1. Cardinality(kept) = IF a > n THEN 0 ELSE n - a + 1
    BY <1>1, <1>5, <1>6
  <2> QED
    BY <2>1, <1>1, <1>2 DEF a
<1>8. m \in Nat /\ m <= Cardinality(kept) /\ m = Smaller(limit, IF lo < q THEN q - lo ELSE 0)
  BY <1>1, <1>2, <1>7 DEF m, Smaller
<1>9. ASSUME NEW k \in 1 .. m PROVE seqs[At(k)] = lo + k - 1
  <2> DEFINE i == a + k - 1
  <2>1. i \in kept
    <3>1. k \in Nat /\ k >= 1 /\ k <= q - lo
      BY <1>1, <1>2, <1>7, <1>8
    <3>2. q - lo = n - a + 1
      BY <1>1, <1>2 DEF a
    <3>3. a + k - 1 \in a .. n
      BY <3>1, <3>2, <1>1, <1>2, <1>4
    <3> QED
      BY <3>3, <1>5
  <2>2. \A h \in kept : Cardinality({j \in kept : j <= h}) = h - a + 1
    <3> TAKE h \in kept
    <3>1. h \in Nat /\ h >= a /\ h <= n
      BY <1>1, <1>4, <1>5
    <3>2. {j \in kept : j <= h} = a .. h
      BY <3>1, <1>1, <1>4, <1>5
    <3>3. Cardinality(a .. h) = h - a + 1
      BY <3>1, <1>6, <1>4
    <3> QED
      BY <3>2, <3>3
  <2>3. \A h \in kept : Cardinality({j \in kept : j <= h}) = k <=> h = i
    <3> TAKE h \in kept
    <3>1. h \in Nat /\ k \in Nat
      BY <1>1, <1>4, <1>5, <1>8
    <3>2. h - a + 1 = k <=> h = a + k - 1
      BY <3>1, <1>4
    <3> QED
      BY <2>2, <3>2
  <2> HIDE DEF i
  <2>4. At(k) = i
    BY <2>1, <2>3
  <2> HIDE DEF At
  <2>5. i \in 1 .. n
    BY <2>1, <1>1, <1>4, <1>5
  <2>6. seqs[i] = q - n + i - 1
    BY <2>5, <1>1
  <2>7. q - n + i - 1 = lo + k - 1
    BY SMTT(20), <1>1, <1>2, <1>8 DEF i, a
  <2> QED
    BY <2>4, <2>6, <2>7
<1> DEFINE s == [k \in 1 .. m |-> seqs[At(k)]]
<1>10. s \in Seq(Nat) /\ Len(s) = m /\ \A k \in 1 .. m : s[k] = lo + k - 1
  <2>1. \A k \in 1 .. m : seqs[At(k)] \in Nat
    <3> TAKE k \in 1 .. m
    <3>1. k \in Nat /\ k >= 1
      BY <1>8
    <3> HIDE DEF At
    <3>2. seqs[At(k)] = lo + k - 1
      BY <1>9
    <3> QED
      BY <3>1, <3>2, <1>2
  <2> HIDE DEF At
  <2> QED
    BY <2>1, <1>8, <1>9
<1> QED
  BY <1>2, <1>3, <1>8, <1>10 DEF q

\* The events of numbers.
LEMMA EventsType ==
    ASSUME NEW t \in ALL_TOPICS, NEW seqs \in Seq(Nat)
    PROVE  /\ Events(t, seqs) \in Seq(SseEvent)
           /\ Len(Events(t, seqs)) = Len(seqs)
           /\ \A i \in 1 .. Len(seqs) : Events(t, seqs)[i] = Event(t, seqs[i]) /\ seqs[i] \in Nat
<1>1. Len(seqs) \in Nat /\ DOMAIN seqs = 1 .. Len(seqs) /\ \A i \in 1 .. Len(seqs) : seqs[i] \in Nat
  BY LenProperties, ElementOfSeq
<1>2. \A i \in 1 .. Len(seqs) : Event(t, seqs[i]) \in SseEvent
  BY <1>1 DEF Event, SseEvent
<1>3. Events(t, seqs) = [i \in 1 .. Len(seqs) |-> Event(t, seqs[i])]
  BY <1>1 DEF Events
<1> HIDE DEF Events
<1> QED
  BY <1>1, <1>2, <1>3

\* A queue of n places that has q takes the first m of what it is offered.
Taken(q, o, n, m) ==
    /\ Len(SubSeq(o, 1, m)) = m
    /\ \A k \in 1 .. m : SubSeq(o, 1, m)[k] = o[k]
    /\ First(n, q \o o) = q \o SubSeq(o, 1, m)
    /\ \A k \in m + 1 .. Len(o) :
        Len(q) + k \in n + 1 .. Len(q \o o) /\ (q \o o)[Len(q) + k] = o[k]

\* A queue takes of what is offered as much as it has room for.
LEMMA Truncated ==
    ASSUME NEW S, NEW q \in Seq(S), NEW o \in Seq(S), NEW n \in Nat, Len(q) <= n
    PROVE  /\ First(n, q \o o) \in Seq(S)
           /\ Len(First(n, q \o o)) <= n
           /\ \E m \in 0 .. Len(o) : SubSeq(o, 1, m) \in Seq(S) /\ Taken(q, o, n, m)
<1> DEFINE b == q \o o
           m == Smaller(Len(o), n - Len(q))
           l == Smaller(Len(b), n)
           o1 == SubSeq(o, 1, m)
<1>1. /\ Len(q) \in Nat /\ Len(o) \in Nat
      /\ (\A i \in 1 .. Len(q) : q[i] \in S) /\ \A i \in 1 .. Len(o) : o[i] \in S
  BY LenProperties, ElementOfSeq
<1>2. /\ b \in Seq(S) /\ Len(b) = Len(q) + Len(o)
      /\ \A i \in 1 .. Len(q) + Len(o) : b[i] = IF i <= Len(q) THEN q[i] ELSE o[i - Len(q)]
  BY ConcatProperties
<1> HIDE DEF b
<1>3. m \in 0 .. Len(o) /\ l = Len(q) + m /\ l <= n /\ (m = Len(o) \/ Len(q) + m = n)
  BY <1>1, <1>2 DEF Smaller, l
<1> HIDE DEF l, m
<1>4. o1 \in Seq(S) /\ Len(o1) = m /\ \A k \in 1 .. m : o1[k] = o[k]
  <2>1. \A i \in 1 .. m : o[i] \in S
    BY <1>1, <1>3
  <2>2. /\ o1 \in Seq(S) /\ Len(o1) = IF 1 <= m THEN m - 1 + 1 ELSE 0
        /\ \A i \in 1 .. m - 1 + 1 : o1[i] = o[1 + i - 1]
    BY <1>3, <2>1, SubSeqProperties
  <2> QED
    BY <2>2, <1>3
<1> HIDE DEF o1
<1>5. /\ First(n, b) \in Seq(S) /\ Len(First(n, b)) = l
      /\ \A k \in 1 .. l : First(n, b)[k] = b[k]
  <2>1. \A i \in 1 .. l : b[i] \in S
    BY <1>1, <1>2, <1>3
  <2>2. First(n, b) = SubSeq(b, 1, l)
    BY DEF First, l
  <2>3. /\ SubSeq(b, 1, l) \in Seq(S) /\ Len(SubSeq(b, 1, l)) = IF 1 <= l THEN l - 1 + 1 ELSE 0
        /\ \A i \in 1 .. l - 1 + 1 : SubSeq(b, 1, l)[i] = b[1 + i - 1]
    BY <1>1, <1>3, <2>1, SubSeqProperties
  <2> QED
    BY <2>2, <2>3, <1>1, <1>3
<1>6. First(n, b) = q \o o1
  <2>1. /\ q \o o1 \in Seq(S) /\ Len(q \o o1) = Len(q) + m
        /\ \A i \in 1 .. Len(q) + m : (q \o o1)[i] = IF i <= Len(q) THEN q[i] ELSE o1[i - Len(q)]
    <3>1. /\ q \o o1 \in Seq(S) /\ Len(q \o o1) = Len(q) + Len(o1)
          /\ \A i \in 1 .. Len(q) + Len(o1) : (q \o o1)[i] = IF i <= Len(q) THEN q[i] ELSE o1[i - Len(q)]
      BY ONLY <1>4, ConcatProperties
    <3>2. Len(o1) = m
      BY <1>4
    <3> QED
      BY ONLY <3>1, <3>2
  <2>2. \A i \in 1 .. l : First(n, b)[i] = (q \o o1)[i]
    <3> TAKE i \in 1 .. l
    <3>1. CASE i <= Len(q)
      BY <3>1, <1>1, <1>2, <1>3, <1>5, <2>1
    <3>2. CASE i > Len(q)
      <4>1. i - Len(q) \in 1 .. m
        BY <3>2, <1>1, <1>3
      <4>2. i \in 1 .. Len(q) + Len(o) /\ i \in 1 .. Len(q) + m /\ ~(i <= Len(q))
        BY <3>2, <1>1, <1>3
      <4>3. (q \o o1)[i] = o1[i - Len(q)] /\ b[i] = o[i - Len(q)] /\ First(n, b)[i] = b[i]
        BY <4>2, <1>2, <1>5, <2>1
      <4>4. o1[i - Len(q)] = o[i - Len(q)]
        BY <4>1, <1>4
      <4> QED
        BY <4>3, <4>4
    <3>3. i <= Len(q) \/ i > Len(q)
      BY <1>1, <1>3
    <3> QED
      BY <3>1, <3>2, <3>3
  <2> QED
    BY <2>1, <2>2, <1>3, <1>5, SeqEqual
<1>7. ASSUME NEW k \in m + 1 .. Len(o)
      PROVE  Len(q) + k \in n + 1 .. Len(b) /\ b[Len(q) + k] = o[k]
  <2>1. k \in Nat /\ m < k /\ k <= Len(o) /\ Len(q) + k \in 1 .. Len(q) + Len(o)
    BY <1>1, <1>3
  <2>2. m # Len(o) /\ Len(q) + m = n
    BY <2>1, <1>1, <1>3
  <2>3. Len(q) + k \in n + 1 .. Len(b) /\ ~(Len(q) + k <= Len(q)) /\ (Len(q) + k) - Len(q) = k
    BY <2>1, <2>2, <1>1, <1>2, <1>3
  <2> QED
    BY <2>1, <2>3, <1>2
<1> QED
  BY <1>3, <1>4, <1>5, <1>6, <1>7 DEF Taken, b, o1

\* The elements of a list put together.
LEMMA HasConcat ==
    ASSUME NEW S, NEW a \in Seq(S), NEW b \in Seq(S), NEW x
    PROVE  Has(a \o b, x) <=> Has(a, x) \/ Has(b, x)
<1>1. /\ Len(a) \in Nat /\ Len(b) \in Nat /\ DOMAIN a = 1 .. Len(a) /\ DOMAIN b = 1 .. Len(b)
      /\ DOMAIN (a \o b) = 1 .. Len(a) + Len(b)
      /\ \A i \in 1 .. Len(a) + Len(b) : (a \o b)[i] = IF i <= Len(a) THEN a[i] ELSE b[i - Len(a)]
  BY LenProperties, ConcatProperties
<1>2. ASSUME NEW i \in DOMAIN a PROVE i \in DOMAIN (a \o b) /\ (a \o b)[i] = a[i]
  BY <1>1
<1>3. ASSUME NEW i \in DOMAIN b
      PROVE  Len(a) + i \in DOMAIN (a \o b) /\ (a \o b)[Len(a) + i] = b[i]
  BY <1>1
<1>4. ASSUME NEW i \in DOMAIN (a \o b)
      PROVE  \/ i \in DOMAIN a /\ (a \o b)[i] = a[i]
             \/ i - Len(a) \in DOMAIN b /\ (a \o b)[i] = b[i - Len(a)]
  BY <1>1
<1> QED
  BY <1>2, <1>3, <1>4 DEF Has

\* Two ordered lists put together, the events of each topic of the second
\* being later than those of the first, are in order.
LEMMA OrderedConcat ==
    ASSUME NEW a \in Seq(SseEvent), NEW b \in Seq(SseEvent), NEW next,
           Ordered(a, next), Ordered(b, next),
           \A i \in DOMAIN a, j \in DOMAIN b : a[i].topic = b[j].topic => a[i].seq < b[j].seq
    PROVE  Ordered(a \o b, next)
<1> DEFINE c == a \o b
<1>1. /\ Len(a) \in Nat /\ Len(b) \in Nat /\ DOMAIN a = 1 .. Len(a) /\ DOMAIN b = 1 .. Len(b)
      /\ DOMAIN c = 1 .. Len(a) + Len(b)
      /\ \A i \in 1 .. Len(a) + Len(b) : c[i] = IF i <= Len(a) THEN a[i] ELSE b[i - Len(a)]
  BY LenProperties, ConcatProperties
<1> HIDE DEF c
<1>2. ASSUME NEW i \in DOMAIN c
      PROVE  \/ i \in DOMAIN a /\ c[i] = a[i]
             \/ i > Len(a) /\ i - Len(a) \in DOMAIN b /\ c[i] = b[i - Len(a)]
  BY <1>1
<1>3. \A i \in DOMAIN c : c[i].seq < next[c[i].topic]
  BY <1>2 DEF Ordered
<1>4. ASSUME NEW i \in DOMAIN c, NEW j \in DOMAIN c, i < j, c[i].topic = c[j].topic
      PROVE  c[i].seq < c[j].seq
  <2>1. i \in Nat /\ j \in Nat
    BY <1>1
  <2>2. CASE j \in DOMAIN a /\ c[j] = a[j]
    <3>1. i \in DOMAIN a /\ c[i] = a[i]
      BY <2>1, <2>2, <1>1, <1>4
    <3> QED
      BY <3>1, <2>2, <1>4 DEF Ordered
  <2>3. CASE j > Len(a) /\ j - Len(a) \in DOMAIN b /\ c[j] = b[j - Len(a)]
    <3>1. CASE i \in DOMAIN a /\ c[i] = a[i]
      BY <3>1, <2>3, <1>4
    <3>2. CASE i > Len(a) /\ i - Len(a) \in DOMAIN b /\ c[i] = b[i - Len(a)]
      <4>1. i - Len(a) < j - Len(a)
        BY <2>1, <1>1, <1>4
      <4> QED
        BY <4>1, <3>2, <2>3, <1>4 DEF Ordered
    <3> QED
      BY <3>1, <3>2, <1>2
  <2> QED
    BY <2>2, <2>3, <1>2
<1> QED
  BY <1>3, <1>4 DEF Ordered, c

\* The first element of one list moved to the end of the list before it.
LEMMA MoveHead ==
    ASSUME NEW S, NEW a \in Seq(S), NEW b \in Seq(S), b # <<>>
    PROVE  /\ Append(a, Head(b)) \o Tail(b) = a \o b
           /\ Append(a, Head(b)) \in Seq(S) /\ Tail(b) \in Seq(S)
           /\ Len(Tail(b)) <= Len(b)
<1> DEFINE h == Head(b)
           l == Tail(b)
           a1 == Append(a, h)
<1>1. /\ h \in S /\ h = b[1] /\ l \in Seq(S) /\ Len(l) = Len(b) - 1
      /\ (\A i \in 1 .. Len(l) : l[i] = b[i + 1])
      /\ Len(a) \in Nat /\ Len(b) \in Nat /\ Len(b) # 0
  BY HeadTailProperties, LenProperties, EmptySeq
<1> HIDE DEF h, l
<1>2. /\ a1 \in Seq(S) /\ Len(a1) = Len(a) + 1
      /\ (\A i \in 1 .. Len(a) : a1[i] = a[i]) /\ a1[Len(a) + 1] = h
  BY <1>1, AppendProperties
<1> HIDE DEF a1
<1>3. /\ a1 \o l \in Seq(S) /\ Len(a1 \o l) = Len(a) + Len(b)
      /\ \A i \in 1 .. Len(a) + Len(b) : (a1 \o l)[i] = IF i <= Len(a) + 1 THEN a1[i] ELSE l[i - (Len(a) + 1)]
  <2>1. /\ a1 \o l \in Seq(S) /\ Len(a1 \o l) = Len(a1) + Len(l)
        /\ \A i \in 1 .. Len(a1) + Len(l) : (a1 \o l)[i] = IF i <= Len(a1) THEN a1[i] ELSE l[i - Len(a1)]
    BY <1>1, <1>2, ConcatProperties
  <2> QED
    BY <2>1, <1>1, <1>2
<1>4. /\ a \o b \in Seq(S) /\ Len(a \o b) = Len(a) + Len(b)
      /\ \A i \in 1 .. Len(a) + Len(b) : (a \o b)[i] = IF i <= Len(a) THEN a[i] ELSE b[i - Len(a)]
  BY ConcatProperties
<1>5. ASSUME NEW i \in 1 .. Len(a) + Len(b) PROVE (a1 \o l)[i] = (a \o b)[i]
  <2>1. CASE i <= Len(a)
    <3>1. i \in 1 .. Len(a) /\ i <= Len(a) + 1
      BY <2>1, <1>1
    <3>2. (a1 \o l)[i] = a1[i] /\ (a \o b)[i] = a[i]
      BY <2>1, <3>1, <1>3, <1>4
    <3> QED
      BY <3>1, <3>2, <1>2
  <2>2. CASE i = Len(a) + 1
    <3>1. i - Len(a) = 1 /\ ~(i <= Len(a)) /\ i <= Len(a) + 1
      BY <2>2, <1>1
    <3> QED
      BY <3>1, <2>2, <1>1, <1>2, <1>3, <1>4
  <2>3. CASE i > Len(a) + 1
    <3>1. i - (Len(a) + 1) \in 1 .. Len(l) /\ (i - (Len(a) + 1)) + 1 = i - Len(a)
      BY <2>3, <1>1
    <3>2. ~(i <= Len(a)) /\ ~(i <= Len(a) + 1)
      BY <2>3, <1>1
    <3>3. (a1 \o l)[i] = l[i - (Len(a) + 1)] /\ (a \o b)[i] = b[i - Len(a)]
      BY <3>2, <1>3, <1>4
    <3> QED
      BY <3>1, <3>3, <1>1
  <2>4. i <= Len(a) \/ i = Len(a) + 1 \/ i > Len(a) + 1
    BY <1>1
  <2> QED
    BY <2>1, <2>2, <2>3, <2>4
<1>6. a1 \o l = a \o b
  BY <1>1, <1>3, <1>4, <1>5, SeqEqual
<1>7. Len(l) <= Len(b)
  BY <1>1
<1> QED
  BY <1>1, <1>2, <1>6, <1>7 DEF a1, h, l

-----------------------------------------------------------------------------
(* What a generator and the bus hand on.                                   *)

\* A client asks for a list of topics, or has not asked yet.
LEMMA RequestType ==
    ASSUME TypeOK, NEW c \in Client
    PROVE  /\ request[c].topics \in Seq(ALL_TOPICS) /\ Len(request[c].topics) \in Nat
           /\ DOMAIN request[c].topics = 1 .. Len(request[c].topics)
           /\ \A i \in 1 .. Len(request[c].topics) : request[c].topics[i] \in ALL_TOPICS
           /\ Topics(c) \subseteq ALL_TOPICS
           /\ request[c].backfill \in 0 .. MaxLen
<1>1. request[c].topics \in Seq(ALL_TOPICS) /\ request[c].backfill \in 0 .. MaxLen
  <2>1. CASE request[c] \in Requests
    BY <2>1, StreamConstants
  <2>2. CASE request[c] = NoRequest
    <3>1. <<>> \in Seq(ALL_TOPICS) /\ 0 \in 0 .. MaxLen
      BY EmptySeq, StreamConstants
    <3> QED
      BY <2>2, <3>1 DEF NoRequest
  <2> QED
    BY <2>1, <2>2 DEF TypeOK
<1>2. /\ Len(request[c].topics) \in Nat
      /\ DOMAIN request[c].topics = 1 .. Len(request[c].topics)
      /\ \A i \in 1 .. Len(request[c].topics) : request[c].topics[i] \in ALL_TOPICS
  BY <1>1, LenProperties, ElementOfSeq
<1> HIDE DEF TypeOK
<1> QED
  BY <1>1, <1>2 DEF Topics

\* The first number the generator of c replays of a topic when it comes to it.
Replays(c, t) == IF request[c].backfill > 0 THEN start(c, t) ELSE _seq[t]

\* The generator is never behind the ring buffer: it replays all numbers from
\* the first of the backfill to the last one published.
LEMMA SnapshotIs ==
    ASSUME TypeOK, BuffersFollow, NEW c \in Client, NEW t \in ALL_TOPICS
    PROVE  /\ Snapshot(c, t) \in Seq(Nat) /\ Replays(c, t) \in Nat /\ Replays(c, t) <= _seq[t]
           /\ Len(Snapshot(c, t)) = _seq[t] - Replays(c, t)
           /\ \A k \in 1 .. Len(Snapshot(c, t)) : Snapshot(c, t)[k] = Replays(c, t) + k - 1
<1> DEFINE b == request[c].backfill
           f == start(c, t)
           n == Len(_buffers[t])
<1>1. b \in Nat /\ b <= MaxLen /\ _seq[t] \in Nat /\ MaxLen \in Nat
  <2>1. b \in 0 .. MaxLen
    BY RequestType
  <2> QED
    BY <2>1, StreamConstants DEF TypeOK
<1>2. n = Smaller(_seq[t], MaxLen)
  BY DEF BuffersFollow
<1>3. f = Larger(0, _seq[t] - b)
  BY DEF start
<1>4. CASE b > 0
  <2> DEFINE lo == Larger(f, _seq[t] - n)
  <2>1. f \in Nat /\ f <= _seq[t] /\ f >= _seq[t] - b
    BY <1>1, <1>3 DEF Larger
  <2>2. n = _seq[t] \/ n = MaxLen
    BY <1>2 DEF Smaller
  <2>3. lo = f
    <3> HIDE DEF f, n
    <3> QED
      BY <1>1, <2>1, <2>2 DEF Larger
  <2>4. Snapshot(c, t) = consume(t, f, b)
    BY <1>4 DEF Snapshot
  <2> HIDE DEF f, b
  <2>5. /\ Snapshot(c, t) \in Seq(Nat)
        /\ Len(Snapshot(c, t)) = Smaller(b, IF lo < _seq[t] THEN _seq[t] - lo ELSE 0)
        /\ \A k \in 1 .. Len(Snapshot(c, t)) : Snapshot(c, t)[k] = lo + k - 1
    <3>1. lo = Larger(f, _seq[t] - Len(_buffers[t]))
      OBVIOUS
    <3> HIDE DEF lo
    <3> QED
      BY SMTT(20), <1>1, <2>1, <2>4, <3>1, Consumed
  <2>6. Replays(c, t) = f
    BY <1>4 DEF Replays, f, b
  <2>7. Len(Snapshot(c, t)) = _seq[t] - f
    <3>1. Len(Snapshot(c, t)) = Smaller(b, IF f < _seq[t] THEN _seq[t] - f ELSE 0)
      BY <2>3, <2>5
    <3> QED
      BY <3>1, <1>1, <2>1 DEF Smaller
  <2>8. \A k \in 1 .. Len(Snapshot(c, t)) : Snapshot(c, t)[k] = f + k - 1
    BY <2>3, <2>5
  <2> QED
    BY <2>1, <2>5, <2>6, <2>7, <2>8
<1>5. CASE ~(b > 0)
  <2>1. Snapshot(c, t) = <<>> /\ Replays(c, t) = _seq[t]
    BY <1>5 DEF Snapshot, Replays
  <2>2. <<>> \in Seq(Nat) /\ Len(<<>>) = 0
    BY EmptySeq
  <2> QED
    BY <2>1, <2>2, <1>1
<1> QED
  BY <1>4, <1>5

\* What publishing to a topic offers to the queue of c.
Offer(c, t, topics) ==
    [i \in 1 .. IF t \in topics
                THEN Cardinality({j \in DOMAIN _subscribers[t] : _subscribers[t][j] = c})
                ELSE 0 |-> Event(t, _seq[t])]

\* A queue is offered the new event of a topic as often as it is subscribed.
LEMMA OfferIs ==
    ASSUME TypeOK, NEW c \in Client, NEW t \in ALL_TOPICS, NEW topics
    PROVE  /\ Offer(c, t, topics) \in Seq(SseEvent) /\ Len(Offer(c, t, topics)) \in Nat
           /\ \A i \in 1 .. Len(Offer(c, t, topics)) :
                t \in topics /\ Offer(c, t, topics)[i] = Event(t, _seq[t])
           /\ ~Has(_subscribers[t], c) => Offer(c, t, topics) = <<>>
           /\ Once(_subscribers[t], c) /\ Has(_subscribers[t], c) /\ t \in topics
                => Len(Offer(c, t, topics)) = 1
           /\ Once(_subscribers[t], c) => Len(Offer(c, t, topics)) <= 1
<1> DEFINE D == {j \in DOMAIN _subscribers[t] : _subscribers[t][j] = c}
           n == IF t \in topics THEN Cardinality(D) ELSE 0
           o == [i \in 1 .. n |-> Event(t, _seq[t])]
<1>1. Cardinality(D) \in Nat
  <2>1. DOMAIN _subscribers[t] = 1 .. Len(_subscribers[t]) /\ Len(_subscribers[t]) \in Nat
    BY LenProperties DEF TypeOK
  <2>2. \A l \in Nat : IsFiniteSet(1 .. l)
    BY FS_Interval
  <2>3. IsFiniteSet(D)
    BY <2>1, <2>2, FS_Subset
  <2> QED
    BY <2>3, FS_CardinalityType
<1>2. ~Has(_subscribers[t], c) => Cardinality(D) = 0
  <2>1. ~Has(_subscribers[t], c) => D = {}
    BY DEF Has
  <2> QED
    BY <2>1, FS_EmptySet
<1>3. Once(_subscribers[t], c) /\ Has(_subscribers[t], c) => Cardinality(D) = 1
  <2>1. ASSUME Once(_subscribers[t], c), NEW j \in DOMAIN _subscribers[t], _subscribers[t][j] = c
        PROVE  D = {j}
    BY <2>1 DEF Once
  <2>2. ASSUME Once(_subscribers[t], c), Has(_subscribers[t], c) PROVE Cardinality(D) = 1
    BY <2>1, <2>2, FS_Singleton DEF Has
  <2> QED
    BY <2>2
<1> HIDE DEF D
<1>4. n \in Nat /\ (n # 0 => t \in topics)
  BY <1>1
<1>5. Event(t, _seq[t]) \in SseEvent
  BY DEF Event, SseEvent, TypeOK
<1> HIDE DEF n
<1>6. /\ o \in Seq(SseEvent) /\ Len(o) = n /\ \A i \in 1 .. n : o[i] = Event(t, _seq[t])
  BY <1>4, <1>5
<1>7. n = 0 => o = <<>>
  BY <1>6, EmptySeq
<1>8. Offer(c, t, topics) = o
  BY DEF Offer, n, D
<1> HIDE DEF o
<1>9. /\ ~Has(_subscribers[t], c) => n = 0
      /\ Once(_subscribers[t], c) /\ Has(_subscribers[t], c) /\ t \in topics => n = 1
      /\ Once(_subscribers[t], c) => n <= 1
  BY <1>1, <1>2, <1>3 DEF n
<1>10. \A i \in 1 .. n : t \in topics
  BY <1>4
<1> QED
  BY <1>4, <1>6, <1>7, <1>8, <1>9, <1>10

\* What publishing a round offers to a queue, of its own topics: nothing if it
\* is not subscribed, and to one that is subscribed once per topic the new
\* event of each topic.
LEMMA OffersAre ==
    ASSUME TypeOK, NEW c \in Client, NEW topics, "transactions" \in topics
    PROVE  /\ offers(c, topics) \in Seq(SseEvent) /\ Len(offers(c, topics)) \in Nat
           /\ \A i \in 1 .. Len(offers(c, topics)) :
                /\ offers(c, topics)[i].topic \in topics \cap ALL_TOPICS
                /\ offers(c, topics)[i].seq = _seq[offers(c, topics)[i].topic]
                /\ Has(_subscribers[offers(c, topics)[i].topic], c)
           /\ (\A t \in ALL_TOPICS : ~Has(_subscribers[t], c)) => offers(c, topics) = <<>>
           /\ (\A t \in ALL_TOPICS : Once(_subscribers[t], c)) =>
                /\ \A i, j \in 1 .. Len(offers(c, topics)) :
                        offers(c, topics)[i].topic = offers(c, topics)[j].topic => i = j
                /\ \A t \in topics \cap ALL_TOPICS :
                        Has(_subscribers[t], c) => Has(offers(c, topics), Event(t, _seq[t]))
<1> DEFINE a == Offer(c, "transactions", topics)
           b == Offer(c, "faults", topics)
           o == a \o b
           R(t, s) ==
               /\ s \in Seq(SseEvent) /\ Len(s) \in Nat
               /\ \A i \in 1 .. Len(s) : t \in topics /\ s[i] = Event(t, _seq[t])
               /\ ~Has(_subscribers[t], c) => s = <<>>
               /\ Once(_subscribers[t], c) /\ Has(_subscribers[t], c) /\ t \in topics => Len(s) = 1
               /\ Once(_subscribers[t], c) => Len(s) <= 1
<1>1. offers(c, topics) = o
  BY DEF offers, Offer
<1>2. R("transactions", a) /\ R("faults", b) /\ ALL_TOPICS = {"transactions", "faults"}
  BY OfferIs DEF ALL_TOPICS
<1> HIDE DEF a, b
<1>3. /\ o \in Seq(SseEvent) /\ Len(o) = Len(a) + Len(b) /\ Len(o) \in Nat
      /\ \A i \in 1 .. Len(a) + Len(b) : o[i] = IF i <= Len(a) THEN a[i] ELSE b[i - Len(a)]
  <2>1. /\ o \in Seq(SseEvent) /\ Len(o) = Len(a) + Len(b)
        /\ \A i \in 1 .. Len(a) + Len(b) : o[i] = IF i <= Len(a) THEN a[i] ELSE b[i - Len(a)]
    BY <1>2, ConcatProperties
  <2> QED
    BY <2>1, <1>2
<1>4. \A t : Event(t, _seq[t]).topic = t /\ Event(t, _seq[t]).seq = _seq[t]
  BY DEF Event
<1>5. ASSUME NEW t, NEW s, R(t, s), NEW i \in 1 .. Len(s) PROVE Has(_subscribers[t], c)
  <2>1. s # <<>>
    <3>1. s = <<>> => Len(s) = 0
      OBVIOUS
    <3> QED
      BY <1>5, <3>1
  <2> QED
    BY <1>5, <2>1
<1> HIDE DEF o
<1>6. ASSUME NEW i \in 1 .. Len(o)
      PROVE  \/ /\ i \in 1 .. Len(a) /\ o[i] = Event("transactions", _seq["transactions"])
                /\ Has(_subscribers["transactions"], c)
             \/ /\ i > Len(a) /\ i - Len(a) \in 1 .. Len(b) /\ o[i] = Event("faults", _seq["faults"])
                /\ "faults" \in topics /\ Has(_subscribers["faults"], c)
  <2>1. Len(a) \in Nat /\ Len(b) \in Nat /\ i \in 1 .. Len(a) + Len(b)
    BY <1>2, <1>3
  <2>2. CASE i <= Len(a)
    <3>1. i \in 1 .. Len(a) /\ o[i] = a[i]
      BY <2>1, <2>2, <1>3
    <3> QED
      BY <3>1, <1>2, <1>5
  <2>3. CASE i > Len(a)
    <3>1. i - Len(a) \in 1 .. Len(b) /\ ~(i <= Len(a))
      BY <2>1, <2>3
    <3>2. o[i] = b[i - Len(a)]
      BY <2>1, <3>1, <1>3
    <3> QED
      BY <2>3, <3>1, <3>2, <1>2, <1>5
  <2> QED
    BY <2>1, <2>2, <2>3
<1>7. \A i \in 1 .. Len(o) :
            /\ o[i].topic \in topics \cap ALL_TOPICS
            /\ o[i].seq = _seq[o[i].topic]
            /\ Has(_subscribers[o[i].topic], c)
  <2> TAKE i \in 1 .. Len(o)
  <2>1. PICK t \in topics \cap ALL_TOPICS : o[i] = Event(t, _seq[t]) /\ Has(_subscribers[t], c)
    BY <1>2, <1>6
  <2> QED
    BY <2>1, <1>4
<1>8. (\A t \in ALL_TOPICS : ~Has(_subscribers[t], c)) => o = <<>>
  <2>1. ASSUME \A t \in ALL_TOPICS : ~Has(_subscribers[t], c) PROVE o = <<>>
    <3>1. a = <<>> /\ b = <<>>
      BY <2>1, <1>2
    <3> QED
      BY <3>1 DEF o
  <2> QED
    BY <2>1
<1>9. ASSUME \A t \in ALL_TOPICS : Once(_subscribers[t], c)
      PROVE  /\ \A i, j \in 1 .. Len(o) : o[i].topic = o[j].topic => i = j
             /\ \A t \in topics \cap ALL_TOPICS : Has(_subscribers[t], c) => Has(o, Event(t, _seq[t]))
  <2>1. Len(a) \in Nat /\ Len(b) \in Nat /\ Len(a) <= 1 /\ Len(b) <= 1
    BY <1>2, <1>9
  <2>2. ASSUME NEW i \in 1 .. Len(o), NEW j \in 1 .. Len(o), o[i].topic = o[j].topic PROVE i = j
    <3>1. i \in Nat /\ j \in Nat
      BY <1>3
    <3>2. CASE i \in 1 .. Len(a) /\ o[i] = Event("transactions", _seq["transactions"])
      <4>1. o[i].topic = "transactions"
        BY <3>2, <1>4
      <4>2. j \in 1 .. Len(a)
        <5>1. o[j].topic # "faults"
          BY <4>1, <2>2
        <5>2. o[j] # Event("faults", _seq["faults"])
          BY <5>1, <1>4
        <5> QED
          BY <5>2, <1>6
      <4> QED
        BY <3>1, <3>2, <4>2, <2>1
    <3>3. CASE i > Len(a) /\ i - Len(a) \in 1 .. Len(b) /\ o[i] = Event("faults", _seq["faults"])
      <4>1. o[i].topic = "faults"
        BY <3>3, <1>4
      <4>2. j > Len(a) /\ j - Len(a) \in 1 .. Len(b)
        <5>1. o[j].topic # "transactions"
          BY <4>1, <2>2
        <5>2. o[j] # Event("transactions", _seq["transactions"])
          BY <5>1, <1>4
        <5> QED
          BY <5>2, <1>6
      <4>3. i - Len(a) = 1 /\ j - Len(a) = 1
        BY <3>1, <3>3, <4>2, <2>1
      <4> QED
        BY <4>3, <3>1, <2>1
    <3> QED
      BY <3>2, <3>3, <1>6
  <2>3. ASSUME NEW t \in topics \cap ALL_TOPICS, Has(_subscribers[t], c)
        PROVE  Has(o, Event(t, _seq[t]))
    <3>1. CASE t = "transactions"
      <4>1. Len(a) = 1 /\ a[1] = Event(t, _seq[t])
        <5>1. R(t, a) /\ Once(_subscribers[t], c) /\ t \in topics
          BY <3>1, <1>2, <1>9
        <5>2. Len(a) = 1
          BY <5>1, <2>3
        <5> QED
          BY <5>1, <5>2
      <4>2. Has(a, Event(t, _seq[t]))
        <5>1. DOMAIN a = 1 .. Len(a)
          BY <1>2, LenProperties
        <5> QED
          BY <4>1, <5>1 DEF Has
      <4> QED
        BY <4>2, <1>2, HasConcat DEF o
    <3>2. CASE t = "faults"
      <4>1. Len(b) = 1 /\ b[1] = Event(t, _seq[t])
        <5>1. R(t, b) /\ Once(_subscribers[t], c) /\ t \in topics
          BY <3>2, <1>2, <1>9
        <5>2. Len(b) = 1
          BY <5>1, <2>3
        <5> QED
          BY <5>1, <5>2
      <4>2. Has(b, Event(t, _seq[t]))
        <5>1. DOMAIN b = 1 .. Len(b)
          BY <1>2, LenProperties
        <5> QED
          BY <4>1, <5>1 DEF Has
      <4> QED
        BY <4>2, <1>2, HasConcat DEF o
    <3> QED
      BY <3>1, <3>2, <1>2
  <2> QED
    BY <2>2, <2>3
<1> QED
  BY <1>1, <1>3, <1>7, <1>8, <1>9

-----------------------------------------------------------------------------
(* Types.                                                                  *)

BusTypes ==
    /\ _seq \in [ALL_TOPICS -> Nat]
    /\ _buffers \in [ALL_TOPICS -> Seq(Nat)]
    /\ _subscribers \in [ALL_TOPICS -> Seq(Client)]

StreamTypes ==
    /\ queue \in [Client -> Seq(SseEvent)]
    /\ pc \in [Client -> {"off", "replay", "live", "closed"}]
    /\ request \in [Client -> Requests \cup {NoRequest}]
    /\ turn \in [Client -> Nat]
    /\ rest \in [Client -> Seq(SseEvent)]
    /\ got \in [Client -> Seq(SseEvent)]
    /\ replayed \in [Client -> [ALL_TOPICS -> [from : Nat, to : Nat]]]
    /\ since \in [Client -> [ALL_TOPICS -> Nat]]
    /\ \A c \in Client : dropped[c] \subseteq SseEvent

PollTypes ==
    /\ offset \in [Poller -> Nat]
    /\ polled \in [Poller -> SUBSET Nat]
    /\ carried \in [Poller -> Nat]

\* The types of the bus, of the streams and of the pollers.
LEMMA TypeParts ==
    /\ TypeOK <=> BusTypes /\ StreamTypes /\ PollTypes /\ rounds \in Nat /\ restarts \in Nat
    /\ TypeOK' <=> BusTypes' /\ StreamTypes' /\ PollTypes' /\ rounds' \in Nat /\ restarts' \in Nat
BY DEF TypeOK, BusTypes, StreamTypes, PollTypes, SseEvent

\* A stream that has ended is forgotten.
LEMMA ForgetTypes ==
    ASSUME StreamTypes, NEW ended, Forget(ended), request' = request
    PROVE  StreamTypes'
<1>1. \A S : <<>> \in Seq(S)
  BY EmptySeq
<1>2. NotReplayed \in [ALL_TOPICS -> [from : Nat, to : Nat]] /\ NoNumbers \in [ALL_TOPICS -> Nat]
  BY DEF NotReplayed, NoNumbers
<1>3. /\ queue' \in [Client -> Seq(SseEvent)] /\ rest' \in [Client -> Seq(SseEvent)]
      /\ got' \in [Client -> Seq(SseEvent)]
  BY <1>1 DEF Forget, StreamTypes
<1>4. pc' \in [Client -> {"off", "replay", "live", "closed"}] /\ turn' \in [Client -> Nat]
  BY DEF Forget, StreamTypes
<1>5. /\ replayed' \in [Client -> [ALL_TOPICS -> [from : Nat, to : Nat]]]
      /\ since' \in [Client -> [ALL_TOPICS -> Nat]]
  BY <1>2 DEF Forget, StreamTypes
<1>6. \A c \in Client : dropped'[c] \subseteq SseEvent
  BY DEF Forget, StreamTypes
<1>7. request' \in [Client -> Requests \cup {NoRequest}]
  BY DEF StreamTypes
<1> QED
  BY <1>3, <1>4, <1>5, <1>6, <1>7 DEF StreamTypes

-----------------------------------------------------------------------------
(* The buffers and the lists of subscribers after a step.                  *)

\* A full ring buffer loses its oldest event to the new one.
LEMMA BufferedIs ==
    ASSUME TypeOK, BuffersFollow, NEW t \in ALL_TOPICS
    PROVE  /\ Buffered(t) \in Seq(Nat)
           /\ Len(Buffered(t)) = Smaller(_seq[t] + 1, MaxLen)
           /\ \A i \in DOMAIN Buffered(t) : Buffered(t)[i] = _seq[t] + 1 - Len(Buffered(t)) + i - 1
<1> DEFINE q == _seq[t]
           b == _buffers[t]
           n == Len(b)
           all == Append(b, q)
<1>1. /\ q \in Nat /\ b \in Seq(Nat) /\ n \in Nat /\ MaxLen \in Nat /\ MaxLen # 0
      /\ DOMAIN b = 1 .. n
  BY LenProperties, StreamConstants DEF TypeOK
<1>2. n = Smaller(q, MaxLen) /\ \A i \in 1 .. n : b[i] = q - n + i - 1
  BY <1>1 DEF BuffersFollow
<1>3. Buffered(t) = IF Len(all) > MaxLen THEN Tail(all) ELSE all
  BY DEF Buffered
<1> HIDE DEF q, b
<1>4. all \in Seq(Nat) /\ Len(all) = n + 1 /\ all # <<>>
      /\ (\A i \in 1 .. n : all[i] = b[i]) /\ all[n + 1] = q
  BY <1>1, AppendProperties
<1> HIDE DEF n
<1>5. \A i \in 1 .. n + 1 : all[i] = q - n + i - 1
  <2> TAKE i \in 1 .. n + 1
  <2>1. CASE i \in 1 .. n
    BY <2>1, <1>2, <1>4
  <2>2. CASE i = n + 1
    BY <2>2, <1>1, <1>4
  <2>3. i \in 1 .. n \/ i = n + 1
    BY <1>1
  <2> QED
    BY <2>1, <2>2, <2>3
<1> HIDE DEF all
<1>6. CASE n + 1 > MaxLen
  <2>1. n = MaxLen /\ MaxLen <= q
    BY <1>1, <1>2, <1>6 DEF Smaller
  <2>2. /\ Tail(all) \in Seq(Nat) /\ Len(Tail(all)) = n
        /\ \A i \in 1 .. n : Tail(all)[i] = all[i + 1]
    <3>1. /\ Tail(all) \in Seq(Nat) /\ Len(Tail(all)) = Len(all) - 1
          /\ \A i \in 1 .. Len(Tail(all)) : Tail(all)[i] = all[i + 1]
      BY <1>4, HeadTailProperties
    <3>2. Len(all) - 1 = n
      BY <1>1, <1>4
    <3> QED
      BY <3>1, <3>2
  <2>3. DOMAIN Tail(all) = 1 .. n
    BY <2>2, LenProperties
  <2>4. \A i \in 1 .. n : Tail(all)[i] = q + 1 - n + i - 1
    <3> TAKE i \in 1 .. n
    <3>1. i + 1 \in 1 .. n + 1
      BY <1>1
    <3>2. Tail(all)[i] = q - n + (i + 1) - 1
      BY <3>1, <2>2, <1>5
    <3>3. q \in Nat /\ n \in Nat /\ i \in Nat
      BY <1>1
    <3>4. q - n + (i + 1) - 1 = q + 1 - n + i - 1
      BY <3>3
    <3> QED
      BY <3>2, <3>4
  <2>5. n = Smaller(q + 1, MaxLen)
    BY <2>1, <1>1 DEF Smaller
  <2>6. Buffered(t) = Tail(all)
    BY <1>3, <1>4, <1>6
  <2> QED
    BY <2>2, <2>3, <2>4, <2>5, <2>6 DEF q
<1>7. CASE ~(n + 1 > MaxLen)
  <2>1. n = q /\ n + 1 <= MaxLen
    BY <1>1, <1>2, <1>7 DEF Smaller
  <2>2. DOMAIN all = 1 .. n + 1
    BY <1>4, LenProperties
  <2>3. n + 1 = Smaller(q + 1, MaxLen)
    BY <2>1, <1>1 DEF Smaller
  <2>4. \A i \in 1 .. n + 1 : all[i] = q + 1 - (n + 1) + i - 1
    <3> TAKE i \in 1 .. n + 1
    <3>1. all[i] = q - n + i - 1
      BY <1>5
    <3> QED
      BY <3>1, <1>1
  <2>6. Buffered(t) = all
    BY <1>3, <1>4, <1>7
  <2> QED
    BY <1>4, <2>2, <2>3, <2>4, <2>6 DEF q
<1> QED
  BY <1>6, <1>7

\* list.remove finds the first of what it removes.
LEMMA FirstPlace ==
    ASSUME NEW s \in Seq(Client), NEW c, Has(s, c)
    PROVE  \E i \in DOMAIN s : s[i] = c /\ \A j \in 1 .. i - 1 : s[j] # c
<1> DEFINE D == {i \in DOMAIN s : s[i] = c}
           Less == {p \in Nat \X Nat : p[1] < p[2]}
<1>1. DOMAIN s = 1 .. Len(s) /\ Len(s) \in Nat
  BY LenProperties
<1>2. D \subseteq Nat /\ D # {}
  BY <1>1 DEF Has
<1> HIDE DEF D
<1>3. IsWellFoundedOn(Less, Nat)
  <2>1. OpToRel(<, Nat) = Less
    BY DEF OpToRel
  <2> QED
    BY <2>1, NatLessThanWellFounded
<1> HIDE DEF Less
<1>4. PICK i \in D : \A j \in D : ~ (<<j, i>> \in Less)
  <2>1. \E i \in D : \A j \in D : ~ (<<j, i>> \in Less)
    BY <1>2, <1>3, WFMin
  <2> QED
    BY <2>1
<1>5. i \in DOMAIN s /\ s[i] = c
  BY DEF D
<1>6. ASSUME NEW j \in 1 .. i - 1 PROVE s[j] # c
  <2>1. j \in DOMAIN s /\ j \in Nat /\ i \in Nat /\ j < i
    BY <1>1, <1>5
  <2>2. <<j, i>> \in Less
    BY <2>1 DEF Less
  <2>3. j \notin D
    BY <2>2, <1>4
  <2> QED
    BY <2>1, <2>3 DEF D
<1> QED
  BY <1>5, <1>6

\* A queue removed from a list is in it once less, and the others stay.
LEMMA WithoutIs ==
    ASSUME NEW s \in Seq(Client), NEW c \in Client
    PROVE  /\ Without(s, c) \in Seq(Client)
           /\ \A d : Has(Without(s, c), d) => Has(s, d)
           /\ \A d : d # c => (Has(Without(s, c), d) <=> Has(s, d))
           /\ \A d : Once(s, d) => Once(Without(s, c), d)
           /\ Once(s, c) => ~Has(Without(s, c), c)
<1>1. CASE ~Has(s, c)
  <2>1. Without(s, c) = s
    BY <1>1 DEF Without, Has
  <2> QED
    BY <1>1, <2>1
<1>2. CASE Has(s, c)
  <2> DEFINE First1(i) == i \in DOMAIN s /\ s[i] = c /\ \A j \in 1 .. i - 1 : s[j] # c
             i == CHOOSE i \in DOMAIN s : s[i] = c /\ \A j \in 1 .. i - 1 : s[j] # c
             n == Len(s)
             a == SubSeq(s, 1, i - 1)
             b == SubSeq(s, i + 1, n)
             r == a \o b
  <2>1. i \in DOMAIN s /\ s[i] = c
    BY <1>2, FirstPlace
  <2>2. Without(s, c) = r
    BY <1>2 DEF Without, Has
  <2>3. n \in Nat /\ DOMAIN s = 1 .. n /\ \A k \in 1 .. n : s[k] \in Client
    BY LenProperties, ElementOfSeq
  <2> HIDE DEF i, n
  <2>4. i \in 1 .. n /\ i \in Nat
    BY <2>1, <2>3
  <2>5. a \in Seq(Client) /\ Len(a) = i - 1 /\ \A k \in 1 .. i - 1 : a[k] = s[k]
    <3>1. \A k \in 1 .. i - 1 : s[k] \in Client
      BY <2>3, <2>4
    <3>2. /\ a \in Seq(Client) /\ Len(a) = (IF 1 <= i - 1 THEN (i - 1) - 1 + 1 ELSE 0)
          /\ \A k \in 1 .. (i - 1) - 1 + 1 : a[k] = s[1 + k - 1]
      BY <2>4, <3>1, SubSeqProperties
    <3> QED
      BY <3>2, <2>4
  <2>6. b \in Seq(Client) /\ Len(b) = n - i /\ \A k \in 1 .. n - i : b[k] = s[i + k]
    <3>1. \A k \in i + 1 .. n : s[k] \in Client
      BY <2>3, <2>4
    <3>2. /\ b \in Seq(Client) /\ Len(b) = (IF i + 1 <= n THEN n - (i + 1) + 1 ELSE 0)
          /\ \A k \in 1 .. n - (i + 1) + 1 : b[k] = s[(i + 1) + k - 1]
      BY <2>3, <2>4, <3>1, SubSeqProperties
    <3> QED
      BY <3>2, <2>3, <2>4
  <2> HIDE DEF a, b
  <2>7. /\ r \in Seq(Client) /\ DOMAIN r = 1 .. n - 1
        /\ \A k \in 1 .. n - 1 : r[k] = IF k < i THEN s[k] ELSE s[k + 1]
    <3>1. /\ r \in Seq(Client) /\ Len(r) = Len(a) + Len(b)
          /\ \A k \in 1 .. Len(a) + Len(b) : r[k] = IF k <= Len(a) THEN a[k] ELSE b[k - Len(a)]
      BY <2>5, <2>6, ConcatProperties
    <3>2. Len(a) + Len(b) = n - 1 /\ Len(a) = i - 1
      BY <2>3, <2>4, <2>5, <2>6
    <3>3. DOMAIN r = 1 .. n - 1
      BY <3>1, <3>2, LenProperties
    <3>4. ASSUME NEW k \in 1 .. n - 1 PROVE r[k] = IF k < i THEN s[k] ELSE s[k + 1]
      <4>1. CASE k < i
        <5>1. k \in 1 .. i - 1 /\ k <= Len(a)
          BY <4>1, <3>2, <2>3, <2>4
        <5> QED
          BY <4>1, <5>1, <3>1, <3>2, <2>5
      <4>2. CASE ~(k < i)
        <5>1. ~(k <= Len(a)) /\ k - Len(a) \in 1 .. n - i /\ i + (k - Len(a)) = k + 1
          BY <4>2, <3>2, <2>3, <2>4
        <5>2. r[k] = b[k - Len(a)]
          BY <5>1, <3>1, <3>2
        <5>3. b[k - Len(a)] = s[k + 1]
          BY <5>1, <2>6
        <5> QED
          BY <4>2, <5>2, <5>3
      <4> QED
        BY <4>1, <4>2
    <3> QED
      BY <3>1, <3>3, <3>4
  <2> HIDE DEF r
  <2> DEFINE p(k) == IF k < i THEN k ELSE k + 1
  <2>8. /\ \A k \in DOMAIN r : p(k) \in DOMAIN s /\ r[k] = s[p(k)] /\ p(k) # i
        /\ \A k, l \in DOMAIN r : p(k) = p(l) => k = l
        /\ \A m \in DOMAIN s : m # i => \E k \in DOMAIN r : p(k) = m
    <3>1. ASSUME NEW k \in DOMAIN r PROVE p(k) \in DOMAIN s /\ r[k] = s[p(k)] /\ p(k) # i
      BY <2>3, <2>4, <2>7
    <3>2. ASSUME NEW k \in DOMAIN r, NEW l \in DOMAIN r, p(k) = p(l) PROVE k = l
      BY <3>2, <2>3, <2>4, <2>7
    <3>3. ASSUME NEW m \in DOMAIN s, m # i PROVE \E k \in DOMAIN r : p(k) = m
      <4>1. CASE m < i
        <5>1. m \in DOMAIN r /\ p(m) = m
          BY <4>1, <2>3, <2>4, <2>7
        <5> QED
          BY <5>1
      <4>2. CASE ~(m < i)
        <5>1. m - 1 \in DOMAIN r /\ p(m - 1) = m
          BY <4>2, <3>3, <2>3, <2>4, <2>7
        <5> QED
          BY <5>1
      <4> QED
        BY <4>1, <4>2
    <3> QED
      BY <3>1, <3>2, <3>3
  <2> HIDE DEF p
  <2>9. /\ \A d : Has(r, d) => Has(s, d)
        /\ \A d : d # c => (Has(r, d) <=> Has(s, d))
        /\ \A d : Once(s, d) => Once(r, d)
        /\ Once(s, c) => ~Has(r, c)
    BY <2>1, <2>8 DEF Has, Once
  <2> QED
    BY <2>2, <2>7, <2>9
<1> QED
  BY <1>1, <1>2

\* subscribe_live adds a queue to each list as often as its topic is named.
LEMMA SubscribedIs ==
    ASSUME TypeOK, NEW c \in Client, NEW t \in ALL_TOPICS
    PROVE  LET s == subscribe_live(c, request[c].topics)[t] IN
           /\ s \in Seq(Client)
           /\ \A d : d # c => (Has(s, d) <=> Has(_subscribers[t], d))
           /\ \A d : d # c /\ Once(_subscribers[t], d) => Once(s, d)
           /\ ~Has(_subscribers[t], c) /\ Distinct(c) =>
                Once(s, c) /\ (Has(s, c) <=> t \in Topics(c))
<1> DEFINE topics == request[c].topics
           D == {j \in DOMAIN topics : topics[j] = t}
           n == Cardinality(D)
           a == _subscribers[t]
           b == [i \in 1 .. n |-> c]
           r == a \o b
<1>1. subscribe_live(c, topics)[t] = r
  BY DEF subscribe_live
<1>2. a \in Seq(Client) /\ Len(a) \in Nat /\ DOMAIN a = 1 .. Len(a)
  BY LenProperties DEF TypeOK
<1>3. Len(topics) \in Nat /\ DOMAIN topics = 1 .. Len(topics)
  BY RequestType
<1>4. IsFiniteSet(D) /\ n \in Nat
  <2>1. \A l \in Nat : IsFiniteSet(1 .. l)
    BY FS_Interval
  <2>2. IsFiniteSet(D)
    BY <2>1, <1>3, FS_Subset
  <2> QED
    BY <2>2, FS_CardinalityType
<1>5. Distinct(c) => n = IF t \in Topics(c) THEN 1 ELSE 0
  <2>1. ASSUME Distinct(c), NEW j \in D PROVE D = {j}
    BY <2>1 DEF Distinct
  <2>2. t \in Topics(c) <=> D # {}
    BY DEF Topics
  <2> HIDE DEF D
  <2>3. ASSUME Distinct(c), D # {} PROVE n = 1
    BY <2>1, <2>3, FS_Singleton
  <2>4. D = {} => n = 0
    BY FS_EmptySet
  <2> QED
    BY <2>2, <2>3, <2>4
<1> HIDE DEF n, a
<1>6. b \in Seq(Client) /\ Len(b) = n /\ DOMAIN b = 1 .. n /\ \A i \in 1 .. n : b[i] = c
  BY <1>4
<1> HIDE DEF b
<1>7. /\ r \in Seq(Client) /\ DOMAIN r = 1 .. Len(a) + n
      /\ \A i \in 1 .. Len(a) + n : r[i] = IF i <= Len(a) THEN a[i] ELSE b[i - Len(a)]
  <2>1. /\ r \in Seq(Client) /\ Len(r) = Len(a) + Len(b)
        /\ \A i \in 1 .. Len(a) + Len(b) : r[i] = IF i <= Len(a) THEN a[i] ELSE b[i - Len(a)]
    BY <1>2, <1>6, ConcatProperties
  <2> QED
    BY <2>1, <1>6, LenProperties
<1>8. \A d : Has(r, d) <=> Has(a, d) \/ Has(b, d)
  BY <1>2, <1>6, HasConcat
<1>9. \A d : Has(b, d) <=> d = c /\ n # 0
  <2>1. n # 0 => 1 \in 1 .. n
    BY <1>4
  <2>2. \A i \in 1 .. n : n # 0
    BY <1>4
  <2> QED
    BY <2>1, <2>2, <1>6 DEF Has
<1>10. ASSUME NEW i \in DOMAIN r, r[i] # c PROVE i \in DOMAIN a /\ r[i] = a[i]
  <2>1. CASE i <= Len(a)
    BY <2>1, <1>2, <1>4, <1>7
  <2>2. CASE ~(i <= Len(a))
    <3>1. i - Len(a) \in 1 .. n
      BY <2>2, <1>2, <1>4, <1>7
    <3> QED
      BY <3>1, <2>2, <1>6, <1>7, <1>10
  <2> QED
    BY <2>1, <2>2
<1> HIDE DEF r
<1>11. \A d : d # c /\ Once(a, d) => Once(r, d)
  BY <1>10 DEF Once
<1>12. ASSUME ~Has(a, c), Distinct(c)
       PROVE  Once(r, c) /\ (Has(r, c) <=> t \in Topics(c))
  <2>1. Has(r, c) <=> t \in Topics(c)
    BY <1>5, <1>8, <1>9, <1>12
  <2>2. ASSUME NEW i \in DOMAIN r, r[i] = c PROVE i = Len(a) + 1
    <3>1. ~(i <= Len(a))
      <4>1. i <= Len(a) => i \in DOMAIN a /\ a[i] = c
        BY <2>2, <1>2, <1>4, <1>7
      <4> QED
        BY <4>1, <1>12 DEF Has
    <3>2. i - Len(a) \in 1 .. n /\ i \in Nat
      BY <3>1, <1>2, <1>4, <1>7
    <3>3. n <= 1
      BY <1>4, <1>5, <1>12
    <3> QED
      BY <3>2, <3>3, <1>2, <1>4
  <2> QED
    BY <2>1, <2>2 DEF Once
<1> QED
  BY <1>1, <1>7, <1>8, <1>9, <1>11, <1>12 DEF a

-----------------------------------------------------------------------------
(* A step keeps the types.                                                 *)

\* A queue that is offered events keeps to its type and its capacity, and
\* what it loses is noted.
LEMMA PublishedQueue ==
    ASSUME TypeOK, NEW c \in Client, NEW topics, "transactions" \in topics,
           Len(queue[c]) <= QueueSize
    PROVE  /\ First(QueueSize, queue[c] \o offers(c, topics)) \in Seq(SseEvent)
           /\ Len(First(QueueSize, queue[c] \o offers(c, topics))) <= QueueSize
           /\ {(queue[c] \o offers(c, topics))[i] :
                    i \in QueueSize + 1 .. Len(queue[c] \o offers(c, topics))} \subseteq SseEvent
<1> DEFINE q == queue[c]
           o == offers(c, topics)
<1>1. q \in Seq(SseEvent) /\ o \in Seq(SseEvent) /\ QueueSize \in Nat
  BY OffersAre, StreamConstants DEF TypeOK, SseEvent
<1>2. Len(q) <= QueueSize
  OBVIOUS
<1> HIDE DEF q, o
<1>3. q \o o \in Seq(SseEvent) /\ Len(q \o o) \in Nat
  BY <1>1, ConcatProperties, LenProperties
<1>4. First(QueueSize, q \o o) \in Seq(SseEvent) /\ Len(First(QueueSize, q \o o)) <= QueueSize
  BY <1>1, <1>2, Truncated
<1>5. ASSUME NEW i \in QueueSize + 1 .. Len(q \o o) PROVE (q \o o)[i] \in SseEvent
  <2>1. i \in 1 .. Len(q \o o)
    BY <1>1, <1>3
  <2> QED
    BY <2>1, <1>3, ElementOfSeq
<1> QED
  BY <1>4, <1>5 DEF q, o

\* Publishing keeps the types.
LEMMA PublishTypes ==
    ASSUME TypeOK, BuffersFollow, StreamsFit, NEW fault \in BOOLEAN, PublishRound(fault)
    PROVE  TypeOK'
<1> DEFINE topics == IF fault THEN ALL_TOPICS ELSE {"transactions"}
           o(c) == queue[c] \o offers(c, topics)
<1>1. "transactions" \in topics
  BY DEF ALL_TOPICS
<1>2. /\ _seq' = [t \in ALL_TOPICS |-> IF t \in topics THEN _seq[t] + 1 ELSE _seq[t]]
      /\ _buffers' = [t \in ALL_TOPICS |-> IF t \in topics THEN Buffered(t) ELSE _buffers[t]]
      /\ queue' = [c \in Client |-> First(QueueSize, o(c))]
      /\ dropped' = [c \in Client |-> dropped[c] \cup {o(c)[i] : i \in QueueSize + 1 .. Len(o(c))}]
      /\ rounds' = rounds + 1
      /\ UNCHANGED <<_subscribers, pc, request, turn, rest, got, replayed, since, offset, polled, carried, restarts>>
  BY DEF PublishRound, polls
<1>3. BusTypes'
  <2>1. _seq' \in [ALL_TOPICS -> Nat]
    BY <1>2 DEF TypeOK
  <2>2. \A t \in ALL_TOPICS : Buffered(t) \in Seq(Nat)
    BY BufferedIs
  <2>3. _buffers' \in [ALL_TOPICS -> Seq(Nat)]
    BY <1>2, <2>2 DEF TypeOK
  <2>4. _subscribers' \in [ALL_TOPICS -> Seq(Client)]
    BY <1>2 DEF TypeOK
  <2> QED
    BY <2>1, <2>3, <2>4 DEF BusTypes
<1>4. StreamTypes'
  <2>1. ASSUME NEW c \in Client
        PROVE  First(QueueSize, o(c)) \in Seq(SseEvent)
               /\ {o(c)[i] : i \in QueueSize + 1 .. Len(o(c))} \subseteq SseEvent
    <3>1. Len(queue[c]) <= QueueSize
      BY DEF StreamsFit, StreamFits, Generator
    <3> HIDE DEF topics
    <3> QED
      BY <1>1, <3>1, PublishedQueue
  <2> HIDE DEF o
  <2>2. StreamTypes
    BY TypeParts
  <2>3. queue' \in [Client -> Seq(SseEvent)]
    BY <1>2, <2>1
  <2>4. \A c \in Client : dropped'[c] \subseteq SseEvent
    BY <1>2, <2>1, <2>2 DEF StreamTypes
  <2> QED
    BY <1>2, <2>2, <2>3, <2>4 DEF StreamTypes
<1>5. PollTypes' /\ rounds' \in Nat /\ restarts' \in Nat
  BY <1>2 DEF TypeOK, PollTypes
<1> QED
  BY <1>3, <1>4, <1>5, TypeParts

\* The history of what is replayed consists of numbers.
LEMMA ReplayedUpToType ==
    ASSUME TypeOK, BuffersFollow, NEW c \in Client, NEW i
    PROVE  ReplayedUpTo(c, i) \in [ALL_TOPICS -> [from : Nat, to : Nat]]
<1>1. ASSUME NEW t \in ALL_TOPICS
      PROVE  /\ [from |-> IF request[c].backfill > 0 THEN start(c, t) ELSE _seq[t], to |-> _seq[t]]
                    \in [from : Nat, to : Nat]
             /\ replayed[c][t] \in [from : Nat, to : Nat]
  <2>1. Replays(c, t) \in Nat /\ _seq[t] \in Nat
    BY SnapshotIs DEF TypeOK
  <2>2. replayed[c][t] \in [from : Nat, to : Nat]
    BY DEF TypeOK
  <2> QED
    BY <2>1, <2>2 DEF Replays
<1> QED
  BY <1>1 DEF ReplayedUpTo


\* A generator comes to the next topic that has something to replay.
LEMMA NextTopic ==
    ASSUME TypeOK, BuffersFollow, StreamsFit, NEW c \in Client, ReplayTopic(c)
    PROVE  \E i \in turn[c] .. Len(request[c].topics), t \in ALL_TOPICS, events \in Seq(SseEvent) :
                /\ i \in 1 .. Len(request[c].topics) /\ i \in Nat
                /\ t = request[c].topics[i] /\ events = Events(t, Snapshot(c, t)) /\ events # <<>>
                /\ \A j \in turn[c] .. i - 1 : Snapshot(c, request[c].topics[j]) = <<>>
                /\ got' = [got EXCEPT ![c] = Append(@, Head(events))]
                /\ rest' = [rest EXCEPT ![c] = Tail(events)]
                /\ turn' = [turn EXCEPT ![c] = i + 1]
                /\ replayed' = [replayed EXCEPT ![c] = ReplayedUpTo(c, i)]
<1>1. PICK i \in Pending(c) :
        /\ \A j \in Pending(c) : i <= j
        /\ LET t == request[c].topics[i]
               events == Events(t, Snapshot(c, t))
           IN  /\ got' = [got EXCEPT ![c] = Append(@, Head(events))]
               /\ rest' = [rest EXCEPT ![c] = Tail(events)]
        /\ turn' = [turn EXCEPT ![c] = i + 1]
        /\ replayed' = [replayed EXCEPT ![c] = ReplayedUpTo(c, i)]
  BY DEF ReplayTopic
<1> DEFINE t == request[c].topics[i]
           events == Events(t, Snapshot(c, t))
           n == Len(request[c].topics)
<1>2. turn[c] \in Nat /\ turn[c] >= 1 /\ n \in Nat /\ \A j \in 1 .. n : request[c].topics[j] \in ALL_TOPICS
  <2>1. turn[c] \in 1 .. n + 1 /\ n \in Nat /\ \A j \in 1 .. n : request[c].topics[j] \in ALL_TOPICS
    BY RequestType DEF StreamsFit, StreamFits, Generator
  <2> QED
    BY <2>1
<1>3. i \in turn[c] .. n /\ Snapshot(c, t) # <<>>
  BY DEF Pending, Ahead
<1>4. i \in 1 .. n /\ i \in Nat /\ t \in ALL_TOPICS
  <2>1. i \in 1 .. n /\ i \in Nat
    BY <1>2, <1>3
  <2> QED
    BY <2>1, <1>2
<1>5. ASSUME NEW j \in turn[c] .. i - 1 PROVE Snapshot(c, request[c].topics[j]) = <<>>
  <2>1. j \in turn[c] .. n /\ ~(i <= j)
    BY <1>2, <1>3
  <2> QED
    BY <2>1, <1>1 DEF Pending, Ahead
<1>6. events \in Seq(SseEvent) /\ events # <<>>
  <2>1. Snapshot(c, t) \in Seq(Nat)
    BY <1>4, SnapshotIs
  <2>2. events \in Seq(SseEvent) /\ Len(events) = Len(Snapshot(c, t))
    BY <1>4, <2>1, EventsType
  <2>3. Len(Snapshot(c, t)) # 0
    BY <2>1, <1>3, EmptySeq
  <2>4. Len(<<>>) = 0
    OBVIOUS
  <2> HIDE DEF events, t
  <2> QED
    BY <2>2, <2>3, <2>4
<1>7. /\ got' = [got EXCEPT ![c] = Append(@, Head(events))]
      /\ rest' = [rest EXCEPT ![c] = Tail(events)]
      /\ turn' = [turn EXCEPT ![c] = i + 1]
      /\ replayed' = [replayed EXCEPT ![c] = ReplayedUpTo(c, i)]
  BY <1>1
<1>8. t = request[c].topics[i] /\ events = Events(t, Snapshot(c, t))
  OBVIOUS
<1> HIDE DEF events, t, n
<1> QED
  BY <1>3, <1>4, <1>5, <1>6, <1>7, <1>8 DEF n

\* A step of a client, of the bus, or a restart keeps the types.
LEMMA StepTypes ==
    ASSUME TypeOK, BuffersFollow, StreamsFit, [Next]_vars
    PROVE  TypeOK'
<1> USE DEF bus, polls
<1>a. BusTypes /\ StreamTypes /\ PollTypes /\ rounds \in Nat /\ restarts \in Nat
  BY TypeParts
<1>b. \A S : <<>> \in Seq(S)
  BY EmptySeq
<1>1. ASSUME NEW fault \in BOOLEAN, PublishRound(fault) PROVE TypeOK'
  BY <1>1, PublishTypes
<1>2. ASSUME NEW c \in Client, NEW r \in Requests, Connect(c, r) PROVE TypeOK'
  <2>1. pc' = [pc EXCEPT ![c] = "replay"] /\ request' = [request EXCEPT ![c] = r]
    BY <1>2 DEF Connect
  <2>2. UNCHANGED <<_seq, _buffers, _subscribers, queue, turn, rest, got, replayed, since, dropped,
                    offset, polled, carried, rounds, restarts>>
    BY <1>2 DEF Connect
  <2>3. pc' \in [Client -> {"off", "replay", "live", "closed"}] /\ request' \in [Client -> Requests \cup {NoRequest}]
    BY <2>1, <1>a DEF StreamTypes
  <2>4. BusTypes' /\ PollTypes'
    BY <2>2, <1>a DEF BusTypes, PollTypes
  <2>5. StreamTypes'
    BY <2>2, <2>3, <1>a DEF StreamTypes
  <2> QED
    BY <2>2, <2>4, <2>5, <1>a, TypeParts
<1>3. ASSUME NEW c \in Client, ReplayNext(c) PROVE TypeOK'
  <2>1. got' = [got EXCEPT ![c] = Append(@, Head(rest[c]))] /\ rest' = [rest EXCEPT ![c] = Tail(@)]
    BY <1>3 DEF ReplayNext
  <2>2. UNCHANGED <<_seq, _buffers, _subscribers, queue, pc, request, turn, replayed, since, dropped,
                    offset, polled, carried, rounds, restarts>>
    BY <1>3 DEF ReplayNext
  <2>3. got[c] \in Seq(SseEvent) /\ rest[c] \in Seq(SseEvent) /\ rest[c] # <<>>
    BY <1>3, <1>a DEF ReplayNext, StreamTypes
  <2>4. Append(got[c], Head(rest[c])) \in Seq(SseEvent) /\ Tail(rest[c]) \in Seq(SseEvent)
    BY <2>3, MoveHead
  <2>5. got' \in [Client -> Seq(SseEvent)] /\ rest' \in [Client -> Seq(SseEvent)]
    BY <2>1, <2>4, <1>a DEF StreamTypes
  <2>6. BusTypes' /\ PollTypes'
    BY <2>2, <1>a DEF BusTypes, PollTypes
  <2>7. StreamTypes'
    BY <2>2, <2>5, <1>a DEF StreamTypes
  <2> QED
    BY <2>2, <2>6, <2>7, <1>a, TypeParts
<1>4. ASSUME NEW c \in Client, ReplayTopic(c) PROVE TypeOK'
  <2>1. PICK i \in Nat, events \in Seq(SseEvent) :
            /\ events # <<>>
            /\ got' = [got EXCEPT ![c] = Append(@, Head(events))]
            /\ rest' = [rest EXCEPT ![c] = Tail(events)]
            /\ turn' = [turn EXCEPT ![c] = i + 1]
            /\ replayed' = [replayed EXCEPT ![c] = ReplayedUpTo(c, i)]
    BY <1>4, NextTopic
  <2>2. UNCHANGED <<_seq, _buffers, _subscribers, queue, pc, request, since, dropped,
                    offset, polled, carried, rounds, restarts>>
    BY <1>4 DEF ReplayTopic
  <2>3. got[c] \in Seq(SseEvent)
    BY <1>a DEF StreamTypes
  <2>4. Append(got[c], Head(events)) \in Seq(SseEvent) /\ Tail(events) \in Seq(SseEvent)
    BY <2>1, <2>3, MoveHead
  <2>5. ReplayedUpTo(c, i) \in [ALL_TOPICS -> [from : Nat, to : Nat]]
    BY ReplayedUpToType
  <2>6. /\ got' \in [Client -> Seq(SseEvent)] /\ rest' \in [Client -> Seq(SseEvent)]
        /\ turn' \in [Client -> Nat]
        /\ replayed' \in [Client -> [ALL_TOPICS -> [from : Nat, to : Nat]]]
    BY <2>1, <2>4, <2>5, <1>a DEF StreamTypes
  <2>7. BusTypes' /\ PollTypes'
    BY <2>2, <1>a DEF BusTypes, PollTypes
  <2>8. StreamTypes'
    BY <2>2, <2>6, <1>a DEF StreamTypes
  <2> QED
    BY <2>2, <2>7, <2>8, <1>a, TypeParts
<1>5. ASSUME NEW c \in Client, Subscribe(c) PROVE TypeOK'
  <2>1. /\ pc' = [pc EXCEPT ![c] = "live"]
        /\ turn' = [turn EXCEPT ![c] = Len(request[c].topics) + 1]
        /\ replayed' = [replayed EXCEPT ![c] = ReplayedUpTo(c, Len(request[c].topics))]
        /\ since' = [since EXCEPT ![c] = _seq]
        /\ _subscribers' = subscribe_live(c, request[c].topics)
    BY <1>5 DEF Subscribe
  <2>2. UNCHANGED <<_seq, _buffers, queue, request, rest, got, dropped, offset, polled, carried, rounds, restarts>>
    BY <1>5 DEF Subscribe
  <2>3. Len(request[c].topics) + 1 \in Nat
    BY RequestType
  <2>4. ReplayedUpTo(c, Len(request[c].topics)) \in [ALL_TOPICS -> [from : Nat, to : Nat]]
    BY ReplayedUpToType
  <2>5. _subscribers' \in [ALL_TOPICS -> Seq(Client)]
    <3>1. \A t \in ALL_TOPICS : subscribe_live(c, request[c].topics)[t] \in Seq(Client)
      BY SubscribedIs
    <3>2. subscribe_live(c, request[c].topics) =
            [t \in ALL_TOPICS |-> subscribe_live(c, request[c].topics)[t]]
      BY DEF subscribe_live
    <3> QED
      BY <2>1, <3>1, <3>2
  <2>6. BusTypes' /\ PollTypes'
    BY <2>2, <2>5, <1>a DEF BusTypes, PollTypes
  <2>7. /\ pc' \in [Client -> {"off", "replay", "live", "closed"}] /\ turn' \in [Client -> Nat]
        /\ replayed' \in [Client -> [ALL_TOPICS -> [from : Nat, to : Nat]]]
        /\ since' \in [Client -> [ALL_TOPICS -> Nat]]
    BY <2>1, <2>3, <2>4, <1>a DEF StreamTypes, BusTypes
  <2>8. StreamTypes'
    BY <2>2, <2>7, <1>a DEF StreamTypes
  <2> QED
    BY <2>2, <2>6, <2>8, <1>a, TypeParts
<1>6. ASSUME NEW c \in Client, Receive(c) PROVE TypeOK'
  <2>1. got' = [got EXCEPT ![c] = Append(@, Head(queue[c]))] /\ queue' = [queue EXCEPT ![c] = Tail(@)]
    BY <1>6 DEF Receive
  <2>2. UNCHANGED <<_seq, _buffers, _subscribers, rest, pc, request, turn, replayed, since, dropped,
                    offset, polled, carried, rounds, restarts>>
    BY <1>6 DEF Receive
  <2>3. got[c] \in Seq(SseEvent) /\ queue[c] \in Seq(SseEvent) /\ queue[c] # <<>>
    BY <1>6, <1>a DEF Receive, StreamTypes
  <2>4. Append(got[c], Head(queue[c])) \in Seq(SseEvent) /\ Tail(queue[c]) \in Seq(SseEvent)
    BY <2>3, MoveHead
  <2>5. got' \in [Client -> Seq(SseEvent)] /\ queue' \in [Client -> Seq(SseEvent)]
    BY <2>1, <2>4, <1>a DEF StreamTypes
  <2>6. BusTypes' /\ PollTypes'
    BY <2>2, <1>a DEF BusTypes, PollTypes
  <2>7. StreamTypes'
    BY <2>2, <2>5, <1>a DEF StreamTypes
  <2> QED
    BY <2>2, <2>6, <2>7, <1>a, TypeParts
<1>7. ASSUME NEW c \in Client, Close(c) PROVE TypeOK'
  <2>1. _subscribers' = IF pc[c] = "live" THEN unsubscribe_live(c) ELSE _subscribers
    BY <1>7 DEF Close
  <2>2. UNCHANGED <<_seq, _buffers, request, offset, polled, carried, rounds, restarts>> /\ Forget({c})
    BY <1>7 DEF Close
  <2>3. \A t \in ALL_TOPICS : Without(_subscribers[t], c) \in Seq(Client)
    BY WithoutIs, <1>a DEF BusTypes
  <2>4. _subscribers' \in [ALL_TOPICS -> Seq(Client)]
    BY <2>1, <2>3, <1>a DEF BusTypes, unsubscribe_live
  <2>5. BusTypes' /\ PollTypes'
    BY <2>2, <2>4, <1>a DEF BusTypes, PollTypes
  <2>6. StreamTypes'
    BY <2>2, <1>a, ForgetTypes
  <2> QED
    BY <2>2, <2>5, <2>6, <1>a, TypeParts
<1>8. ASSUME NEW p \in Poller, NEW limit \in 1 .. MaxLen, poll_topic(p, limit) PROVE TypeOK'
  <2> DEFINE events == consume("transactions", offset[p], limit)
  <2>1. /\ offset' = [offset EXCEPT ![p] = next_offset(@, events)]
        /\ polled' = [polled EXCEPT ![p] = @ \cup {events[i] : i \in DOMAIN events}]
    BY <1>8 DEF poll_topic
  <2>2. UNCHANGED <<_seq, _buffers, _subscribers, queue, pc, request, turn, rest, got, replayed, since, dropped,
                    carried, rounds, restarts>>
    BY <1>8 DEF poll_topic, streams
  <2>3. events \in Seq(Nat)
    <3>1. "transactions" \in ALL_TOPICS /\ offset[p] \in Nat /\ limit \in Nat
      BY <1>a, StreamConstants DEF ALL_TOPICS, PollTypes
    <3> QED
      BY <3>1, Consumed
  <2> HIDE DEF events
  <2>4. DOMAIN events = 1 .. Len(events) /\ Len(events) \in Nat /\ \A i \in DOMAIN events : events[i] \in Nat
    BY <2>3, LenProperties, ElementOfSeq
  <2>5. next_offset(offset[p], events) \in Nat
    <3>1. CASE events = <<>>
      BY <3>1, <1>a DEF next_offset, PollTypes
    <3>2. CASE events # <<>>
      <4>1. Len(events) # 0
        BY <2>3, <3>2, EmptySeq
      <4>2. Len(events) \in DOMAIN events
        BY <4>1, <2>4
      <4> QED
        BY <3>2, <4>2, <2>4 DEF next_offset
    <3> QED
      BY <3>1, <3>2
  <2>6. offset' \in [Poller -> Nat] /\ polled' \in [Poller -> SUBSET Nat]
    BY <2>1, <2>4, <2>5, <1>a DEF PollTypes
  <2>7. BusTypes' /\ PollTypes'
    BY <2>2, <2>6, <1>a DEF BusTypes, PollTypes
  <2>8. StreamTypes'
    BY <2>2, <1>a DEF StreamTypes
  <2> QED
    BY <2>2, <2>7, <2>8, <1>a, TypeParts
<1>9. ASSUME Restart PROVE TypeOK'
  <2>1. /\ _seq' = NoNumbers /\ _buffers' = [t \in ALL_TOPICS |-> <<>>] /\ _subscribers' = [t \in ALL_TOPICS |-> <<>>]
        /\ polled' = [p \in Poller |-> {}] /\ carried' = offset /\ offset' = offset /\ restarts' = restarts + 1
        /\ Forget({c \in Client : pc[c] # "off"}) /\ request' = request /\ rounds' = rounds
    BY <1>9 DEF Restart
  <2>2. BusTypes'
    BY <2>1, <1>b DEF BusTypes, NoNumbers
  <2>3. PollTypes'
    BY <2>1, <1>a DEF PollTypes
  <2>4. StreamTypes'
    BY <2>1, <1>a, ForgetTypes
  <2>5. restarts' \in Nat /\ rounds' \in Nat
    BY <2>1, <1>a
  <2> QED
    BY <2>2, <2>3, <2>4, <2>5, TypeParts
<1>10. CASE UNCHANGED vars
  <2>1. UNCHANGED <<_seq, _buffers, _subscribers, queue, pc, request, turn, rest, got, replayed, since, dropped,
                    offset, polled, carried, rounds, restarts>>
    BY <1>10 DEF vars, streams
  <2>2. BusTypes' /\ PollTypes'
    BY <2>1, <1>a DEF BusTypes, PollTypes
  <2>3. StreamTypes'
    BY <2>1, <1>a DEF StreamTypes
  <2> QED
    BY <2>1, <2>2, <2>3, <1>a, TypeParts
<1> HIDE DEF bus, polls
<1> QED
  BY <1>1, <1>2, <1>3, <1>4, <1>5, <1>6, <1>7, <1>8, <1>9, <1>10 DEF Next

-----------------------------------------------------------------------------
(* The steps of the bus and of the pollers.                                *)

\* Only publishing and a restart change what is buffered.
LEMMA StepBuffers ==
    ASSUME TypeOK, BuffersFollow, [Next]_vars
    PROVE  BuffersFollow'
<1> USE DEF bus, polls
<1>1. ASSUME NEW fault \in BOOLEAN, PublishRound(fault) PROVE BuffersFollow'
  <2> DEFINE topics == IF fault THEN ALL_TOPICS ELSE {"transactions"}
  <2>1. /\ _seq' = [t \in ALL_TOPICS |-> IF t \in topics THEN _seq[t] + 1 ELSE _seq[t]]
        /\ _buffers' = [t \in ALL_TOPICS |-> IF t \in topics THEN Buffered(t) ELSE _buffers[t]]
    BY <1>1 DEF PublishRound
  <2>2. ASSUME NEW t \in ALL_TOPICS
        PROVE  /\ Len(_buffers'[t]) = Smaller(_seq'[t], MaxLen)
               /\ \A i \in DOMAIN _buffers'[t] : _buffers'[t][i] = _seq'[t] - Len(_buffers'[t]) + i - 1
    <3> HIDE DEF topics
    <3>1. CASE t \in topics
      <4>1. _seq'[t] = _seq[t] + 1 /\ _buffers'[t] = Buffered(t)
        BY <2>1, <3>1
      <4>2. /\ Len(Buffered(t)) = Smaller(_seq[t] + 1, MaxLen)
            /\ \A i \in DOMAIN Buffered(t) : Buffered(t)[i] = _seq[t] + 1 - Len(Buffered(t)) + i - 1
        BY BufferedIs
      <4>3. Len(_buffers'[t]) = Smaller(_seq'[t], MaxLen)
        BY <4>1, <4>2
      <4>4. ASSUME NEW i \in DOMAIN _buffers'[t]
            PROVE  _buffers'[t][i] = _seq'[t] - Len(_buffers'[t]) + i - 1
        <5>1. i \in DOMAIN Buffered(t)
          BY <4>1
        <5>2. Buffered(t)[i] = _seq[t] + 1 - Len(Buffered(t)) + i - 1
          BY <4>2, <5>1
        <5>3. _buffers'[t][i] = Buffered(t)[i] /\ Len(_buffers'[t]) = Len(Buffered(t))
          BY <4>1
        <5>4. _seq[t] \in Nat /\ Len(Buffered(t)) \in Nat /\ i \in Nat
          <6>1. Buffered(t) \in Seq(Nat)
            BY BufferedIs
          <6> QED
            BY <5>1, <6>1, LenProperties DEF TypeOK
        <5> QED
          BY <4>1, <5>2, <5>3, <5>4
      <4> QED
        BY <4>3, <4>4
    <3>2. CASE t \notin topics
      <4>1. _seq'[t] = _seq[t] /\ _buffers'[t] = _buffers[t]
        BY <2>1, <3>2
      <4> QED
        BY <4>1 DEF BuffersFollow
    <3> QED
      BY <3>1, <3>2
  <2> QED
    BY <2>2 DEF BuffersFollow
<1>2. ASSUME Restart PROVE BuffersFollow'
  <2>1. _seq' = NoNumbers /\ _buffers' = [t \in ALL_TOPICS |-> <<>>]
    BY <1>2 DEF Restart
  <2>2. ASSUME NEW t \in ALL_TOPICS PROVE _seq'[t] = 0 /\ _buffers'[t] = <<>>
    BY <2>1 DEF NoNumbers
  <2>3. Smaller(0, MaxLen) = 0 /\ Len(<<>>) = 0 /\ DOMAIN <<>> = {}
    BY StreamConstants DEF Smaller
  <2> QED
    BY <2>2, <2>3 DEF BuffersFollow
<1>3. ASSUME UNCHANGED <<_seq, _buffers>> PROVE BuffersFollow'
  BY <1>3 DEF BuffersFollow
<1> QED
  BY <1>1, <1>2, <1>3 DEF Next, vars, Connect, ReplayNext, ReplayTopic, Subscribe, Receive, Close, poll_topic

\* A number is buffered from the oldest one of the buffer to the last one
\* published, and publishing only moves the oldest one on.
LEMMA OldestMovesOn ==
    ASSUME TypeOK, BuffersFollow, NEW fault \in BOOLEAN, PublishRound(fault)
    PROVE  /\ _seq'["transactions"] = _seq["transactions"] + 1
           /\ _seq["transactions"] - Len(_buffers["transactions"])
                <= _seq'["transactions"] - Len(_buffers'["transactions"])
           /\ _seq["transactions"] - Len(_buffers["transactions"]) \in Nat
           /\ _seq'["transactions"] - Len(_buffers'["transactions"]) \in Nat
<1> DEFINE t == "transactions"
           topics == IF fault THEN ALL_TOPICS ELSE {t}
<1>1. t \in topics /\ t \in ALL_TOPICS
  BY DEF ALL_TOPICS
<1>2. _seq'[t] = _seq[t] + 1 /\ _buffers'[t] = Buffered(t)
  BY <1>1 DEF PublishRound
<1>3. _seq[t] \in Nat /\ MaxLen \in Nat
  BY <1>1, StreamConstants DEF TypeOK
<1>4. Len(_buffers[t]) = Smaller(_seq[t], MaxLen) /\ Len(Buffered(t)) = Smaller(_seq[t] + 1, MaxLen)
  BY <1>1, BufferedIs DEF BuffersFollow
<1> QED
  BY <1>2, <1>3, <1>4 DEF Smaller

\* A poll delivers all that is buffered between the offset it was asked for
\* and the one it returns.
LEMMA PollIs ==
    ASSUME TypeOK, BuffersFollow, PollersFollow, NEW p \in Poller, NEW limit \in Nat, poll_topic(p, limit)
    PROVE  /\ offset'[p] \in Nat
           /\ offset'[p] = offset[p] \/ (offset'[p] > offset[p] /\ offset'[p] <= _seq["transactions"])
           /\ \A x \in polled[p] : x \in polled'[p]
           /\ \A x \in Nat :
                /\ offset[p] <= x /\ x < offset'[p]
                /\ _seq["transactions"] - Len(_buffers["transactions"]) <= x
                => x \in polled'[p]
           /\ \A r \in Poller : r # p => offset'[r] = offset[r] /\ polled'[r] = polled[r]
<1> DEFINE t == "transactions"
           from == offset[p]
           old == _seq[t] - Len(_buffers[t])
           lo == Larger(from, old)
           events == consume(t, from, limit)
           m == Len(events)
<1>1. t \in ALL_TOPICS /\ from \in Nat /\ _seq[t] \in Nat /\ Len(_buffers[t]) \in Nat
  <2>1. t \in ALL_TOPICS
    BY DEF ALL_TOPICS
  <2>2. _buffers[t] \in Seq(Nat) /\ _seq[t] \in Nat /\ from \in Nat
    BY <2>1 DEF TypeOK
  <2> QED
    BY <2>1, <2>2, LenProperties
<1>2. /\ offset' = [offset EXCEPT ![p] = next_offset(from, events)]
      /\ polled' = [polled EXCEPT ![p] = @ \cup {events[i] : i \in DOMAIN events}]
  BY DEF poll_topic
<1>3. offset'[p] = next_offset(from, events)
  BY <1>2 DEF TypeOK
<1>4. polled'[p] = polled[p] \cup {events[i] : i \in DOMAIN events}
  BY <1>2 DEF TypeOK
<1>5. /\ lo \in Nat /\ events \in Seq(Nat)
      /\ m = Smaller(limit, IF lo < _seq[t] THEN _seq[t] - lo ELSE 0)
      /\ \A k \in 1 .. m : events[k] = lo + k - 1
  <2>1. lo = Larger(from, _seq[t] - Len(_buffers[t]))
    OBVIOUS
  <2> HIDE DEF lo, from, t
  <2>2. /\ lo \in Nat
        /\ consume(t, from, limit) \in Seq(Nat)
        /\ Len(consume(t, from, limit)) = Smaller(limit, IF lo < _seq[t] THEN _seq[t] - lo ELSE 0)
        /\ \A k \in 1 .. Len(consume(t, from, limit)) : consume(t, from, limit)[k] = lo + k - 1
    <3>1. TypeOK /\ BuffersFollow /\ limit \in Nat
      OBVIOUS
    <3> QED
      BY ONLY <1>1, <2>1, <3>1, Consumed
  <2> QED
    BY ONLY <2>2 DEF events, m
<1> HIDE DEF events
<1>6. lo >= from /\ lo >= old /\ (lo = from \/ lo = old) /\ old \in Int
  BY <1>1 DEF Larger
<1>7. DOMAIN events = 1 .. m /\ m \in Nat
  BY <1>5, LenProperties
<1>8. m <= limit /\ (m > 0 => lo + m <= _seq[t])
  BY <1>1, <1>5, <1>7 DEF Smaller
<1>9. offset'[p] = IF m = 0 THEN from ELSE lo + m
  <2>1. CASE m = 0
    <3>1. events = <<>>
      BY <2>1, <1>5, EmptySeq
    <3> QED
      BY <2>1, <3>1, <1>3 DEF next_offset
  <2>2. CASE m # 0
    <3>1. events # <<>>
      BY <2>2, <1>5, EmptySeq
    <3>2. m \in 1 .. m
      BY <2>2, <1>7
    <3>3. events[m] = lo + m - 1
      BY <3>2, <1>5
    <3>4. next_offset(from, events) = events[m] + 1
      BY <3>1 DEF next_offset
    <3>5. lo + m - 1 + 1 = lo + m
      BY <1>5, <1>7
    <3>6. offset'[p] = lo + m
      BY <3>3, <3>4, <3>5, <1>3
    <3> QED
      BY <3>6, <2>2
  <2> QED
    BY <2>1, <2>2
<1>10. ASSUME NEW x \in Nat, from <= x, x < offset'[p], old <= x
       PROVE  x \in polled'[p]
  <2>1. m # 0 /\ x < lo + m /\ x >= lo
    BY <1>1, <1>6, <1>9, <1>10
  <2>2. x - lo + 1 \in 1 .. m
    BY <2>1, <1>5, <1>7
  <2>3. events[x - lo + 1] = lo + (x - lo + 1) - 1
    BY <2>2, <1>5
  <2>4. lo + (x - lo + 1) - 1 = x
    BY <1>5
  <2> QED
    BY <2>2, <2>3, <2>4, <1>4, <1>7
<1>11. \A r \in Poller : r # p => offset'[r] = offset[r] /\ polled'[r] = polled[r]
  BY <1>2 DEF TypeOK
<1>12. offset'[p] = from \/ (offset'[p] > from /\ offset'[p] <= _seq[t])
  BY <1>1, <1>5, <1>6, <1>7, <1>8, <1>9
<1>13. offset'[p] \in Nat
  BY <1>1, <1>5, <1>7, <1>9
<1> QED
  BY <1>4, <1>10, <1>11, <1>12, <1>13 DEF from, old

\* A poller never gets past an event that is still buffered.
LEMMA StepPollers ==
    ASSUME TypeOK, BuffersFollow, PollersFollow, [Next]_vars
    PROVE  PollersFollow'
<1> USE DEF bus, polls
<1> DEFINE t == "transactions"
           old == _seq[t] - Len(_buffers[t])
<1>a. _seq[t] \in Nat /\ \A p \in Poller : offset[p] \in Nat /\ carried[p] \in Nat
  BY DEF TypeOK, ALL_TOPICS
<1>1. ASSUME NEW fault \in BOOLEAN, PublishRound(fault) PROVE PollersFollow'
  <2> DEFINE new == _seq'[t] - Len(_buffers'[t])
  <2>1. _seq'[t] = _seq[t] + 1 /\ old <= new /\ old \in Int /\ new \in Int
    BY <1>1, OldestMovesOn
  <2>2. UNCHANGED <<offset, polled, carried>>
    BY <1>1 DEF PublishRound
  <2>3. ASSUME NEW p \in Poller
        PROVE  /\ offset'[p] <= Larger(_seq'[t], carried'[p])
               /\ \A x \in Nat : carried'[p] <= x /\ x < offset'[p] /\ new <= x /\ x < _seq'[t]
                    => x \in polled'[p]
    <3>1. /\ offset[p] <= Larger(_seq[t], carried[p])
          /\ \A x \in Nat : carried[p] <= x /\ x < offset[p] /\ old <= x /\ x < _seq[t] => x \in polled[p]
      BY DEF PollersFollow
    <3>2. offset'[p] = offset[p] /\ polled'[p] = polled[p] /\ carried'[p] = carried[p]
      BY <2>2
    <3> HIDE DEF old, new
    <3>3. offset[p] <= _seq[t] \/ offset[p] <= carried[p]
      BY <3>1 DEF Larger
    <3>4. offset[p] <= Larger(_seq[t] + 1, carried[p])
      <4>1. offset[p] \in Nat /\ carried[p] \in Nat /\ _seq[t] \in Nat
        BY <1>a
      <4> QED
        BY ONLY <3>3, <4>1 DEF Larger
    <3>5. ASSUME NEW x \in Nat, carried[p] <= x, x < offset[p], new <= x, x < _seq[t] + 1
          PROVE  x \in polled[p]
      <4>1. offset[p] \in Nat /\ carried[p] \in Nat /\ _seq[t] \in Nat /\ old \in Int /\ new \in Int /\ old <= new
        BY <1>a, <2>1
      <4>2. x < _seq[t] /\ old <= x
        BY ONLY <4>1, <3>3, <3>5
      <4> QED
        BY <3>1, <3>5, <4>2
    <3> QED
      BY <2>1, <3>2, <3>4, <3>5
  <2> QED
    BY <2>3 DEF PollersFollow
<1>2. ASSUME NEW q \in Poller, NEW limit \in 1 .. MaxLen, poll_topic(q, limit) PROVE PollersFollow'
  <2>1. limit \in Nat
    BY StreamConstants
  <2>2. /\ offset'[q] \in Nat
        /\ offset'[q] = offset[q] \/ (offset'[q] > offset[q] /\ offset'[q] <= _seq[t])
        /\ \A x \in polled[q] : x \in polled'[q]
        /\ \A x \in Nat : offset[q] <= x /\ x < offset'[q] /\ old <= x => x \in polled'[q]
        /\ \A r \in Poller : r # q => offset'[r] = offset[r] /\ polled'[r] = polled[r]
    BY <1>2, <2>1, PollIs
  <2>3. UNCHANGED <<_seq, _buffers, carried>>
    BY <1>2 DEF poll_topic
  <2>4. ASSUME NEW p \in Poller
        PROVE  /\ offset'[p] <= Larger(_seq[t], carried[p])
               /\ \A x \in Nat : carried[p] <= x /\ x < offset'[p] /\ old <= x /\ x < _seq[t]
                    => x \in polled'[p]
    <3>1. /\ offset[p] <= Larger(_seq[t], carried[p])
          /\ \A x \in Nat : carried[p] <= x /\ x < offset[p] /\ old <= x /\ x < _seq[t] => x \in polled[p]
      BY DEF PollersFollow
    <3>2. offset[p] \in Nat /\ carried[p] \in Nat /\ _seq[t] \in Nat
      BY <1>a
    <3> HIDE DEF old
    <3>3. CASE p # q
      <4>1. offset'[p] = offset[p] /\ polled'[p] = polled[p]
        BY <3>3, <2>2
      <4> QED
        BY ONLY <3>1, <4>1
    <3>4. CASE p = q
      <4>1. offset'[p] <= Larger(_seq[t], carried[p])
        <5>1. offset'[p] \in Nat /\ (offset'[p] = offset[p] \/ offset'[p] <= _seq[t])
          BY <2>2, <3>4
        <5>2. offset[p] <= Larger(_seq[t], carried[p])
          BY <3>1
        <5> QED
          BY ONLY <3>2, <5>1, <5>2 DEF Larger
      <4>2. ASSUME NEW x \in Nat, carried[p] <= x, x < offset'[p], old <= x, x < _seq[t]
            PROVE  x \in polled'[p]
        <5>1. x < offset[p] \/ offset[p] <= x
          BY <3>2
        <5>2. CASE x < offset[p]
          BY <5>2, <4>2, <3>1, <3>4, <2>2
        <5>3. CASE offset[p] <= x
          BY <5>3, <4>2, <3>4, <2>2
        <5> QED
          BY <5>1, <5>2, <5>3
      <4> QED
        BY <4>1, <4>2
    <3> QED
      BY <3>3, <3>4
  <2> QED
    BY <2>3, <2>4 DEF PollersFollow
<1>3. ASSUME Restart PROVE PollersFollow'
  <2>1. _seq' = NoNumbers /\ carried' = offset /\ offset' = offset
    BY <1>3 DEF Restart
  <2>2. _seq'[t] = 0
    BY <2>1 DEF NoNumbers, ALL_TOPICS
  <2>3. \A p \in Poller : offset[p] <= Larger(0, offset[p])
    BY <1>a DEF Larger
  <2>4. \A x \in Nat : ~(x < 0)
    OBVIOUS
  <2> QED
    BY <2>1, <2>2, <2>3, <2>4 DEF PollersFollow
<1>4. ASSUME UNCHANGED <<_seq, _buffers, offset, polled, carried>> PROVE PollersFollow'
  BY <1>4 DEF PollersFollow
<1> QED
  BY <1>1, <1>2, <1>3, <1>4 DEF Next, vars, Connect, ReplayNext, ReplayTopic, Subscribe, Receive, Close

-----------------------------------------------------------------------------
(* The lists of subscribers.                                               *)

\* The list a generator asked for does not change while it runs.
LEMMA SameRequest ==
    ASSUME NEW c \in Client, request'[c] = request[c]
    PROVE  (Distinct(c)' <=> Distinct(c)) /\ Topics(c)' = Topics(c) /\ Len(request[c].topics)' = Len(request[c].topics)
BY DEF Distinct, Topics

\* A client is subscribed as before when neither its generator nor its place
\* among the subscribers changes.
LEMMA SameSubscribed ==
    ASSUME NEW c \in Client, NEW t \in ALL_TOPICS, Subscribed(c, t),
           pc'[c] = pc[c], request'[c] = request[c],
           Has(_subscribers'[t], c) <=> Has(_subscribers[t], c),
           Once(_subscribers[t], c) => Once(_subscribers'[t], c)
    PROVE  Subscribed(c, t)'
<1>1. (Distinct(c)' <=> Distinct(c)) /\ Topics(c)' = Topics(c)
  BY SameRequest
<1> QED
  BY <1>1 DEF Subscribed

\* A step keeps who is subscribed to what.
LEMMA StepSubscribed ==
    ASSUME TypeOK, SubscribedAsAsked, [Next]_vars
    PROVE  SubscribedAsAsked'
<1> USE DEF bus, polls
<1>a. \A c \in Client, t \in ALL_TOPICS : Subscribed(c, t)
  BY DEF SubscribedAsAsked
<1>b. pc \in [Client -> {"off", "replay", "live", "closed"}] /\ _subscribers \in [ALL_TOPICS -> Seq(Client)]
  BY DEF TypeOK
<1>c. \A d : Once(<<>>, d) /\ ~Has(<<>>, d)
  BY DEF Once, Has
<1>1. ASSUME UNCHANGED <<pc, request, _subscribers>> PROVE SubscribedAsAsked'
  <2>1. ASSUME NEW d \in Client, NEW t \in ALL_TOPICS PROVE Subscribed(d, t)'
    BY <1>1, <1>a, SameSubscribed
  <2> QED
    BY <2>1 DEF SubscribedAsAsked
<1>2. ASSUME NEW c \in Client, NEW r \in Requests, Connect(c, r) PROVE SubscribedAsAsked'
  <2>1. /\ pc' = [pc EXCEPT ![c] = "replay"] /\ request' = [request EXCEPT ![c] = r]
        /\ pc[c] = "off" /\ _subscribers' = _subscribers
    BY <1>2 DEF Connect
  <2>2. ASSUME NEW d \in Client, NEW t \in ALL_TOPICS PROVE Subscribed(d, t)'
    <3>1. CASE d # c
      <4>1. pc'[d] = pc[d] /\ request'[d] = request[d]
        BY <2>1, <3>1 DEF TypeOK
      <4> QED
        BY <2>1, <4>1, <1>a, SameSubscribed
    <3>2. CASE d = c
      <4>1. ~Has(_subscribers[t], d)
        BY <2>1, <3>2, <1>a DEF Subscribed
      <4>2. Once(_subscribers[t], d)
        BY <4>1 DEF Has, Once
      <4>3. pc'[d] = "replay"
        BY <2>1, <3>2, <1>b
      <4> QED
        BY <2>1, <4>1, <4>2, <4>3 DEF Subscribed
    <3> QED
      BY <3>1, <3>2
  <2> QED
    BY <2>2 DEF SubscribedAsAsked
<1>3. ASSUME NEW c \in Client, Subscribe(c) PROVE SubscribedAsAsked'
  <2>1. /\ pc[c] = "replay" /\ pc' = [pc EXCEPT ![c] = "live"]
        /\ _subscribers' = subscribe_live(c, request[c].topics) /\ request' = request
    BY <1>3 DEF Subscribe
  <2>2. ASSUME NEW d \in Client, NEW t \in ALL_TOPICS PROVE Subscribed(d, t)'
    <3>1. /\ d # c => (Has(_subscribers'[t], d) <=> Has(_subscribers[t], d))
          /\ d # c /\ Once(_subscribers[t], d) => Once(_subscribers'[t], d)
          /\ ~Has(_subscribers[t], c) /\ Distinct(c) =>
                Once(_subscribers'[t], c) /\ (Has(_subscribers'[t], c) <=> t \in Topics(c))
      BY <2>1, SubscribedIs
    <3>2. CASE d # c
      <4>1. pc'[d] = pc[d] /\ request'[d] = request[d]
        BY <2>1, <3>2, <1>b
      <4> QED
        BY <3>1, <3>2, <4>1, <1>a, SameSubscribed
    <3>3. CASE d = c
      <4>1. ~Has(_subscribers[t], c)
        BY <2>1, <1>a DEF Subscribed
      <4>2. pc'[c] = "live"
        BY <2>1, <1>b
      <4>3. (Distinct(c)' <=> Distinct(c)) /\ Topics(c)' = Topics(c)
        BY <2>1, SameRequest
      <4> QED
        BY <3>1, <3>3, <4>1, <4>2, <4>3 DEF Subscribed
    <3> QED
      BY <3>2, <3>3
  <2> QED
    BY <2>2 DEF SubscribedAsAsked
<1>4. ASSUME NEW c \in Client, Close(c) PROVE SubscribedAsAsked'
  <2>1. /\ pc[c] \in {"replay", "live"} /\ request' = request
        /\ _subscribers' = IF pc[c] = "live" THEN unsubscribe_live(c) ELSE _subscribers
    BY <1>4 DEF Close
  <2>2. \A d \in Client : pc'[d] = IF d = c THEN "closed" ELSE pc[d]
    BY <1>4 DEF Close, Forget
  <2>3. ASSUME NEW d \in Client, NEW t \in ALL_TOPICS PROVE Subscribed(d, t)'
    <3>0. pc[c] = "live" => _subscribers'[t] = Without(_subscribers[t], c)
      BY <2>1 DEF unsubscribe_live
    <3>1. _subscribers[t] \in Seq(Client)
      BY <1>b
    <3>2. /\ d # c => (Has(Without(_subscribers[t], c), d) <=> Has(_subscribers[t], d))
          /\ Once(_subscribers[t], d) => Once(Without(_subscribers[t], c), d)
          /\ Once(_subscribers[t], c) => ~Has(Without(_subscribers[t], c), c)
      BY <3>1, WithoutIs
    <3>3. CASE d # c
      <4>1. pc'[d] = pc[d] /\ request'[d] = request[d]
        BY <2>1, <2>2, <3>3
      <4>2. /\ Has(_subscribers'[t], d) <=> Has(_subscribers[t], d)
            /\ Once(_subscribers[t], d) => Once(_subscribers'[t], d)
        BY <2>1, <3>0, <3>2, <3>3
      <4> QED
        BY <4>1, <4>2, <1>a, SameSubscribed
    <3>4. CASE d = c
      <4>1. pc'[c] = "closed"
        BY <2>2
      <4>2. Distinct(c)' <=> Distinct(c)
        BY <2>1, SameRequest
      <4>3. Distinct(c) => Once(_subscribers'[t], c) /\ ~Has(_subscribers'[t], c)
        <5>1. CASE pc[c] = "live"
          BY <5>1, <3>0, <3>2, <3>4, <1>a DEF Subscribed
        <5>2. CASE pc[c] = "replay"
          <6>1. _subscribers' = _subscribers
            BY <5>2, <2>1
          <6> QED
            BY <5>2, <6>1, <1>a DEF Subscribed
        <5> QED
          BY <5>1, <5>2, <2>1
      <4> QED
        BY <3>4, <4>1, <4>2, <4>3 DEF Subscribed
    <3> QED
      BY <3>3, <3>4
  <2> QED
    BY <2>3 DEF SubscribedAsAsked
<1>5. ASSUME Restart PROVE SubscribedAsAsked'
  <2>1. _subscribers' = [t \in ALL_TOPICS |-> <<>>] /\ Forget({c \in Client : pc[c] # "off"})
    BY <1>5 DEF Restart
  <2>2. \A d \in Client : pc'[d] # "live"
    BY <2>1, <1>b DEF Forget
  <2>3. \A t \in ALL_TOPICS : _subscribers'[t] = <<>>
    BY <2>1
  <2> QED
    BY <2>2, <2>3, <1>c DEF SubscribedAsAsked, Subscribed
<1> QED
  BY <1>1, <1>2, <1>3, <1>4, <1>5
     DEF Next, vars, PublishRound, ReplayNext, ReplayTopic, Receive, poll_topic, streams

-----------------------------------------------------------------------------
(* The streams.                                                            *)

\* What a client has got, is being replayed and has waiting is a list of events.
LEMMA AllType ==
    ASSUME TypeOK, NEW c \in Client
    PROVE  /\ got[c] \in Seq(SseEvent) /\ rest[c] \in Seq(SseEvent) /\ queue[c] \in Seq(SseEvent)
           /\ got[c] \o rest[c] \in Seq(SseEvent) /\ All(c) \in Seq(SseEvent)
           /\ rest[c] = <<>> => got[c] \o rest[c] = got[c]
           /\ rest[c] = <<>> /\ queue[c] = <<>> => All(c) = got[c]
<1>1. got[c] \in Seq(SseEvent) /\ rest[c] \in Seq(SseEvent) /\ queue[c] \in Seq(SseEvent)
  BY TypeParts DEF StreamTypes
<1>2. got[c] \o rest[c] \in Seq(SseEvent)
  BY <1>1, ConcatProperties
<1>3. All(c) \in Seq(SseEvent)
  BY <1>1, <1>2, ConcatProperties DEF All
<1>4. got[c] \o <<>> = got[c]
  BY <1>1, ConcatEmptySeq
<1> QED
  BY <1>1, <1>2, <1>3, <1>4 DEF All

\* A stream fits as before when only the event it sends next moves on.
LEMMA SameStream ==
    ASSUME NEW c \in Client, StreamFits(c), Generator(c)', All(c)' = All(c), _seq' = _seq,
           pc'[c] = pc[c], request'[c] = request[c], turn'[c] = turn[c],
           replayed'[c] = replayed[c], since'[c] = since[c], dropped'[c] = dropped[c]
    PROVE  StreamFits(c)'
<1>1. (Distinct(c)' <=> Distinct(c)) /\ Topics(c)' = Topics(c)
  BY SameRequest
<1>2. Begun(c)' = Begun(c)
  BY DEF Begun
<1>3. Ordered(All(c), _seq) => Ordered(All(c), _seq)'
  BY DEF Ordered
<1>4. ReplayComplete(c) => ReplayComplete(c)'
  BY <1>2 DEF ReplayComplete
<1>5. LiveComplete(c) => LiveComplete(c)'
  BY <1>1 DEF LiveComplete
<1> QED
  BY <1>1, <1>3, <1>4, <1>5 DEF StreamFits

\* A stream fits as before when nothing of it changes.
LEMMA UntouchedStream ==
    ASSUME NEW c \in Client, StreamFits(c), _seq' = _seq,
           got'[c] = got[c], rest'[c] = rest[c], queue'[c] = queue[c],
           pc'[c] = pc[c], request'[c] = request[c], turn'[c] = turn[c],
           replayed'[c] = replayed[c], since'[c] = since[c], dropped'[c] = dropped[c]
    PROVE  StreamFits(c)'
<1>1. All(c)' = All(c)
  BY DEF All
<1>2. Distinct(c)' <=> Distinct(c)
  BY SameRequest
<1>3. Generator(c)'
  BY <1>2 DEF StreamFits, Generator
<1> QED
  BY <1>1, <1>3, SameStream

\* Sending an event moves it from what is being replayed, or from the queue,
\* to what the client has got.
LEMMA SendFits ==
    ASSUME TypeOK, NEW c \in Client, StreamFits(c), ReplayNext(c) \/ Receive(c)
    PROVE  StreamFits(c)'
<1>0. got[c] \in Seq(SseEvent) /\ rest[c] \in Seq(SseEvent) /\ queue[c] \in Seq(SseEvent)
  BY AllType
<1>1. UNCHANGED <<_seq, pc, request, turn, replayed, since, dropped>>
  BY DEF ReplayNext, Receive, bus
<1>2. Distinct(c)' <=> Distinct(c)
  BY <1>1, SameRequest
<1>3. CASE ReplayNext(c)
  <2>1. got'[c] = Append(got[c], Head(rest[c])) /\ rest'[c] = Tail(rest[c]) /\ queue'[c] = queue[c]
    BY <1>3 DEF ReplayNext, TypeOK
  <2>2. rest[c] # <<>> /\ pc[c] = "replay"
    BY <1>3 DEF ReplayNext
  <2>3. got'[c] \o rest'[c] = got[c] \o rest[c]
    <3>1. Append(got[c], Head(rest[c])) \o Tail(rest[c]) = got[c] \o rest[c]
      BY ZenonT(40), <2>2, <1>0, MoveHead
    <3> QED
      BY ONLY <2>1, <3>1
  <2>4. All(c)' = All(c)
    BY <2>1, <2>3 DEF All
  <2>5. Generator(c)'
    BY <1>1, <2>1, <2>2 DEF StreamFits, Generator
  <2> QED
    BY <1>1, <2>4, <2>5, SameStream
<1>4. CASE Receive(c)
  <2>1. got'[c] = Append(got[c], Head(queue[c])) /\ queue'[c] = Tail(queue[c]) /\ rest'[c] = rest[c]
    BY <1>4 DEF Receive, TypeOK
  <2>2. queue[c] # <<>> /\ pc[c] = "live" /\ rest[c] = <<>>
    BY <1>4 DEF Receive, StreamFits, Generator
  <2>3. /\ got'[c] \o queue'[c] = got[c] \o queue[c]
        /\ got'[c] \in Seq(SseEvent) /\ queue'[c] \in Seq(SseEvent) /\ Len(queue'[c]) <= Len(queue[c])
    <3>1. /\ Append(got[c], Head(queue[c])) \o Tail(queue[c]) = got[c] \o queue[c]
          /\ Append(got[c], Head(queue[c])) \in Seq(SseEvent) /\ Tail(queue[c]) \in Seq(SseEvent)
          /\ Len(Tail(queue[c])) <= Len(queue[c])
      BY <2>2, <1>0, MoveHead
    <3> QED
      BY ONLY <2>1, <3>1
  <2>4. got'[c] \o rest'[c] = got'[c] /\ got[c] \o rest[c] = got[c]
    BY <2>1, <2>2, <2>3, <1>0, ConcatEmptySeq
  <2>5. All(c)' = All(c)
    BY <2>3, <2>4 DEF All
  <2>6. Len(queue'[c]) <= QueueSize
    <3>1. Len(queue[c]) <= QueueSize
      BY DEF StreamFits, Generator
    <3>2. Len(queue[c]) \in Nat /\ Len(queue'[c]) \in Nat /\ QueueSize \in Nat
      BY <1>0, <2>3, LenProperties, StreamConstants
    <3> QED
      BY <3>1, <3>2, <2>3
  <2>7. Generator(c)'
    BY <1>1, <2>1, <2>2, <2>6 DEF StreamFits, Generator
  <2> QED
    BY <1>1, <2>5, <2>7, SameStream
<1> QED
  BY <1>3, <1>4

\* A client that connects has got nothing yet, and comes to no topic.
LEMMA ConnectFits ==
    ASSUME TypeOK, NEW c \in Client, StreamFits(c), NEW r \in Requests, Connect(c, r)
    PROVE  StreamFits(c)'
<1>1. /\ pc[c] = "off" /\ pc'[c] = "replay" /\ request'[c] = r
      /\ UNCHANGED <<queue, turn, rest, got>>
  BY DEF Connect, TypeOK
<1>2. /\ request[c] = NoRequest /\ got[c] = <<>> /\ rest[c] = <<>> /\ queue[c] = <<>>
      /\ turn[c] \in 1 .. Len(request[c].topics) + 1
  BY <1>1 DEF StreamFits, Generator
<1>3. turn[c] = 1
  <2>1. Len(request[c].topics) = 0
    BY <1>2 DEF NoRequest
  <2> QED
    BY <1>2, <2>1
<1>4. Len(r.topics) \in Nat /\ Len(<<>>) <= QueueSize
  BY StreamConstants, LenProperties
<1>5. Generator(c)'
  BY <1>1, <1>2, <1>3, <1>4 DEF Generator
<1>6. All(c)' = <<>>
  <2>1. <<>> \o <<>> = <<>>
    BY EmptySeq, ConcatEmptySeq
  <2> QED
    BY <1>1, <1>2, <2>1 DEF All
<1>7. DOMAIN <<>> = {} /\ 1 .. 1 - 1 = {}
  OBVIOUS
<1>8. Begun(c)' = {}
  BY <1>1, <1>3, <1>7 DEF Begun
<1>9. Ordered(All(c), _seq)'
  BY <1>6, <1>7 DEF Ordered
<1>10. ReplayComplete(c)'
  BY <1>6, <1>7, <1>8 DEF ReplayComplete
<1> QED
  BY <1>1, <1>5, <1>9, <1>10 DEF StreamFits

\* Of the topics up to the i-th, those the generator had come to stay as they
\* were replayed, and the others are replayed up to now.
LEMMA NowReplayed ==
    ASSUME TypeOK, NEW c \in Client, Generator(c), Distinct(c),
           NEW i \in Nat, i <= Len(request[c].topics), NEW j \in 1 .. i, NEW u, u = request[c].topics[j]
    PROVE  /\ u \in ALL_TOPICS
           /\ \/ j < turn[c] /\ u \in Begun(c) /\ ReplayedUpTo(c, i)[u] = replayed[c][u]
              \/ /\ j \in turn[c] .. i
                 /\ ReplayedUpTo(c, i)[u].from = Replays(c, u) /\ ReplayedUpTo(c, i)[u].to = _seq[u]
<1>1. /\ Len(request[c].topics) \in Nat /\ DOMAIN request[c].topics = 1 .. Len(request[c].topics)
      /\ \A h \in 1 .. Len(request[c].topics) : request[c].topics[h] \in ALL_TOPICS
  BY RequestType
<1>2. turn[c] \in Nat /\ turn[c] >= 1 /\ j \in Nat /\ j >= 1 /\ j <= i
  <2>1. turn[c] \in 1 .. Len(request[c].topics) + 1
    BY DEF Generator
  <2> QED
    BY <2>1, <1>1
<1>3. j \in DOMAIN request[c].topics /\ u \in ALL_TOPICS
  <2>1. j \in 1 .. Len(request[c].topics)
    BY <1>1, <1>2
  <2> QED
    BY <2>1, <1>1
<1>4. CASE j < turn[c]
  <2>1. u \in Begun(c)
    <3>1. j \in 1 .. turn[c] - 1
      BY <1>2, <1>4
    <3> QED
      BY <3>1 DEF Begun
  <2>2. ASSUME NEW h \in turn[c] .. i PROVE request[c].topics[h] # u
    <3>1. h \in 1 .. Len(request[c].topics) /\ h # j
      BY <1>1, <1>2, <1>4
    <3> QED
      BY <3>1, <1>1, <1>3 DEF Distinct
  <2>3. ReplayedUpTo(c, i)[u] = replayed[c][u]
    BY <2>2, <1>3 DEF ReplayedUpTo
  <2> QED
    BY <1>3, <1>4, <2>1, <2>3
<1>5. CASE j >= turn[c]
  <2>1. j \in turn[c] .. i
    BY <1>2, <1>5
  <2>2. ReplayedUpTo(c, i)[u] = [from |-> Replays(c, u), to |-> _seq[u]]
    BY <2>1, <1>3 DEF ReplayedUpTo, Replays
  <2> QED
    BY <1>3, <2>1, <2>2
<1> QED
  BY <1>2, <1>4, <1>5

\* What is replayed of a topic is in order, older than the next event, and
\* holds all numbers from the first of the backfill on.
LEMMA SnapshotEvents ==
    ASSUME TypeOK, BuffersFollow, NEW c \in Client, NEW t \in ALL_TOPICS,
           NEW e, e = Events(t, Snapshot(c, t))
    PROVE  /\ Ordered(e, _seq)
           /\ \A k \in DOMAIN e : e[k].topic = t
           /\ \A x \in Nat : Replays(c, t) <= x /\ x < _seq[t] => Has(e, Event(t, x))
           /\ Snapshot(c, t) = <<>> => Replays(c, t) = _seq[t]
<1> DEFINE s == Snapshot(c, t)
           f == Replays(c, t)
           n == Len(s)
<1>1. /\ s \in Seq(Nat) /\ f \in Nat /\ f <= _seq[t] /\ n = _seq[t] - f
      /\ \A k \in 1 .. n : s[k] = f + k - 1
  BY SnapshotIs
<1>2. _seq[t] \in Nat /\ n \in Nat
  BY <1>1, LenProperties DEF TypeOK
<1> HIDE DEF s, f
<1>3. e \in Seq(SseEvent) /\ Len(e) = n /\ \A k \in 1 .. n : e[k] = Event(t, s[k])
  <2>1. e = Events(t, s)
    BY DEF s
  <2> QED
    BY <1>1, <2>1, EventsType
<1>4. DOMAIN e = 1 .. n
  BY <1>3, LenProperties
<1> HIDE DEF n
<1>5. \A k \in 1 .. n : e[k].topic = t /\ e[k].seq = f + k - 1
  <2> TAKE k \in 1 .. n
  <2>1. e[k] = [topic |-> t, seq |-> s[k]]
    BY <1>3 DEF Event
  <2>2. s[k] = f + k - 1
    BY <1>1
  <2> QED
    BY <2>1, <2>2
<1>6. Ordered(e, _seq)
  <2>1. ASSUME NEW k \in 1 .. n PROVE e[k].seq < _seq[e[k].topic]
    <3>1. f + k - 1 < _seq[t]
      BY <1>1, <1>2
    <3> QED
      BY <3>1, <1>5
  <2>2. ASSUME NEW k \in 1 .. n, NEW l \in 1 .. n, k < l PROVE e[k].seq < e[l].seq
    <3>1. f + k - 1 < f + l - 1
      BY <2>2, <1>1, <1>2
    <3> QED
      BY <3>1, <1>5
  <2> QED
    BY <2>1, <2>2, <1>4 DEF Ordered
<1>7. ASSUME NEW x \in Nat, f <= x, x < _seq[t] PROVE Has(e, Event(t, x))
  <2>1. x - f + 1 \in 1 .. n
    BY <1>1, <1>2, <1>7
  <2>2. s[x - f + 1] = f + (x - f + 1) - 1
    BY <2>1, <1>1
  <2>3. f + (x - f + 1) - 1 = x
    BY <1>1
  <2>4. e[x - f + 1] = Event(t, x)
    BY <2>1, <2>2, <2>3, <1>3
  <2> QED
    BY <2>1, <2>4, <1>4 DEF Has
<1>8. s = <<>> => f = _seq[t]
  <2>1. s = <<>> => n = 0
    BY <1>1, EmptySeq DEF n
  <2> QED
    BY <2>1, <1>1, <1>2
<1> QED
  BY <1>4, <1>5, <1>6, <1>7, <1>8 DEF s, f

\* The generator comes to the next topic that has something to replay: the
\* events of a topic it had not come to before.
LEMMA ReplayTopicFits ==
    ASSUME TypeOK, BuffersFollow, StreamsFit, NEW c \in Client, ReplayTopic(c)
    PROVE  StreamFits(c)'
<1>1. PICK i \in turn[c] .. Len(request[c].topics), t \in ALL_TOPICS, e \in Seq(SseEvent) :
            /\ i \in 1 .. Len(request[c].topics) /\ i \in Nat
            /\ t = request[c].topics[i] /\ e = Events(t, Snapshot(c, t)) /\ e # <<>>
            /\ \A j \in turn[c] .. i - 1 : Snapshot(c, request[c].topics[j]) = <<>>
            /\ got' = [got EXCEPT ![c] = Append(@, Head(e))]
            /\ rest' = [rest EXCEPT ![c] = Tail(e)]
            /\ turn' = [turn EXCEPT ![c] = i + 1]
            /\ replayed' = [replayed EXCEPT ![c] = ReplayedUpTo(c, i)]
  BY NextTopic
<1>2. /\ pc[c] = "replay" /\ rest[c] = <<>> /\ UNCHANGED <<_seq, _buffers, queue, pc, request, since, dropped>>
  BY DEF ReplayTopic, bus
<1>3. /\ got'[c] = Append(got[c], Head(e)) /\ rest'[c] = Tail(e) /\ turn'[c] = i + 1
      /\ replayed'[c] = ReplayedUpTo(c, i)
  BY <1>1 DEF TypeOK
<1>4. StreamFits(c) /\ Generator(c) /\ queue[c] = <<>> /\ turn[c] \in 1 .. Len(request[c].topics) + 1
  BY <1>2 DEF StreamsFit, StreamFits, Generator
<1>5. Len(request[c].topics) \in Nat /\ DOMAIN request[c].topics = 1 .. Len(request[c].topics)
  BY RequestType
<1>6. (Distinct(c)' <=> Distinct(c)) /\ Begun(c)' = {request[c].topics[j] : j \in 1 .. i}
  <2>1. Begun(c)' = {request[c].topics[j] : j \in 1 .. i + 1 - 1}
    BY <1>2, <1>3 DEF Begun
  <2>2. i + 1 - 1 = i
    BY <1>1
  <2> QED
    BY <2>1, <2>2, <1>2, SameRequest
<1>7. got[c] \in Seq(SseEvent) /\ All(c) = got[c]
  BY <1>2, <1>4, AllType
<1>8. All(c)' = got[c] \o e
  <2>0. e # <<>> /\ got[c] \in Seq(SseEvent)
    BY <1>1, <1>7
  <2>1. Append(got[c], Head(e)) \o Tail(e) = got[c] \o e
    BY <2>0, MoveHead
  <2>2. got[c] \o e \in Seq(SseEvent)
    BY <1>1, <1>7, ConcatProperties
  <2>3. All(c)' = (got[c] \o e) \o <<>>
    BY <2>1, <1>2, <1>3, <1>4 DEF All
  <2> QED
    BY <2>2, <2>3, ConcatEmptySeq
<1>9. Generator(c)'
  <2>1. turn'[c] \in 1 .. Len(request[c].topics) + 1
    BY <1>1, <1>3, <1>5
  <2> QED
    BY <2>1, <1>2, <1>4 DEF Generator
<1>10. ASSUME Distinct(c) PROVE Ordered(All(c), _seq)' /\ ReplayComplete(c)'
  <2>1. Ordered(got[c], _seq) /\ ReplayComplete(c)
    BY <1>2, <1>4, <1>7, <1>10 DEF StreamFits
  <2>2. /\ Ordered(e, _seq) /\ \A k \in DOMAIN e : e[k].topic = t
        /\ \A x \in Nat : Replays(c, t) <= x /\ x < _seq[t] => Has(e, Event(t, x))
    BY <1>1, SnapshotEvents
  <2>3. t \notin Begun(c)
    <3>1. ASSUME NEW j \in 1 .. turn[c] - 1 PROVE request[c].topics[j] # t
      <4>1. j \in 1 .. Len(request[c].topics) /\ j # i
        BY <1>1, <1>4, <1>5
      <4> QED
        BY <4>1, <1>1, <1>5, <1>10 DEF Distinct
    <3> QED
      BY <3>1 DEF Begun
  <2>4. \A k \in DOMAIN got[c] : got[c][k].topic \in Begun(c)
    BY <2>1, <1>7 DEF ReplayComplete
  <2>5. Ordered(got[c] \o e, _seq)
    <3>1. \A k \in DOMAIN got[c], l \in DOMAIN e : got[c][k].topic # e[l].topic
      BY <2>2, <2>3, <2>4
    <3> QED
      BY ZenonT(40), <3>1, <2>1, <2>2, <1>1, <1>7, OrderedConcat
  <2>6. Begun(c) \subseteq Begun(c)' /\ t \in Begun(c)'
    <3>1. \A j \in 1 .. turn[c] - 1 : j \in 1 .. i
      BY <1>1, <1>4, <1>5
    <3>2. i \in 1 .. i
      BY <1>1
    <3> QED
      BY <3>1, <3>2, <1>1, <1>6 DEF Begun
  <2>7. ASSUME NEW k \in DOMAIN (got[c] \o e) PROVE (got[c] \o e)[k].topic \in Begun(c)'
    <3>1. Has(got[c] \o e, (got[c] \o e)[k])
      BY DEF Has
    <3>2. CASE Has(got[c], (got[c] \o e)[k])
      BY <3>2, <2>4, <2>6 DEF Has
    <3>3. CASE Has(e, (got[c] \o e)[k])
      BY <3>3, <2>2, <2>6 DEF Has
    <3>4. Has(got[c], (got[c] \o e)[k]) \/ Has(e, (got[c] \o e)[k])
      BY <3>1, <1>1, <1>7, HasConcat
    <3> QED
      BY ONLY <3>2, <3>3, <3>4
  <2>8. ASSUME NEW u \in Begun(c)', NEW x \in Nat, replayed'[c][u].from <= x, x < replayed'[c][u].to
        PROVE  Has(got[c] \o e, Event(u, x))
    <3>1. PICK j \in 1 .. i : u = request[c].topics[j]
      BY <1>6
    <3>2. /\ u \in ALL_TOPICS
          /\ \/ j < turn[c] /\ u \in Begun(c) /\ replayed'[c][u] = replayed[c][u]
             \/ j \in turn[c] .. i /\ replayed'[c][u].from = Replays(c, u) /\ replayed'[c][u].to = _seq[u]
      <4>1. i \in Nat /\ i <= Len(request[c].topics)
        BY <1>1, <1>5
      <4>2. Generator(c) /\ Distinct(c) /\ j \in 1 .. i /\ u = request[c].topics[j]
        BY <3>1, <1>4, <1>10
      <4>3. /\ u \in ALL_TOPICS
            /\ \/ j < turn[c] /\ u \in Begun(c) /\ ReplayedUpTo(c, i)[u] = replayed[c][u]
               \/ /\ j \in turn[c] .. i
                  /\ ReplayedUpTo(c, i)[u].from = Replays(c, u) /\ ReplayedUpTo(c, i)[u].to = _seq[u]
        BY <4>1, <4>2, NowReplayed
      <4> QED
        BY ONLY <4>3, <1>3
    <3>3. CASE u \in Begun(c) /\ replayed'[c][u] = replayed[c][u]
      <4>1. Has(got[c], Event(u, x))
        BY <3>3, <2>1, <2>8, <1>7 DEF ReplayComplete
      <4> QED
        BY <4>1, <1>1, <1>7, HasConcat
    <3>4. CASE j \in turn[c] .. i /\ replayed'[c][u].from = Replays(c, u) /\ replayed'[c][u].to = _seq[u]
      <4>1. Replays(c, u) <= x /\ x < _seq[u]
        BY <3>4, <2>8
      <4>2. CASE j = i
        <5>1. Has(e, Event(u, x))
          BY <4>1, <4>2, <3>1, <2>2, <1>1
        <5> QED
          BY <5>1, <1>1, <1>7, HasConcat
      <4>3. CASE j # i
        <5>1. j \in turn[c] .. i - 1
          BY <3>4, <4>3, <1>1, <1>4, <1>5
        <5>2. Snapshot(c, u) = <<>>
          BY <5>1, <3>1, <1>1
        <5>3. Replays(c, u) = _seq[u]
          BY <5>2, <3>2, SnapshotEvents
        <5>4. _seq[u] \in Nat
          BY <3>2 DEF TypeOK
        <5> QED
          BY <4>1, <5>3, <5>4
      <4> QED
        BY <4>2, <4>3
    <3> QED
      BY <3>2, <3>3, <3>4
  <2> QED
    BY <2>5, <2>7, <2>8, <1>2, <1>8 DEF ReplayComplete
<1> QED
  BY <1>2, <1>6, <1>9, <1>10 DEF StreamFits

\* A generator that subscribes has nothing left to replay, of any topic.
LEMMA SubscribeFits ==
    ASSUME TypeOK, BuffersFollow, StreamsFit, NEW c \in Client, Subscribe(c)
    PROVE  StreamFits(c)'
<1> DEFINE n == Len(request[c].topics)
<1>1. /\ pc[c] = "replay" /\ rest[c] = <<>> /\ Pending(c) = {}
      /\ UNCHANGED <<_seq, _buffers, queue, request, rest, got, dropped>>
  BY DEF Subscribe
<1>2. pc'[c] = "live" /\ turn'[c] = n + 1 /\ replayed'[c] = ReplayedUpTo(c, n) /\ since'[c] = _seq
  BY DEF Subscribe, TypeOK
<1>3. StreamFits(c) /\ Generator(c) /\ queue[c] = <<>> /\ turn[c] \in 1 .. n + 1
  BY <1>1 DEF StreamsFit, StreamFits, Generator
<1>4. n \in Nat /\ DOMAIN request[c].topics = 1 .. n
  BY RequestType
<1>5. (Distinct(c)' <=> Distinct(c)) /\ Topics(c)' = Topics(c) /\ All(c)' = All(c)
  BY <1>1, SameRequest DEF All
<1>6. Generator(c)'
  <2>1. turn'[c] \in 1 .. n + 1
    BY <1>2, <1>4
  <2> QED
    BY <2>1, <1>1, <1>2, <1>3 DEF Generator
<1>7. ASSUME Distinct(c) PROVE Ordered(All(c), _seq)' /\ LiveComplete(c)'
  <2>1. Ordered(All(c), _seq) /\ ReplayComplete(c)
    BY <1>1, <1>3, <1>7 DEF StreamFits
  <2>2. Ordered(All(c), _seq)'
    BY <2>1, <1>1, <1>5 DEF Ordered
  <2>3. ASSUME NEW u \in Topics(c), NEW x \in Nat, replayed'[c][u].from <= x, x < _seq[u]
        PROVE  Has(All(c), Event(u, x)) \/ (replayed'[c][u].to <= x /\ x < since'[c][u])
    <3>1. PICK j \in 1 .. n : u = request[c].topics[j]
      BY <1>4 DEF Topics
    <3>2. /\ u \in ALL_TOPICS
          /\ \/ j < turn[c] /\ u \in Begun(c) /\ ReplayedUpTo(c, n)[u] = replayed[c][u]
             \/ /\ j \in turn[c] .. n
                /\ ReplayedUpTo(c, n)[u].from = Replays(c, u) /\ ReplayedUpTo(c, n)[u].to = _seq[u]
      <4>1. n \in Nat /\ n <= Len(request[c].topics)
        BY <1>4
      <4>2. Generator(c) /\ Distinct(c) /\ j \in 1 .. n /\ u = request[c].topics[j]
        BY <3>1, <1>3, <1>7
      <4> HIDE DEF n
      <4> QED
        BY <4>1, <4>2, NowReplayed
    <3>3. CASE u \in Begun(c) /\ ReplayedUpTo(c, n)[u] = replayed[c][u]
      <4>1. replayed[c][u].to \in Nat /\ replayed[c][u].from \in Nat
        BY <3>2 DEF TypeOK
      <4>2. replayed'[c][u] = replayed[c][u] /\ since'[c][u] = _seq[u]
        BY <3>3, <1>2
      <4>3. x < replayed[c][u].to => Has(All(c), Event(u, x))
        BY <3>3, <4>2, <2>1, <2>3 DEF ReplayComplete
      <4>4. x < replayed[c][u].to \/ replayed[c][u].to <= x
        BY <4>1
      <4> QED
        BY <4>2, <4>3, <4>4, <2>3
    <3>4. CASE j \in turn[c] .. n /\ ReplayedUpTo(c, n)[u].from = Replays(c, u)
      <4>1. Snapshot(c, u) = <<>>
        BY <3>1, <3>4, <1>1 DEF Pending, Ahead
      <4>2. Replays(c, u) = _seq[u]
        BY <4>1, <3>2, SnapshotEvents
      <4>3. _seq[u] <= x
        BY <3>4, <4>2, <2>3, <1>2
      <4>4. _seq[u] \in Nat
        BY <3>2 DEF TypeOK
      <4> QED
        BY <4>3, <4>4, <2>3
    <3> QED
      BY <3>2, <3>3, <3>4
  <2> QED
    BY <2>2, <2>3, <1>1, <1>5 DEF LiveComplete
<1> QED
  BY <1>2, <1>5, <1>6, <1>7 DEF StreamFits

\* Of a stream that has ended nothing is left, if its queue is not subscribed.
LEMMA ForgottenFits ==
    ASSUME TypeOK, SubscribedAsAsked', NEW ended, NEW c \in Client, Forget(ended), c \in ended,
           StreamFits(c), request' = request
    PROVE  StreamFits(c)'
<1>1. pc'[c] = "closed" /\ turn'[c] = 1 /\ got'[c] = <<>> /\ rest'[c] = <<>>
  BY DEF Forget
<1>2. (Distinct(c)' <=> Distinct(c)) /\ Len(request[c].topics) \in Nat
  BY SameRequest, RequestType
<1>3. queue'[c] = <<>> \/ queue'[c] = queue[c]
  BY DEF Forget
<1>4. ASSUME Distinct(c) PROVE queue'[c] = <<>>
  <2>1. \A t \in ALL_TOPICS : ~Has(_subscribers'[t], c)
    BY <1>1, <1>2, <1>4 DEF SubscribedAsAsked, Subscribed
  <2>2. \A t \in ALL_TOPICS : \A i \in DOMAIN _subscribers'[t] : _subscribers'[t][i] # c
    BY <2>1 DEF Has
  <2> QED
    BY <2>2 DEF Forget
<1>5. Len(queue'[c]) <= QueueSize
  <2>1. Len(queue[c]) <= QueueSize
    BY DEF StreamFits, Generator
  <2>2. Len(<<>>) = 0 /\ QueueSize \in Nat
    BY StreamConstants
  <2> QED
    BY <2>1, <2>2, <1>3
<1>6. Generator(c)'
  <2>1. 1 \in 1 .. Len(request[c].topics) + 1
    BY <1>2
  <2> QED
    BY <2>1, <1>1, <1>2, <1>4, <1>5 DEF Generator
<1>7. ASSUME Distinct(c) PROVE Ordered(All(c), _seq)'
  <2>1. <<>> \o <<>> = <<>>
    BY EmptySeq, ConcatEmptySeq
  <2>2. All(c)' = <<>>
    BY <2>1, <1>1, <1>4, <1>7 DEF All
  <2>3. DOMAIN <<>> = {}
    OBVIOUS
  <2> QED
    BY <2>2, <2>3 DEF Ordered
<1> QED
  BY <1>1, <1>2, <1>6, <1>7 DEF StreamFits

\* The others keep what they have.
LEMMA NotForgotten ==
    ASSUME TypeOK, NEW ended, NEW c \in Client, Forget(ended), c \notin ended
    PROVE  /\ got'[c] = got[c] /\ rest'[c] = rest[c] /\ queue'[c] = queue[c] /\ pc'[c] = pc[c]
           /\ turn'[c] = turn[c] /\ replayed'[c] = replayed[c] /\ since'[c] = since[c]
           /\ dropped'[c] = dropped[c]
BY DEF Forget

\* A stream that is offered nothing fits as before: the events it has are
\* older than the next ones.
LEMMA NothingOffered ==
    ASSUME TypeOK, BuffersFollow, NEW fault \in BOOLEAN, PublishRound(fault), NEW c \in Client, NEW s \in Seq(SseEvent),
           Ordered(s, _seq)
    PROVE  Ordered(s, _seq')
<1>1. \A t \in ALL_TOPICS : _seq[t] \in Nat /\ _seq'[t] \in Nat /\ _seq[t] <= _seq'[t]
  BY SMTT(20) DEF PublishRound, TypeOK
<1>2. \A i \in DOMAIN s : s[i].topic \in ALL_TOPICS /\ s[i].seq \in Nat
  <2>1. \A i \in DOMAIN s : s[i] \in SseEvent
    BY LenProperties, ElementOfSeq
  <2> QED
    BY <2>1 DEF SseEvent
<1>3. \A i \in DOMAIN s : s[i].seq < _seq'[s[i].topic]
  BY <1>1, <1>2 DEF Ordered
<1> QED
  BY <1>3 DEF Ordered

\* Publishing adds the new events to the queue of each client that has
\* subscribed to their topics, or notes that its queue has lost them.
LEMMA PublishFits ==
    ASSUME TypeOK, BuffersFollow, SubscribedAsAsked, StreamsFit,
           NEW fault \in BOOLEAN, PublishRound(fault), NEW c \in Client
    PROVE  StreamFits(c)'
<1> DEFINE topics == IF fault THEN ALL_TOPICS ELSE {"transactions"}
           q == queue[c]
           o == offers(c, topics)
<1>1. "transactions" \in topics /\ topics \subseteq ALL_TOPICS
  BY DEF ALL_TOPICS
<1>2. /\ UNCHANGED <<_subscribers, pc, request, turn, rest, got, replayed, since>>
      /\ queue'[c] = First(QueueSize, q \o o)
      /\ dropped'[c] = dropped[c] \cup {(q \o o)[i] : i \in QueueSize + 1 .. Len(q \o o)}
      /\ \A t \in ALL_TOPICS : _seq'[t] = IF t \in topics THEN _seq[t] + 1 ELSE _seq[t]
  BY DEF PublishRound
<1> HIDE DEF topics
<1>3. /\ o \in Seq(SseEvent) /\ Len(o) \in Nat
      /\ \A i \in 1 .. Len(o) :
            /\ o[i].topic \in topics \cap ALL_TOPICS
            /\ o[i].seq = _seq[o[i].topic]
            /\ Has(_subscribers[o[i].topic], c)
      /\ (\A t \in ALL_TOPICS : ~Has(_subscribers[t], c)) => o = <<>>
      /\ (\A t \in ALL_TOPICS : Once(_subscribers[t], c)) =>
            /\ \A i, j \in 1 .. Len(o) : o[i].topic = o[j].topic => i = j
            /\ \A t \in topics \cap ALL_TOPICS : Has(_subscribers[t], c) => Has(o, Event(t, _seq[t]))
  BY <1>1, OffersAre
<1> HIDE DEF o
<1>4. /\ StreamFits(c) /\ Generator(c) /\ Len(q) <= QueueSize
      /\ q \in Seq(SseEvent) /\ QueueSize \in Nat
  BY AllType, StreamConstants DEF StreamsFit, StreamFits, Generator
<1> HIDE DEF q
<1>0. o \in Seq(SseEvent) /\ q \in Seq(SseEvent) /\ QueueSize \in Nat /\ Len(q) <= QueueSize
  BY <1>3, <1>4
<1>m. PICK m \in 0 .. Len(o) : SubSeq(o, 1, m) \in Seq(SseEvent) /\ Taken(q, o, QueueSize, m)
  BY <1>0, Truncated
<1> DEFINE w == SubSeq(o, 1, m)
<1>5. /\ m \in 0 .. Len(o)
      /\ w \in Seq(SseEvent) /\ Len(w) = m
      /\ \A k \in 1 .. m : w[k] = o[k]
      /\ queue'[c] = q \o w /\ Len(queue'[c]) <= QueueSize
      /\ \A k \in m + 1 .. Len(o) :
            Len(q) + k \in QueueSize + 1 .. Len(q \o o) /\ (q \o o)[Len(q) + k] = o[k]
  <2>1. Len(First(QueueSize, q \o o)) <= QueueSize
    BY <1>0, Truncated
  <2> QED
    BY <2>1, <1>2, <1>m DEF Taken
<1> HIDE DEF w
<1>6. /\ All(c) \in Seq(SseEvent) /\ All(c)' = All(c) \o w
  <2>1. /\ got[c] \o rest[c] \in Seq(SseEvent) /\ All(c) \in Seq(SseEvent) /\ All(c) = (got[c] \o rest[c]) \o q
    BY AllType DEF All, q
  <2>2. ((got[c] \o rest[c]) \o q) \o w = (got[c] \o rest[c]) \o (q \o w)
    <3>1. q \in Seq(SseEvent) /\ w \in Seq(SseEvent)
      BY <1>4, <1>5
    <3> DEFINE a == got[c] \o rest[c]
    <3>2. a \in Seq(SseEvent)
      BY <2>1
    <3> HIDE DEF a
    <3>3. (a \o q) \o w = a \o (q \o w)
      BY <3>1, <3>2, ConcatAssociative
    <3> QED
      BY <3>3 DEF a
  <2>3. All(c)' = (got[c] \o rest[c]) \o (q \o w)
    BY <1>2, <1>5 DEF All
  <2> QED
    BY <2>1, <2>2, <2>3
<1>7. DOMAIN w = 1 .. m /\ m \in Nat /\ m <= Len(o)
  BY <1>3, <1>5, LenProperties
<1>8. (Distinct(c)' <=> Distinct(c)) /\ Topics(c)' = Topics(c) /\ Begun(c)' = Begun(c)
  BY <1>2, SameRequest DEF Begun
<1>9. ASSUME \A t \in ALL_TOPICS : ~Has(_subscribers[t], c)
      PROVE  w = <<>> /\ queue'[c] = q /\ All(c)' = All(c)
  <2>1. Len(o) = 0
    BY <1>3, <1>9, EmptySeq
  <2>2. w = <<>>
    BY <2>1, <1>5, <1>7, EmptySeq
  <2> QED
    BY <2>2, <1>4, <1>5, <1>6, ConcatEmptySeq
<1>10. /\ pc[c] \in {"off", "replay"} => \A t \in ALL_TOPICS : ~Has(_subscribers[t], c)
       /\ Distinct(c) => \A t \in ALL_TOPICS :
            /\ Once(_subscribers[t], c)
            /\ Has(_subscribers[t], c) <=> pc[c] = "live" /\ t \in Topics(c)
  BY DEF SubscribedAsAsked, Subscribed
<1>11. Generator(c)'
  <2>1. ASSUME pc[c] \in {"off", "replay"} \/ (pc[c] = "closed" /\ Distinct(c)) PROVE queue'[c] = queue[c]
    BY <2>1, <1>9, <1>10 DEF q
  <2> QED
    BY <2>1, <1>2, <1>4, <1>5, <1>8 DEF Generator
<1>12. ASSUME Distinct(c) PROVE Ordered(All(c), _seq)'
  <2>1. Ordered(All(c), _seq)
    BY <1>4, <1>12 DEF StreamFits
  <2>2. Ordered(All(c), _seq')
    BY <2>1, <1>6, NothingOffered
  <2>3. ASSUME NEW i \in 1 .. m
        PROVE  w[i] = o[i] /\ i \in 1 .. Len(o) /\ w[i].topic \in topics /\ w[i].topic \in ALL_TOPICS
               /\ w[i].seq = _seq[w[i].topic]
    BY <1>3, <1>5, <1>7
  <2>4. ASSUME NEW i \in 1 .. m PROVE w[i].seq < _seq'[w[i].topic]
    <3>1. _seq'[w[i].topic] = _seq[w[i].topic] + 1 /\ _seq[w[i].topic] \in Nat
      <4>1. \A t \in ALL_TOPICS : _seq[t] \in Nat
        BY DEF TypeOK
      <4>2. \A t \in ALL_TOPICS : t \in topics => _seq'[t] = _seq[t] + 1
        BY <1>2
      <4> QED
        BY ONLY <2>3, <4>1, <4>2
    <3> QED
      BY <3>1, <2>3
  <2>5. ASSUME NEW i \in 1 .. m, NEW j \in 1 .. m, w[i].topic = w[j].topic PROVE i = j
    BY <2>3, <2>5, <1>3, <1>10, <1>12
  <2>6. Ordered(w, _seq')
    <3>1. \A i, j \in 1 .. m : i < j => i # j
      BY <1>7
    <3> QED
      BY <3>1, <2>4, <2>5, <1>7 DEF Ordered
  <2>7. \A i \in DOMAIN All(c), j \in DOMAIN w : All(c)[i].topic = w[j].topic => All(c)[i].seq < w[j].seq
    BY <2>1, <2>3, <1>7 DEF Ordered
  <2>8. Ordered(All(c) \o w, _seq')
    BY <2>2, <2>6, <2>7, <1>5, <1>6, OrderedConcat
  <2> QED
    BY <2>8, <1>6
<1>13. ASSUME Distinct(c), pc[c] = "replay" PROVE ReplayComplete(c)'
  <2>1. ReplayComplete(c)
    BY <1>4, <1>13 DEF StreamFits
  <2>2. All(c)' = All(c) /\ replayed' = replayed
    BY <1>2, <1>9, <1>10, <1>13
  <2> QED
    BY <2>1, <2>2, <1>8 DEF ReplayComplete
<1>14. ASSUME Distinct(c), pc[c] = "live" PROVE LiveComplete(c)'
  <2>1. LiveComplete(c)
    BY <1>4, <1>14 DEF StreamFits
  <2>2. ASSUME NEW t \in Topics(c), NEW x \in Nat, replayed[c][t].from <= x, x < _seq'[t]
        PROVE  \/ Has(All(c) \o w, Event(t, x))
               \/ replayed[c][t].to <= x /\ x < since[c][t]
               \/ Event(t, x) \in dropped'[c]
    <3>1. t \in ALL_TOPICS /\ _seq[t] \in Nat
      BY RequestType DEF TypeOK
    <3>2. CASE x < _seq[t]
      <4>1. \/ Has(All(c), Event(t, x))
            \/ replayed[c][t].to <= x /\ x < since[c][t]
            \/ Event(t, x) \in dropped[c]
        BY <3>2, <2>1, <2>2 DEF LiveComplete
      <4>2. Has(All(c), Event(t, x)) => Has(All(c) \o w, Event(t, x))
        BY <1>5, <1>6, HasConcat
      <4> QED
        BY <4>1, <4>2, <1>2
    <3>3. CASE ~(x < _seq[t])
      <4>1. x = _seq[t] /\ t \in topics
        BY <3>1, <3>3, <2>2, <1>2
      <4>2. Has(o, Event(t, x))
        BY <4>1, <3>1, <1>3, <1>10, <1>14
      <4>3. PICK k \in 1 .. Len(o) : o[k] = Event(t, x)
        BY <4>2, <1>3, LenProperties DEF Has
      <4>4. CASE k \in 1 .. m
        <5>1. Has(w, Event(t, x))
          BY <4>3, <4>4, <1>5, <1>7 DEF Has
        <5> QED
          BY <5>1, <1>5, <1>6, HasConcat
      <4>5. CASE k \in m + 1 .. Len(o)
        <5>1. Len(q) + k \in QueueSize + 1 .. Len(q \o o) /\ (q \o o)[Len(q) + k] = Event(t, x)
          BY <4>3, <4>5, <1>5
        <5> QED
          BY <5>1, <1>2
      <4>6. k \in 1 .. m \/ k \in m + 1 .. Len(o)
        BY <1>3, <1>7
      <4> QED
        BY <4>4, <4>5, <4>6
    <3> QED
      BY <3>2, <3>3
  <2> QED
    BY <2>2, <1>2, <1>6, <1>8 DEF LiveComplete
<1> QED
  BY <1>2, <1>8, <1>11, <1>12, <1>13, <1>14 DEF StreamFits

\* A step keeps all streams fitting together.
LEMMA StepStreams ==
    ASSUME TypeOK, BuffersFollow, SubscribedAsAsked, SubscribedAsAsked', StreamsFit, [Next]_vars
    PROVE  StreamsFit'
<1> USE DEF bus, polls
<1>a. \A d \in Client : StreamFits(d)
  BY DEF StreamsFit
<1>1. ASSUME NEW fault \in BOOLEAN, PublishRound(fault) PROVE StreamsFit'
  BY <1>1, PublishFits DEF StreamsFit
<1>2. ASSUME NEW c \in Client, NEW r \in Requests, Connect(c, r) PROVE StreamsFit'
  <2>1. \A d \in Client : d # c => request'[d] = request[d] /\ pc'[d] = pc[d]
    BY <1>2 DEF Connect, TypeOK
  <2>2. UNCHANGED <<_seq, queue, turn, rest, got, replayed, since, dropped>>
    BY <1>2 DEF Connect
  <2>3. \A d \in Client : d # c => StreamFits(d)'
    BY <2>1, <2>2, <1>a, UntouchedStream
  <2> QED
    BY <2>3, <1>2, <1>a, ConnectFits DEF StreamsFit
<1>3. ASSUME NEW c \in Client, ReplayNext(c) \/ Receive(c) PROVE StreamsFit'
  <2>1. \A d \in Client : d # c => got'[d] = got[d] /\ rest'[d] = rest[d] /\ queue'[d] = queue[d]
    BY <1>3 DEF ReplayNext, Receive, TypeOK
  <2>2. UNCHANGED <<_seq, pc, request, turn, replayed, since, dropped>>
    BY <1>3 DEF ReplayNext, Receive
  <2>3. \A d \in Client : d # c => StreamFits(d)'
    BY <2>1, <2>2, <1>a, UntouchedStream
  <2> QED
    BY <2>3, <1>3, <1>a, SendFits DEF StreamsFit
<1>4. ASSUME NEW c \in Client, ReplayTopic(c) PROVE StreamsFit'
  <2>1. \A d \in Client : d # c =>
            got'[d] = got[d] /\ rest'[d] = rest[d] /\ turn'[d] = turn[d] /\ replayed'[d] = replayed[d]
    <3>1. PICK i, events :
            /\ got' = [got EXCEPT ![c] = Append(@, Head(events))]
            /\ rest' = [rest EXCEPT ![c] = Tail(events)]
            /\ turn' = [turn EXCEPT ![c] = i + 1]
            /\ replayed' = [replayed EXCEPT ![c] = ReplayedUpTo(c, i)]
      BY <1>4 DEF ReplayTopic
    <3> QED
      BY <3>1 DEF TypeOK
  <2>2. UNCHANGED <<_seq, queue, pc, request, since, dropped>>
    BY <1>4 DEF ReplayTopic
  <2>3. \A d \in Client : d # c => StreamFits(d)'
    BY <2>1, <2>2, <1>a, UntouchedStream
  <2> QED
    BY <2>3, <1>4, ReplayTopicFits DEF StreamsFit
<1>5. ASSUME NEW c \in Client, Subscribe(c) PROVE StreamsFit'
  <2>1. \A d \in Client : d # c =>
            pc'[d] = pc[d] /\ turn'[d] = turn[d] /\ replayed'[d] = replayed[d] /\ since'[d] = since[d]
    BY <1>5 DEF Subscribe, TypeOK
  <2>2. UNCHANGED <<_seq, queue, request, rest, got, dropped>>
    BY <1>5 DEF Subscribe
  <2>3. \A d \in Client : d # c => StreamFits(d)'
    BY <2>1, <2>2, <1>a, UntouchedStream
  <2> QED
    BY <2>3, <1>5, SubscribeFits DEF StreamsFit
<1>6. ASSUME NEW c \in Client, Close(c) PROVE StreamsFit'
  <2>1. Forget({c}) /\ request' = request /\ _seq' = _seq
    BY <1>6 DEF Close
  <2>2. StreamFits(c)'
    BY <2>1, <1>a, ForgottenFits
  <2>3. ASSUME NEW d \in Client, d # c PROVE StreamFits(d)'
    <3>1. d \notin {c}
      BY <2>3
    <3>2. /\ got'[d] = got[d] /\ rest'[d] = rest[d] /\ queue'[d] = queue[d] /\ pc'[d] = pc[d]
          /\ turn'[d] = turn[d] /\ replayed'[d] = replayed[d] /\ since'[d] = since[d]
          /\ dropped'[d] = dropped[d]
      BY <2>1, <3>1, NotForgotten
    <3> QED
      BY <2>1, <3>2, <1>a, UntouchedStream
  <2> QED
    BY <2>2, <2>3 DEF StreamsFit
<1>7. ASSUME Restart PROVE StreamsFit'
  <2> DEFINE ended == {d \in Client : pc[d] # "off"}
  <2>1. Forget(ended) /\ request' = request
    BY <1>7 DEF Restart
  <2>2. ASSUME NEW d \in Client, d \in ended PROVE StreamFits(d)'
    <3> HIDE DEF ended
    <3> QED
      BY <2>1, <2>2, <1>a, ForgottenFits
  <2>3. ASSUME NEW d \in Client, d \notin ended PROVE StreamFits(d)'
    <3>1. pc[d] = "off"
      BY <2>3
    <3> HIDE DEF ended
    <3>2. got'[d] = got[d] /\ rest'[d] = rest[d] /\ queue'[d] = queue[d] /\ pc'[d] = pc[d] /\ turn'[d] = turn[d]
      BY <2>1, <2>3, NotForgotten
    <3>3. Generator(d) /\ got[d] = <<>> /\ rest[d] = <<>> /\ queue[d] = <<>>
      BY <3>1, <1>a DEF StreamFits, Generator
    <3>4. Generator(d)'
      BY <2>1, <3>1, <3>2, <3>3 DEF Generator
    <3>5. All(d)' = <<>>
      <4>1. <<>> \o <<>> = <<>>
        BY EmptySeq, ConcatEmptySeq
      <4> QED
        BY <3>2, <3>3, <4>1 DEF All
    <3>6. DOMAIN <<>> = {}
      OBVIOUS
    <3>7. Ordered(All(d), _seq)'
      BY <3>5, <3>6 DEF Ordered
    <3> QED
      BY <3>1, <3>2, <3>4, <3>7 DEF StreamFits
  <2> QED
    BY <2>2, <2>3 DEF StreamsFit
<1>8. ASSUME UNCHANGED <<_seq, streams>> PROVE StreamsFit'
  <2>1. UNCHANGED <<_seq, queue, pc, request, turn, rest, got, replayed, since, dropped>>
    BY <1>8 DEF streams
  <2> QED
    BY <2>1, <1>a, UntouchedStream DEF StreamsFit
<1>9. ASSUME NEW p \in Poller, NEW limit \in 1 .. MaxLen, poll_topic(p, limit) PROVE StreamsFit'
  <2>1. UNCHANGED <<_seq, streams>>
    BY <1>9 DEF poll_topic
  <2> QED
    BY <2>1, <1>8
<1>10. CASE UNCHANGED vars
  <2>1. UNCHANGED <<_seq, streams>>
    BY <1>10 DEF vars
  <2> QED
    BY <2>1, <1>8
<1> HIDE DEF bus, polls
<1> QED
  BY <1>1, <1>2, <1>3, <1>4, <1>5, <1>6, <1>7, <1>9, <1>10 DEF Next

-----------------------------------------------------------------------------
(* The theorems.                                                           *)

\* The service starts with nothing published and nobody connected.
LEMMA InitInv ==
    Init => StreamInv
<1> SUFFICES ASSUME Init PROVE StreamInv
  OBVIOUS
<1>1. (\A S : <<>> \in Seq(S)) /\ Len(<<>>) = 0 /\ DOMAIN <<>> = {} /\ <<>> \o <<>> = <<>>
  BY EmptySeq, ConcatEmptySeq
<1>2. TypeOK
  <2>1. NotReplayed \in [ALL_TOPICS -> [from : Nat, to : Nat]] /\ NoNumbers \in [ALL_TOPICS -> Nat]
    BY DEF NotReplayed, NoNumbers
  <2>2. BusTypes
    BY <1>1, <2>1 DEF Init, BusTypes
  <2>3. StreamTypes
    BY <1>1, <2>1 DEF Init, StreamTypes
  <2>4. PollTypes
    BY DEF Init, PollTypes
  <2>5. rounds \in Nat /\ restarts \in Nat
    BY DEF Init
  <2> QED
    BY <2>2, <2>3, <2>4, <2>5, TypeParts
<1>3. BuffersFollow
  <2>1. \A t \in ALL_TOPICS : _seq[t] = 0 /\ _buffers[t] = <<>>
    BY DEF Init, NoNumbers
  <2>2. Smaller(0, MaxLen) = 0
    BY StreamConstants DEF Smaller
  <2> QED
    BY <1>1, <2>1, <2>2 DEF BuffersFollow
<1>4. PollersFollow
  <2>1. \A p \in Poller : offset[p] = 0 /\ carried[p] = 0
    BY DEF Init
  <2>2. _seq["transactions"] = 0
    BY DEF Init, NoNumbers, ALL_TOPICS
  <2>3. 0 <= Larger(0, 0) /\ \A x \in Nat : ~(x < 0)
    BY DEF Larger
  <2> QED
    BY <2>1, <2>2, <2>3 DEF PollersFollow
<1>5. SubscribedAsAsked
  BY <1>1 DEF Init, SubscribedAsAsked, Subscribed, Has, Once
<1>6. ASSUME NEW c \in Client PROVE StreamFits(c)
  <2>1. /\ pc[c] = "off" /\ request[c] = NoRequest /\ turn[c] = 1
        /\ got[c] = <<>> /\ rest[c] = <<>> /\ queue[c] = <<>>
    BY DEF Init
  <2>2. Len(request[c].topics) = 0 /\ 1 \in 1 .. 0 + 1 /\ 0 <= QueueSize
    BY <2>1, StreamConstants DEF NoRequest
  <2>3. Generator(c)
    BY <2>1, <2>2, <1>1 DEF Generator
  <2>4. Ordered(All(c), _seq)
    BY <2>1, <1>1 DEF All, Ordered
  <2> QED
    BY <2>1, <2>3, <2>4 DEF StreamFits
<1> QED
  BY <1>2, <1>3, <1>4, <1>5, <1>6 DEF StreamInv, StreamsFit

\* The invariant holds of every state of the bus, its streams and pollers.
THEOREM SpecInv ==
    Spec => []StreamInv
<1>1. Init => StreamInv
  BY InitInv
<1>2. StreamInv /\ [Next]_vars => StreamInv'
  <2> SUFFICES ASSUME StreamInv, [Next]_vars PROVE StreamInv'
    OBVIOUS
  <2>1. TypeOK /\ BuffersFollow /\ PollersFollow /\ SubscribedAsAsked /\ StreamsFit
    BY DEF StreamInv
  <2>2. TypeOK'
    BY <2>1, StepTypes
  <2>3. BuffersFollow'
    BY <2>1, StepBuffers
  <2>4. PollersFollow'
    BY <2>1, StepPollers
  <2>5. SubscribedAsAsked'
    BY <2>1, StepSubscribed
  <2>6. StreamsFit'
    BY <2>1, <2>5, StepStreams
  <2> QED
    BY <2>2, <2>3, <2>4, <2>5, <2>6 DEF StreamInv
<1> QED
  BY <1>1, <1>2, PTL DEF Spec

\* The state of the bus, of its streams and of its pollers keeps its types.
THEOREM SpecTypeOK ==
    Spec => []TypeOK
<1>1. StreamInv => TypeOK
  BY DEF StreamInv
<1> QED
  BY <1>1, SpecInv, PTL

\* The bus feeds no queue of a stream that has ended, if its topics are
\* distinct: unsubscribe_live has removed the queue from all its topics.
THEOREM SpecQueuesAreOwned ==
    Spec => []QueuesAreOwned
<1>1. StreamInv => QueuesAreOwned
  <2> SUFFICES ASSUME StreamInv, NEW t \in ALL_TOPICS, NEW i \in DOMAIN _subscribers[t],
                      Distinct(_subscribers[t][i])
               PROVE  pc[_subscribers[t][i]] = "live"
    BY DEF QueuesAreOwned
  <2> DEFINE c == _subscribers[t][i]
  <2>1. c \in Client
    BY LenProperties, ElementOfSeq DEF StreamInv, TypeOK
  <2>2. Has(_subscribers[t], c)
    BY DEF Has
  <2> QED
    BY <2>1, <2>2 DEF StreamInv, SubscribedAsAsked, Subscribed
<1> QED
  BY <1>1, SpecInv, PTL

\* Over what a client has got and what waits for it, replayed by the
\* sse_generator or queued by the bus, each topic's events are in order.
THEOREM SpecInOrder ==
    Spec => []InOrder
<1>1. StreamInv => InOrder
  BY DEF StreamInv, StreamsFit, StreamFits, InOrder, Ordered, All
<1> QED
  BY <1>1, SpecInv, PTL

\* A live client misses of its topics only what was published between the
\* replay and subscribe_live, and what came when its own queue was full.
THEOREM SpecMissedOnlyInTheGap ==
    Spec => []MissedOnlyInTheGap
<1>1. StreamInv => MissedOnlyInTheGap
  <2> SUFFICES ASSUME StreamInv, NEW c \in Client, NEW t \in ALL_TOPICS, pc[c] = "live", Distinct(c),
                      NEW h \in DOMAIN request[c].topics, request[c].topics[h] = t,
                      NEW x \in replayed[c][t].from .. _seq[t] - 1
               PROVE  \/ Has(got[c], Event(t, x))
                      \/ Has(queue[c], Event(t, x))
                      \/ x \in replayed[c][t].to .. since[c][t] - 1
                      \/ Event(t, x) \in dropped[c]
    BY DEF MissedOnlyInTheGap, Has
  <2>1. TypeOK /\ StreamFits(c)
    BY DEF StreamInv, StreamsFit
  <2>2. /\ replayed[c][t].from \in Nat /\ replayed[c][t].to \in Nat
        /\ since[c][t] \in Nat /\ _seq[t] \in Nat
    BY <2>1 DEF TypeOK
  <2>3. x \in Nat /\ replayed[c][t].from <= x /\ x < _seq[t]
    BY <2>2
  <2>4. t \in Topics(c)
    BY DEF Topics
  <2>5. LiveComplete(c) /\ rest[c] = <<>>
    BY <2>1 DEF StreamFits, Generator
  <2>6. \/ Has(All(c), Event(t, x))
        \/ replayed[c][t].to <= x /\ x < since[c][t]
        \/ Event(t, x) \in dropped[c]
    BY <2>3, <2>4, <2>5 DEF LiveComplete
  <2>7. Has(All(c), Event(t, x)) => Has(got[c], Event(t, x)) \/ Has(queue[c], Event(t, x))
    <3>1. got[c] \in Seq(SseEvent) /\ queue[c] \in Seq(SseEvent) /\ got[c] \o rest[c] = got[c]
      BY <2>1, <2>5, AllType
    <3>2. All(c) = got[c] \o queue[c]
      BY <3>1 DEF All
    <3> QED
      BY <3>1, <3>2, HasConcat
  <2> QED
    BY <2>2, <2>3, <2>6, <2>7
<1> QED
  BY <1>1, SpecInv, PTL

\* A poller that goes on with next_offset has got all that is still buffered
\* behind its offset, if not from before the restart.
THEOREM SpecPollDeliversBuffered ==
    Spec => []PollDeliversBuffered
<1>1. StreamInv => PollDeliversBuffered
  <2> DEFINE t == "transactions"
             n == Len(_buffers[t])
  <2> SUFFICES ASSUME StreamInv, NEW p \in Poller, NEW i \in DOMAIN _buffers[t],
                      _buffers[t][i] < offset[p], _buffers[t][i] >= carried[p]
               PROVE  _buffers[t][i] \in polled[p]
    BY DEF PollDeliversBuffered
  <2>1. t \in ALL_TOPICS /\ TypeOK /\ BuffersFollow /\ PollersFollow
    BY DEF StreamInv, ALL_TOPICS
  <2>2. _buffers[t] \in Seq(Nat) /\ _seq[t] \in Nat /\ carried[p] \in Nat
    BY <2>1 DEF TypeOK
  <2>3. n \in Nat /\ i \in 1 .. n /\ _buffers[t][i] \in Nat
    BY <2>2, LenProperties, ElementOfSeq
  <2>4. _buffers[t][i] = _seq[t] - n + i - 1
    BY <2>1 DEF BuffersFollow
  <2> HIDE DEF n
  <2>5. _seq[t] - n <= _buffers[t][i] /\ _buffers[t][i] < _seq[t] /\ carried[p] <= _buffers[t][i]
    BY <2>2, <2>3, <2>4
  <2> QED
    BY <2>1, <2>3, <2>5 DEF PollersFollow, n
<1> QED
  BY <1>1, SpecInv, PTL

-----------------------------------------------------------------------------
(* The posts to webhooks, which Webhooks models.                           *)

\* The webhooks the task of r has posted to and has yet to come to.
Places(r) == posted[r] \o remaining[r]

Unrepeated(s) == \A i, j \in DOMAIN s : s[i] = s[j] => i = j

\* What s and t share stands in t in the order of s.
SameOrder(s, t) ==
    \A i, j \in DOMAIN s, k, l \in DOMAIN t :
        s[i] = t[k] /\ s[j] = t[l] /\ i < j => k < l

PostsWanted(r) == \A i \in DOMAIN posted[r] : Wanted(posted[r][i], r)

\* Where the task of r is: what it has posted to and what is left follow the
\* order of the subscriptions there are, and none of it came after the task
\* began or was removed before.
HookFits(r) ==
    /\ task[r] \in {"none", "created"} => posted[r] = <<>> /\ remaining[r] = <<>>
    /\ Unrepeated(Places(r))
    /\ SameOrder(Places(r), _subscriptions)
    /\ \A i \in DOMAIN Places(r) :
        hook_events[Places(r)[i]] # None /\ Places(r)[i] \notin withdrawn[r]
    /\ PostsWanted(r)

HooksInv ==
    /\ WebhooksTypeOK
    /\ Unrepeated(_subscriptions)
    /\ \A i \in DOMAIN _subscriptions : hook_events[_subscriptions[i]] # None
    /\ \A r \in Round : HookFits(r)

\* What is left of a list when elements are removed: t takes its elements
\* from s, in the order of s.
Thins(s, t) ==
    \E f \in [DOMAIN t -> DOMAIN s] :
        /\ \A i \in DOMAIN t : t[i] = s[f[i]]
        /\ \A i, j \in DOMAIN t : i < j => f[i] < f[j]

\* What holds of a list of subscriptions holds of what is left of it.
LEMMA ThinnedList ==
    ASSUME NEW S, NEW s \in Seq(S), NEW t \in Seq(S), Thins(s, t)
    PROVE  /\ Unrepeated(s) => Unrepeated(t)
           /\ \A i \in DOMAIN t : \E j \in DOMAIN s : t[i] = s[j]
           /\ \A u : SameOrder(s, u) => SameOrder(t, u)
           /\ \A u \in Seq(S) : SameOrder(u, s) => SameOrder(u, t)
<1>0. DOMAIN s = 1 .. Len(s) /\ DOMAIN t = 1 .. Len(t) /\ Len(s) \in Nat /\ Len(t) \in Nat
  BY LenProperties
<1>1. PICK f \in [DOMAIN t -> DOMAIN s] :
        /\ \A i \in DOMAIN t : t[i] = s[f[i]]
        /\ \A i, j \in DOMAIN t : i < j => f[i] < f[j]
  BY DEF Thins
<1>2. \A i \in DOMAIN t : f[i] \in DOMAIN s /\ f[i] \in Nat /\ i \in Nat
  BY <1>0, <1>1
<1>3. \A i, j \in DOMAIN t : f[i] < f[j] => i < j
  <2> SUFFICES ASSUME NEW i \in DOMAIN t, NEW j \in DOMAIN t, f[i] < f[j] PROVE i < j
    OBVIOUS
  <2>1. f[i] \in Nat /\ f[j] \in Nat /\ i \in Nat /\ j \in Nat
    BY <1>2
  <2>2. CASE i = j
    BY <2>1, <2>2
  <2>3. CASE j < i
    <3>1. f[j] < f[i]
      BY <1>1, <2>3
    <3> QED
      BY <2>1, <3>1
  <2> QED
    BY <2>1, <2>2, <2>3
<1>4. ASSUME Unrepeated(s) PROVE Unrepeated(t)
  <2> SUFFICES ASSUME NEW i \in DOMAIN t, NEW j \in DOMAIN t, t[i] = t[j] PROVE i = j
    BY DEF Unrepeated
  <2>1. f[i] = f[j]
    BY <1>1, <1>2, <1>4 DEF Unrepeated
  <2>2. ~ (i < j) /\ ~ (j < i)
    BY <1>1, <1>2, <2>1
  <2> QED
    BY <1>2, <2>2
<1>5. \A i \in DOMAIN t : \E j \in DOMAIN s : t[i] = s[j]
  BY <1>1, <1>2
<1>6. ASSUME NEW u, SameOrder(s, u) PROVE SameOrder(t, u)
  BY <1>1, <1>2, <1>6 DEF SameOrder
<1>7. ASSUME NEW u \in Seq(S), SameOrder(u, s) PROVE SameOrder(u, t)
  <2> SUFFICES ASSUME NEW i \in DOMAIN u, NEW j \in DOMAIN u, NEW k \in DOMAIN t, NEW l \in DOMAIN t,
                      u[i] = t[k], u[j] = t[l], i < j
               PROVE  k < l
    BY DEF SameOrder
  <2>1. f[k] \in DOMAIN s /\ f[l] \in DOMAIN s /\ u[i] = s[f[k]] /\ u[j] = s[f[l]]
    BY <1>1, <1>2
  <2>2. f[k] < f[l]
    BY <2>1, <1>7 DEF SameOrder
  <2> QED
    BY <2>2, <1>3
<1> QED
  BY <1>4, <1>5, <1>6, <1>7

\* A subscription removed from the dict leaves the others in their order.
LEMMA RemovedThins ==
    ASSUME NEW S, NEW s \in Seq(S), NEW p \in DOMAIN s
    PROVE  LET t == SubSeq(s, 1, p - 1) \o SubSeq(s, p + 1, Len(s))
           IN  /\ t \in Seq(S)
               /\ Thins(s, t)
<1> DEFINE a == SubSeq(s, 1, p - 1)
           b == SubSeq(s, p + 1, Len(s))
           t == a \o b
<1>0. DOMAIN s = 1 .. Len(s) /\ Len(s) \in Nat /\ p \in 1 .. Len(s)
  BY LenProperties
<1>1. a \in Seq(S) /\ Len(a) = p - 1 /\ \A i \in 1 .. p - 1 : a[i] = s[i]
  <2>1. \A i \in 1 .. p - 1 : s[i] \in S
    BY <1>0, ElementOfSeq
  <2>2. a \in Seq(S) /\ Len(a) = IF 1 <= p - 1 THEN p - 1 - 1 + 1 ELSE 0
    BY <1>0, <2>1, SubSeqProperties
  <2>3. \A i \in 1 .. p - 1 : a[i] = s[1 + i - 1]
    BY <1>0, <2>1, SubSeqProperties
  <2> QED
    BY <1>0, <2>2, <2>3
<1>2. b \in Seq(S) /\ Len(b) = Len(s) - p /\ \A i \in 1 .. Len(s) - p : b[i] = s[p + i]
  <2>1. \A i \in p + 1 .. Len(s) : s[i] \in S
    BY <1>0, ElementOfSeq
  <2>2. b \in Seq(S) /\ Len(b) = IF p + 1 <= Len(s) THEN Len(s) - (p + 1) + 1 ELSE 0
    BY <1>0, <2>1, SubSeqProperties
  <2>3. \A i \in 1 .. Len(s) - p : b[i] = s[(p + 1) + i - 1]
    BY <1>0, <2>1, SubSeqProperties
  <2> QED
    BY <1>0, <2>2, <2>3
<1>3. t \in Seq(S) /\ Len(t) = Len(s) - 1 /\ DOMAIN t = 1 .. Len(s) - 1
      /\ \A i \in 1 .. Len(s) - 1 : t[i] = IF i < p THEN s[i] ELSE s[i + 1]
  <2> HIDE DEF a, b
  <2>1. t \in Seq(S) /\ Len(t) = Len(a) + Len(b)
        /\ \A i \in 1 .. Len(a) + Len(b) : t[i] = IF i <= Len(a) THEN a[i] ELSE b[i - Len(a)]
    BY <1>1, <1>2, ConcatProperties
  <2>2. ASSUME NEW i \in 1 .. Len(s) - 1 PROVE t[i] = IF i < p THEN s[i] ELSE s[i + 1]
    <3>1. t[i] = IF i <= p - 1 THEN a[i] ELSE b[i - (p - 1)]
      BY SMTT(20), <1>0, <1>1, <1>2, <2>1
    <3>2. CASE i < p
      BY <1>0, <1>1, <3>1, <3>2
    <3>3. CASE ~ (i < p)
      <4>1. i - (p - 1) \in 1 .. Len(s) - p /\ p + (i - (p - 1)) = i + 1 /\ ~ (i <= p - 1)
        BY <1>0, <3>3
      <4>2. b[i - (p - 1)] = s[p + (i - (p - 1))]
        BY <1>2, <4>1
      <4>3. t[i] = s[i + 1]
        BY ONLY <3>1, <4>1, <4>2
      <4> QED
        BY ONLY <3>3, <4>3
    <3> QED
      BY <3>2, <3>3
  <2>3. Len(t) = Len(s) - 1
    BY <1>0, <1>1, <1>2, <2>1
  <2> QED
    BY <2>1, <2>2, <2>3, LenProperties
<1> HIDE DEF t
<1> DEFINE f == [i \in DOMAIN t |-> IF i < p THEN i ELSE i + 1]
<1>4. f \in [DOMAIN t -> DOMAIN s]
  BY <1>0, <1>3
<1>5. \A i \in DOMAIN t : t[i] = s[f[i]]
  BY <1>0, <1>3
<1>6. \A i, j \in DOMAIN t : i < j => f[i] < f[j]
  BY <1>0, <1>3
<1>7. Thins(s, t)
  <2> HIDE DEF f
  <2> QED
    BY <1>4, <1>5, <1>6 DEF Thins
<1> QED
  BY <1>3, <1>7 DEF t

\* A task that goes on to the p-th of what is left leaves out those it skips.
LEMMA SkippedThins ==
    ASSUME NEW S, NEW s \in Seq(S), NEW t \in Seq(S), NEW p \in DOMAIN t
    PROVE  LET u == Append(s, t[p])
               v == SubSeq(t, p + 1, Len(t))
           IN  /\ u \in Seq(S) /\ v \in Seq(S)
               /\ Thins(s \o t, u \o v)
<1> DEFINE u == Append(s, t[p])
           v == SubSeq(t, p + 1, Len(t))
           w == u \o v
           n == Len(s)
<1>0. /\ DOMAIN t = 1 .. Len(t) /\ Len(t) \in Nat /\ p \in 1 .. Len(t) /\ n \in Nat
      /\ t[p] \in S
  BY LenProperties, ElementOfSeq
<1>1. u \in Seq(S) /\ Len(u) = n + 1 /\ u[n + 1] = t[p] /\ \A i \in 1 .. n : u[i] = s[i]
  <2>1. u \in Seq(S) /\ Len(u) = n + 1
    BY <1>0, AppendProperties
  <2> QED
    BY <1>0, <2>1, AppendProperties
<1>2. v \in Seq(S) /\ Len(v) = Len(t) - p /\ \A i \in 1 .. Len(t) - p : v[i] = t[p + i]
  <2>1. \A i \in p + 1 .. Len(t) : t[i] \in S
    BY <1>0, ElementOfSeq
  <2>2. v \in Seq(S) /\ Len(v) = IF p + 1 <= Len(t) THEN Len(t) - (p + 1) + 1 ELSE 0
    BY <1>0, <2>1, SubSeqProperties
  <2>3. \A i \in 1 .. Len(t) - p : v[i] = t[(p + 1) + i - 1]
    BY <1>0, <2>1, SubSeqProperties
  <2> QED
    BY SMTT(20), <1>0, <2>2, <2>3
<1>3. /\ s \o t \in Seq(S) /\ DOMAIN (s \o t) = 1 .. n + Len(t)
      /\ \A i \in 1 .. n : (s \o t)[i] = s[i]
      /\ \A i \in 1 .. Len(t) : (s \o t)[n + i] = t[i]
  <2>1. s \o t \in Seq(S) /\ Len(s \o t) = n + Len(t)
        /\ \A i \in 1 .. n + Len(t) : (s \o t)[i] = IF i <= n THEN s[i] ELSE t[i - n]
    BY ConcatProperties
  <2>2. DOMAIN (s \o t) = 1 .. n + Len(t)
    BY <2>1, LenProperties
  <2>3. ASSUME NEW i \in 1 .. n PROVE (s \o t)[i] = s[i]
    BY <1>0, <2>1
  <2>4. ASSUME NEW i \in 1 .. Len(t) PROVE (s \o t)[n + i] = t[i]
    <3>1. n + i \in 1 .. n + Len(t) /\ ~ (n + i <= n) /\ (n + i) - n = i
      BY <1>0
    <3> QED
      BY <2>1, <3>1
  <2> QED
    BY <2>1, <2>2, <2>3, <2>4
<1>4. DOMAIN w = 1 .. n + 1 + (Len(t) - p)
      /\ \A i \in 1 .. n + 1 + (Len(t) - p) : w[i] = IF i <= n THEN s[i] ELSE t[i - n - 1 + p]
  <2> HIDE DEF u, v, n
  <2>1. w \in Seq(S) /\ Len(w) = Len(u) + Len(v)
        /\ \A i \in 1 .. Len(u) + Len(v) : w[i] = IF i <= Len(u) THEN u[i] ELSE v[i - Len(u)]
    BY <1>1, <1>2, ConcatProperties
  <2>2. Len(w) = n + 1 + (Len(t) - p)
    BY <1>0, <1>1, <1>2, <2>1
  <2>3. DOMAIN w = 1 .. n + 1 + (Len(t) - p)
    BY <2>1, <2>2, LenProperties
  <2>4. ASSUME NEW i \in 1 .. n + 1 + (Len(t) - p)
        PROVE  w[i] = IF i <= n THEN s[i] ELSE t[i - n - 1 + p]
    <3>1. w[i] = IF i <= n + 1 THEN u[i] ELSE v[i - (n + 1)]
      BY <1>0, <1>1, <1>2, <2>1
    <3>2. CASE i <= n
      BY <1>0, <1>1, <3>1, <3>2
    <3>3. CASE i = n + 1
      <4>1. i - n - 1 + p = p /\ ~ (i <= n) /\ i <= n + 1
        BY <1>0, <3>3
      <4> QED
        BY <1>1, <3>1, <3>3, <4>1
    <3>4. CASE i > n + 1
      <4>1. i - (n + 1) \in 1 .. Len(t) - p /\ p + (i - (n + 1)) = i - n - 1 + p
            /\ ~ (i <= n) /\ ~ (i <= n + 1)
        BY <1>0, <3>4
      <4> QED
        BY <1>2, <3>1, <4>1
    <3>5. i <= n \/ i = n + 1 \/ i > n + 1
      BY <1>0
    <3> QED
      BY ONLY <3>2, <3>3, <3>4, <3>5
  <2> QED
    BY <2>3, <2>4
<1> HIDE DEF w, n
<1> DEFINE f == [i \in DOMAIN w |-> IF i <= n THEN i ELSE n + (i - n - 1 + p)]
<1>5. f \in [DOMAIN w -> DOMAIN (s \o t)]
  BY SMTT(20), <1>0, <1>3, <1>4
<1>6. ASSUME NEW i \in DOMAIN w PROVE w[i] = (s \o t)[f[i]]
  <2>1. CASE i <= n
    BY <1>0, <1>3, <1>4, <2>1
  <2>2. CASE ~ (i <= n)
    <3>1. i - n - 1 + p \in 1 .. Len(t)
      BY <1>0, <1>4, <2>2
    <3>2. (s \o t)[n + (i - n - 1 + p)] = t[i - n - 1 + p]
      BY <1>3, <3>1
    <3>3. f[i] = n + (i - n - 1 + p)
      BY <2>2
    <3> QED
      BY <1>4, <2>2, <3>2, <3>3
  <2> QED
    BY <2>1, <2>2
<1>7. \A i, j \in DOMAIN w : i < j => f[i] < f[j]
  <2>1. \A i \in DOMAIN w : i \in Int /\ f[i] = IF i <= n THEN i ELSE n + (i - n - 1 + p)
    BY <1>0, <1>4
  <2> QED
    BY ONLY SMTT(20), <1>0, <2>1
<1>8. Thins(s \o t, w)
  <2> HIDE DEF f
  <2> QED
    BY <1>5, <1>6, <1>7 DEF Thins
<1> QED
  BY <1>1, <1>2, <1>8 DEF w

\* A task that ends leaves out all that is left.
LEMMA EndedThins ==
    ASSUME NEW S, NEW s \in Seq(S), NEW t \in Seq(S)
    PROVE  Thins(s \o t, s \o <<>>)
<1> DEFINE f == [i \in DOMAIN s |-> i]
<1>0. s \o <<>> = s
  BY ConcatEmptySeq
<1>1. /\ DOMAIN s = 1 .. Len(s) /\ Len(s) \in Nat /\ Len(t) \in Nat
      /\ Len(s \o t) = Len(s) + Len(t)
      /\ \A i \in 1 .. Len(s) + Len(t) : (s \o t)[i] = IF i <= Len(s) THEN s[i] ELSE t[i - Len(s)]
  BY LenProperties, ConcatProperties
<1>2. DOMAIN (s \o t) = 1 .. Len(s) + Len(t)
  BY <1>1, LenProperties, ConcatProperties
<1>3. f \in [DOMAIN s -> DOMAIN (s \o t)]
  BY <1>1, <1>2
<1>4. \A i \in DOMAIN s : s[i] = (s \o t)[f[i]]
  BY <1>1
<1>5. \A i, j \in DOMAIN s : i < j => f[i] < f[j]
  OBVIOUS
<1> HIDE DEF f
<1> QED
  BY <1>0, <1>3, <1>4, <1>5 DEF Thins

\* Where the task of a round is stays right when what is left of its list
\* only thins out and what it posted to wanted the round.
LEMMA HookThins ==
    ASSUME NEW r \in Round, HookFits(r),
           Places(r) \in Seq(Webhook), Places(r)' \in Seq(Webhook),
           Thins(Places(r), Places(r)'),
           task'[r] \notin {"none", "created"},
           UNCHANGED <<_subscriptions, hook_events, withdrawn>>,
           PostsWanted(r)'
    PROVE  HookFits(r)'
<1> DEFINE s == Places(r)
           t == Places(r)'
<1>1. s \in Seq(Webhook) /\ t \in Seq(Webhook) /\ Thins(s, t)
  OBVIOUS
<1>2. Unrepeated(s) /\ SameOrder(s, _subscriptions)
      /\ \A i \in DOMAIN s : hook_events[s[i]] # None /\ s[i] \notin withdrawn[r]
  BY DEF HookFits
<1>3. /\ Unrepeated(t)
      /\ SameOrder(t, _subscriptions)
      /\ \A i \in DOMAIN t : \E j \in DOMAIN s : t[i] = s[j]
  <2> HIDE DEF s, t
  <2> QED
    BY <1>1, <1>2, ThinnedList
<1>4. \A i \in DOMAIN t : hook_events[t[i]] # None /\ t[i] \notin withdrawn[r]
  <2> HIDE DEF s, t
  <2> QED
    BY <1>2, <1>3
<1>5. Unrepeated(Places(r))' /\ SameOrder(Places(r), _subscriptions)'
  BY <1>3 DEF Unrepeated, SameOrder
<1>6. \A i \in DOMAIN Places(r)' : hook_events'[Places(r)'[i]] # None /\ Places(r)'[i] \notin withdrawn'[r]
  BY <1>4
<1> QED
  BY <1>5, <1>6 DEF HookFits

\* The lists of a round.
LEMMA PlacesType ==
    ASSUME WebhooksTypeOK, NEW r \in Round
    PROVE  /\ _subscriptions \in Seq(Webhook)
           /\ posted[r] \in Seq(Webhook) /\ remaining[r] \in Seq(Webhook)
           /\ Places(r) \in Seq(Webhook)
  BY ConcatProperties DEF WebhooksTypeOK, Places

\* What a task has posted to comes first among its places.
LEMMA PostedPlaces ==
    ASSUME WebhooksTypeOK, NEW r \in Round, NEW i \in DOMAIN posted[r]
    PROVE  i \in DOMAIN Places(r) /\ Places(r)[i] = posted[r][i]
<1> DEFINE q == Places(r)
<1>0. posted[r] \in Seq(Webhook) /\ remaining[r] \in Seq(Webhook) /\ q \in Seq(Webhook)
  BY PlacesType
<1>1. Len(posted[r]) \in Nat /\ Len(remaining[r]) \in Nat /\ i \in 1 .. Len(posted[r])
  BY <1>0, LenProperties
<1>2. /\ Len(q) = Len(posted[r]) + Len(remaining[r])
      /\ \A k \in 1 .. Len(posted[r]) + Len(remaining[r]) :
          q[k] = IF k <= Len(posted[r]) THEN posted[r][k] ELSE remaining[r][k - Len(posted[r])]
  BY <1>0, ConcatProperties DEF Places
<1>3. DOMAIN q = 1 .. Len(posted[r]) + Len(remaining[r])
  BY <1>0, <1>2, LenProperties
<1>4. i \in 1 .. Len(posted[r]) + Len(remaining[r]) /\ i <= Len(posted[r])
  <2>1. \A a, b \in Nat : i \in 1 .. a => i \in 1 .. a + b /\ i <= a
    OBVIOUS
  <2> QED
    BY ONLY <1>1, <2>1
<1> QED
  BY <1>2, <1>3, <1>4

\* A new subscription comes after the others and is on no list of a task.
LEMMA SubscribeKeepsHooks ==
    ASSUME HooksInv, NEW w \in Webhook,
           NEW filter \in SUBSET _WEBHOOK_EVENTS, subscribe_webhook(w, filter)
    PROVE  HooksInv'
<1> DEFINE s == _subscriptions
           n == Len(_subscriptions)
<1>1. /\ hook_events[w] = None /\ filter # None
      /\ hook_events' = [hook_events EXCEPT ![w] = filter]
      /\ s' = Append(s, w)
      /\ UNCHANGED <<task, has_fault, remaining, posted, standing, withdrawn>>
  BY WebhooksConstants DEF subscribe_webhook
<1>2. WebhooksTypeOK /\ s \in Seq(Webhook)
      /\ hook_events \in [Webhook -> (SUBSET _WEBHOOK_EVENTS) \cup {None}]
  BY DEF HooksInv, WebhooksTypeOK
<1>3. /\ s' \in Seq(Webhook) /\ n \in Nat /\ DOMAIN s = 1 .. n /\ DOMAIN s' = 1 .. n + 1
      /\ s'[n + 1] = w /\ \A i \in 1 .. n : s'[i] = s[i]
  <2>1. s' \in Seq(Webhook) /\ Len(s') = n + 1 /\ n \in Nat
    BY <1>1, <1>2, AppendProperties, LenProperties
  <2>2. DOMAIN s = 1 .. n /\ DOMAIN s' = 1 .. n + 1
    BY <1>2, <2>1, LenProperties
  <2> QED
    BY <1>1, <1>2, <2>1, <2>2, AppendProperties
<1>4. hook_events'[w] = filter /\ \A x \in Webhook : x # w => hook_events'[x] = hook_events[x]
  BY <1>1, <1>2
<1>5. WebhooksTypeOK'
  BY <1>1, <1>2, <1>3 DEF WebhooksTypeOK
<1>6. \A i \in 1 .. n : s[i] \in Webhook /\ s[i] # w /\ hook_events[s[i]] # None
  BY <1>1, <1>2, <1>3, ElementOfSeq DEF HooksInv
<1>7. Unrepeated(_subscriptions)'
  <2>1. \A i, j \in 1 .. n : s[i] = s[j] => i = j
    BY <1>3 DEF HooksInv, Unrepeated
  <2>2. \A i \in 1 .. n + 1 : i \in 1 .. n \/ i = n + 1
    BY <1>3
  <2>3. \A i, j \in DOMAIN s' : s'[i] = s'[j] => i = j
    BY <1>3, <1>6, <2>1, <2>2
  <2> QED
    BY <2>3 DEF Unrepeated
<1>8. \A i \in DOMAIN s' : hook_events'[s'[i]] # None
  <2>1. \A i \in 1 .. n + 1 : i \in 1 .. n \/ i = n + 1
    BY <1>3
  <2> QED
    BY <1>1, <1>3, <1>4, <1>6, <2>1
<1>9. ASSUME NEW r \in Round PROVE HookFits(r)'
  <2> DEFINE q == Places(r)
  <2>1. q' = q /\ q \in Seq(Webhook)
    BY <1>1, <1>2, PlacesType DEF Places
  <2>2. HookFits(r)
    BY DEF HooksInv
  <2>3. \A i \in DOMAIN q : q[i] \in Webhook /\ q[i] # w /\ hook_events'[q[i]] = hook_events[q[i]]
                            /\ hook_events[q[i]] # None
    BY <1>1, <1>4, <2>1, <2>2, ElementOfSeq, LenProperties DEF HookFits
  <2>4. SameOrder(q, s')
    <3> SUFFICES ASSUME NEW i \in DOMAIN q, NEW j \in DOMAIN q, NEW k \in DOMAIN s', NEW l \in DOMAIN s',
                        q[i] = s'[k], q[j] = s'[l], i < j
                 PROVE  k < l
      BY DEF SameOrder
    <3>1. k \in 1 .. n /\ l \in 1 .. n
      <4>1. k # n + 1 /\ l # n + 1
        BY <1>3, <2>3
      <4> QED
        BY <1>3, <4>1
    <3>2. q[i] = s[k] /\ q[j] = s[l]
      BY <1>3, <3>1
    <3> QED
      BY <1>3, <2>2, <3>1, <3>2 DEF HookFits, SameOrder
  <2>5. \A i \in DOMAIN posted[r] : posted[r][i] \in Webhook /\ hook_events'[posted[r][i]] = hook_events[posted[r][i]]
    <3>1. \A i \in DOMAIN posted[r] : i \in DOMAIN q /\ q[i] = posted[r][i]
      BY <1>2, PostedPlaces
    <3> QED
      BY <2>3, <3>1
  <2>6. PostsWanted(r)'
    BY <1>1, <2>2, <2>5 DEF HookFits, PostsWanted, Wanted
  <2>7. SameOrder(Places(r), _subscriptions)'
    BY <2>1, <2>4 DEF SameOrder
  <2>8. Unrepeated(Places(r))'
    BY <2>1, <2>2 DEF HookFits, Unrepeated
  <2>9. \A i \in DOMAIN Places(r)' : hook_events'[Places(r)'[i]] # None /\ Places(r)'[i] \notin withdrawn'[r]
    BY <1>1, <2>1, <2>2, <2>3 DEF HookFits
  <2> QED
    BY <1>1, <2>2, <2>6, <2>7, <2>8, <2>9 DEF HookFits
<1> QED
  BY <1>5, <1>7, <1>8, <1>9 DEF HooksInv

\* A removed subscription leaves the order of the others as it is.
LEMMA UnsubscribeKeepsHooks ==
    ASSUME HooksInv, NEW w \in Webhook, unsubscribe_webhook(w)
    PROVE  HooksInv'
<1> DEFINE s == _subscriptions
<1>0. WebhooksTypeOK /\ s \in Seq(Webhook)
  BY DEF HooksInv, WebhooksTypeOK
<1>1. PICK p \in DOMAIN s : s' = SubSeq(s, 1, p - 1) \o SubSeq(s, p + 1, Len(s))
  BY DEF unsubscribe_webhook
<1>2. UNCHANGED <<hook_events, task, has_fault, remaining, posted, withdrawn>>
      /\ standing' = [r \in Round |-> standing[r] \ {w}]
  BY DEF unsubscribe_webhook
<1>3. s' \in Seq(Webhook) /\ Thins(s, s')
  BY <1>0, <1>1, RemovedThins
<1>4. /\ Unrepeated(s) => Unrepeated(s')
      /\ \A i \in DOMAIN s' : \E j \in DOMAIN s : s'[i] = s[j]
      /\ \A u \in Seq(Webhook) : SameOrder(u, s) => SameOrder(u, s')
  <2> HIDE DEF s
  <2>1. \A t \in Seq(Webhook) : Thins(s, t) =>
            /\ Unrepeated(s) => Unrepeated(t)
            /\ \A i \in DOMAIN t : \E j \in DOMAIN s : t[i] = s[j]
            /\ \A u \in Seq(Webhook) : SameOrder(u, s) => SameOrder(u, t)
    BY <1>0, ThinnedList
  <2> QED
    BY <1>3, <2>1
<1>5. WebhooksTypeOK'
  BY <1>0, <1>2, <1>3 DEF WebhooksTypeOK
<1>6. Unrepeated(_subscriptions)'
  BY <1>4 DEF HooksInv, Unrepeated
<1>7. \A i \in DOMAIN s' : hook_events'[s'[i]] # None
  BY <1>2, <1>4 DEF HooksInv
<1>8. ASSUME NEW r \in Round PROVE HookFits(r)'
  <2>1. Places(r)' = Places(r) /\ Places(r) \in Seq(Webhook)
    BY <1>0, <1>2, PlacesType DEF Places
  <2>2. HookFits(r)
    BY DEF HooksInv
  <2>3. SameOrder(Places(r), s')
    BY <1>4, <2>1, <2>2 DEF HookFits
  <2>4. SameOrder(Places(r), _subscriptions)'
    BY <2>1, <2>3 DEF SameOrder
  <2>5. Unrepeated(Places(r))'
    BY <2>1, <2>2 DEF HookFits, Unrepeated
  <2>6. PostsWanted(r)'
    BY <1>2, <2>2 DEF HookFits, PostsWanted, Wanted
  <2>7. \A i \in DOMAIN Places(r)' : hook_events'[Places(r)'[i]] # None /\ Places(r)'[i] \notin withdrawn'[r]
    BY <1>2, <2>1, <2>2 DEF HookFits
  <2> QED
    BY <1>2, <2>2, <2>4, <2>5, <2>6, <2>7 DEF HookFits
<1> QED
  BY <1>5, <1>6, <1>7, <1>8 DEF HooksInv

\* The task of a round is where it was when nothing of it changes.
LEMMA SameHook ==
    ASSUME NEW r \in Round, HookFits(r),
           UNCHANGED <<_subscriptions, hook_events>>,
           task'[r] = task[r], has_fault'[r] = has_fault[r], remaining'[r] = remaining[r],
           posted'[r] = posted[r], withdrawn'[r] = withdrawn[r]
    PROVE  HookFits(r)'
<1>1. Places(r)' = Places(r)
  BY DEF Places
<1>2. SameOrder(Places(r), _subscriptions)' /\ Unrepeated(Places(r))'
  BY <1>1 DEF HookFits, SameOrder, Unrepeated
<1>3. PostsWanted(r)'
  BY DEF HookFits, PostsWanted, Wanted
<1>4. \A i \in DOMAIN Places(r)' : hook_events'[Places(r)'[i]] # None /\ Places(r)'[i] \notin withdrawn'[r]
  BY <1>1 DEF HookFits
<1> QED
  BY <1>2, <1>3, <1>4 DEF HookFits

\* When a step leaves the subscriptions alone it is enough to look at the
\* tasks.
LEMMA TasksKeepHooks ==
    ASSUME HooksInv, WebhooksTypeOK', UNCHANGED <<_subscriptions, hook_events>>,
           \A r \in Round : HookFits(r)'
    PROVE  HooksInv'
  BY DEF HooksInv, Unrepeated

\* The task of an answered round has posted to nobody yet.
LEMMA CreateTaskKeepsHooks ==
    ASSUME HooksInv, NEW r \in Round, NEW fault \in BOOLEAN, CreateTask(r, fault)
    PROVE  HooksInv'
<1>1. /\ task[r] = "none"
      /\ task' = [task EXCEPT ![r] = "created"]
      /\ has_fault' = [has_fault EXCEPT ![r] = fault]
      /\ standing' = [standing EXCEPT ![r] = Subscriptions]
      /\ UNCHANGED <<_subscriptions, hook_events, remaining, posted, withdrawn>>
  BY DEF CreateTask
<1>2. WebhooksTypeOK /\ HookFits(r)
  BY DEF HooksInv
<1>3. Subscriptions \subseteq Webhook
  BY <1>2, ElementOfSeq, LenProperties DEF Subscriptions, Elements, WebhooksTypeOK
<1>4. WebhooksTypeOK'
  BY <1>1, <1>2, <1>3 DEF WebhooksTypeOK
<1>5. ASSUME NEW x \in Round PROVE HookFits(x)'
  <2>0. HookFits(x)
    BY DEF HooksInv
  <2>1. CASE x = r
    <3>1. posted[r] = <<>> /\ remaining[r] = <<>>
      BY <1>1, <1>2 DEF HookFits
    <3>2. Places(r)' = Places(r)
      BY <1>1 DEF Places
    <3>3. SameOrder(Places(r), _subscriptions)' /\ Unrepeated(Places(r))'
      BY <1>1, <1>2, <3>2 DEF HookFits, SameOrder, Unrepeated
    <3>4. PostsWanted(r)'
      <4>1. DOMAIN posted'[r] = {}
        BY <1>1, <3>1, EmptySeq, LenProperties
      <4> QED
        BY <4>1 DEF PostsWanted
    <3>5. \A i \in DOMAIN Places(r)' : hook_events'[Places(r)'[i]] # None /\ Places(r)'[i] \notin withdrawn'[r]
      BY <1>1, <1>2, <3>2 DEF HookFits
    <3> QED
      BY <1>1, <2>1, <3>1, <3>3, <3>4, <3>5 DEF HookFits
  <2>2. CASE x # r
    <3>1. task'[x] = task[x] /\ has_fault'[x] = has_fault[x]
      BY <1>1, <1>2, <2>2 DEF WebhooksTypeOK
    <3> QED
      BY <1>1, <2>0, <3>1, SameHook
  <2> QED
    BY <2>1, <2>2
<1> QED
  BY <1>1, <1>4, <1>5, TasksKeepHooks

\* A task that begins takes the subscriptions there are, in their order.
LEMMA StartDispatchKeepsHooks ==
    ASSUME HooksInv, NEW r \in Round, StartDispatch(r)
    PROVE  HooksInv'
<1> DEFINE s == _subscriptions
           status == IF s = <<>> THEN "done" ELSE "posting"
           gone == {w \in Webhook : hook_events[w] # None} \ Subscriptions
<1>1. /\ task[r] = "created"
      /\ task' = [task EXCEPT ![r] = status]
      /\ remaining' = [remaining EXCEPT ![r] = s]
      /\ withdrawn' = [withdrawn EXCEPT ![r] = gone]
      /\ UNCHANGED <<_subscriptions, hook_events, has_fault, posted, standing>>
  BY DEF StartDispatch
<1>2. WebhooksTypeOK /\ HookFits(r) /\ s \in Seq(Webhook)
  BY DEF HooksInv, WebhooksTypeOK
<1>3. status \in {"done", "posting"} /\ gone \in SUBSET Webhook
  OBVIOUS
<1>4. \A i \in DOMAIN s : s[i] \notin gone /\ hook_events[s[i]] # None
  BY DEF HooksInv, Subscriptions, Elements
<1> HIDE DEF status, gone
<1>5. WebhooksTypeOK'
  BY <1>1, <1>2, <1>3 DEF WebhooksTypeOK
<1>6. ASSUME NEW x \in Round PROVE HookFits(x)'
  <2>0. HookFits(x)
    BY DEF HooksInv
  <2>1. CASE x = r
    <3>1. posted[r] = <<>> /\ posted'[r] = <<>>
      BY <1>1, <1>2 DEF HookFits
    <3>2. remaining'[r] = s /\ withdrawn'[r] = gone /\ task'[r] = status
      BY <1>1, <1>2 DEF WebhooksTypeOK
    <3>3. Places(r)' = s
      BY <1>2, <3>1, <3>2, ConcatEmptySeq DEF Places
    <3>4. Unrepeated(s)
      BY DEF HooksInv
    <3>5. SameOrder(s, s)
      BY <3>4 DEF Unrepeated, SameOrder
    <3>6. SameOrder(Places(r), _subscriptions)'
      BY <1>1, <3>3, <3>5 DEF SameOrder
    <3>7. Unrepeated(Places(r))'
      BY <3>3, <3>4 DEF Unrepeated
    <3>8. PostsWanted(r)'
      <4>1. DOMAIN posted'[r] = {}
        BY <3>1, EmptySeq, LenProperties
      <4> QED
        BY <4>1 DEF PostsWanted
    <3>9. \A i \in DOMAIN Places(r)' : hook_events'[Places(r)'[i]] # None /\ Places(r)'[i] \notin withdrawn'[r]
      BY <1>1, <1>4, <3>2, <3>3
    <3>10. task'[r] \notin {"none", "created"}
      BY <1>3, <3>2
    <3> QED
      BY <2>1, <3>6, <3>7, <3>8, <3>9, <3>10 DEF HookFits
  <2>2. CASE x # r
    <3>1. task'[x] = task[x] /\ remaining'[x] = remaining[x] /\ withdrawn'[x] = withdrawn[x]
      BY <1>1, <1>2, <2>2 DEF WebhooksTypeOK
    <3> QED
      BY <1>1, <2>0, <3>1, SameHook
  <2> QED
    BY <2>1, <2>2
<1> QED
  BY <1>1, <1>5, <1>6, TasksKeepHooks

\* Who matches a round wanted it.
LEMMA MatchesWanted ==
    ASSUME NEW w, NEW r, Matches(w, r)
    PROVE  Wanted(w, r)
  BY DEF Matches, Wanted, triggered

\* The task posts to the next one that matches and goes on behind it,
\* whether the post raises or not.
LEMMA PostKeepsHooks ==
    ASSUME HooksInv, NEW r \in Round, NEW raises \in BOOLEAN, Post(r, raises)
    PROVE  HooksInv'
<1>1. PICK p \in DOMAIN remaining[r] :
        /\ Matches(remaining[r][p], r)
        /\ posted' = [posted EXCEPT ![r] = Append(@, remaining[r][p])]
        /\ remaining' = [remaining EXCEPT ![r] = SubSeq(@, p + 1, Len(@))]
  BY DEF Post
<1>2. task[r] = "posting"
      /\ UNCHANGED <<_subscriptions, hook_events, task, has_fault, standing, withdrawn>>
  BY DEF Post
<1>3. WebhooksTypeOK /\ HookFits(r)
      /\ posted[r] \in Seq(Webhook) /\ remaining[r] \in Seq(Webhook) /\ Places(r) \in Seq(Webhook)
  BY PlacesType DEF HooksInv
<1> DEFINE u == Append(posted[r], remaining[r][p])
           v == SubSeq(remaining[r], p + 1, Len(remaining[r]))
<1>4. u \in Seq(Webhook) /\ v \in Seq(Webhook) /\ Thins(posted[r] \o remaining[r], u \o v)
  BY <1>3, SkippedThins
<1>5. posted' = [posted EXCEPT ![r] = u] /\ remaining' = [remaining EXCEPT ![r] = v]
  BY <1>1
<1>6. remaining[r][p] \in Webhook
  BY <1>3, ElementOfSeq, LenProperties
<1>7. \A i \in DOMAIN u : (i \in DOMAIN posted[r] /\ u[i] = posted[r][i]) \/ u[i] = remaining[r][p]
  <2>1. Len(posted[r]) \in Nat /\ DOMAIN posted[r] = 1 .. Len(posted[r])
        /\ Len(u) = Len(posted[r]) + 1 /\ DOMAIN u = 1 .. Len(u)
        /\ u[Len(posted[r]) + 1] = remaining[r][p]
        /\ \A i \in 1 .. Len(posted[r]) : u[i] = posted[r][i]
    BY <1>3, <1>6, AppendProperties, LenProperties
  <2> HIDE DEF u
  <2>2. \A i \in DOMAIN u : i \in 1 .. Len(posted[r]) \/ i = Len(posted[r]) + 1
    BY <2>1
  <2> QED
    BY <2>1, <2>2
<1> HIDE DEF u, v
<1>8. WebhooksTypeOK'
  BY <1>2, <1>3, <1>4, <1>5 DEF WebhooksTypeOK
<1>9. ASSUME NEW x \in Round PROVE HookFits(x)'
  <2>0. HookFits(x)
    BY DEF HooksInv
  <2>1. CASE x = r
    <3>1. posted'[r] = u /\ remaining'[r] = v
      BY <1>3, <1>5 DEF WebhooksTypeOK
    <3>2. Places(r)' \in Seq(Webhook) /\ Thins(Places(r), Places(r)')
      BY <1>4, <3>1, ConcatProperties DEF Places
    <3>3. PostsWanted(r)'
      <4>1. \A i \in DOMAIN u : Wanted(u[i], r)
        BY <1>1, <1>3, <1>7, MatchesWanted DEF HookFits, PostsWanted
      <4> QED
        BY <1>2, <3>1, <4>1 DEF PostsWanted, Wanted
    <3>4. task'[r] \notin {"none", "created"}
      BY <1>2
    <3>5. HookFits(r)'
      BY <1>2, <1>3, <3>2, <3>3, <3>4, HookThins
    <3> QED
      BY <2>1, <3>5
  <2>2. CASE x # r
    <3>1. posted'[x] = posted[x] /\ remaining'[x] = remaining[x]
      BY <1>3, <1>5, <2>2 DEF WebhooksTypeOK
    <3> QED
      BY <1>2, <2>0, <3>1, SameHook
  <2> QED
    BY <2>1, <2>2
<1> QED
  BY <1>2, <1>8, <1>9, TasksKeepHooks

\* The task that has come to the end posts to nobody any more.
LEMMA EndDispatchKeepsHooks ==
    ASSUME HooksInv, NEW r \in Round, EndDispatch(r)
    PROVE  HooksInv'
<1>1. /\ task' = [task EXCEPT ![r] = "done"]
      /\ remaining' = [remaining EXCEPT ![r] = <<>>]
      /\ UNCHANGED <<_subscriptions, hook_events, has_fault, posted, standing, withdrawn>>
  BY DEF EndDispatch
<1>2. WebhooksTypeOK /\ HookFits(r)
      /\ posted[r] \in Seq(Webhook) /\ remaining[r] \in Seq(Webhook) /\ Places(r) \in Seq(Webhook)
  BY PlacesType DEF HooksInv
<1>3. WebhooksTypeOK'
  BY <1>1, <1>2, EmptySeq DEF WebhooksTypeOK
<1>4. ASSUME NEW x \in Round PROVE HookFits(x)'
  <2>0. HookFits(x)
    BY DEF HooksInv
  <2>1. CASE x = r
    <3>1. posted'[r] = posted[r] /\ remaining'[r] = <<>> /\ task'[r] = "done"
      BY <1>1, <1>2 DEF WebhooksTypeOK
    <3>2. Places(r)' = posted[r] \o <<>>
      BY <3>1 DEF Places
    <3>3. Places(r)' \in Seq(Webhook) /\ Thins(Places(r), Places(r)')
      <4>1. Thins(Places(r), posted[r] \o <<>>)
        BY <1>2, EndedThins DEF Places
      <4>2. posted[r] \o <<>> \in Seq(Webhook)
        BY <1>2, ConcatEmptySeq
      <4> QED
        BY <3>2, <4>1, <4>2
    <3>4. PostsWanted(r)'
      BY <1>1, <1>2, <3>1 DEF HookFits, PostsWanted, Wanted
    <3>5. HookFits(r)'
      BY <1>1, <1>2, <3>1, <3>3, <3>4, HookThins
    <3> QED
      BY <2>1, <3>5
  <2>2. CASE x # r
    <3>1. task'[x] = task[x] /\ remaining'[x] = remaining[x]
      BY <1>1, <1>2, <2>2 DEF WebhooksTypeOK
    <3> QED
      BY <1>1, <2>0, <3>1, SameHook
  <2> QED
    BY <2>1, <2>2
<1> QED
  BY <1>1, <1>3, <1>4, TasksKeepHooks

\* Nobody is subscribed and no round is answered at the start.
LEMMA HooksInit == WebhooksInit => HooksInv
<1> SUFFICES ASSUME WebhooksInit PROVE HooksInv
  OBVIOUS
<1>0. <<>> \in Seq(Webhook) /\ DOMAIN <<>> = {} /\ <<>> \o <<>> = <<>>
  BY EmptySeq, LenProperties, ConcatEmptySeq
<1>1. WebhooksTypeOK
  <2>1. hook_events \in [Webhook -> (SUBSET _WEBHOOK_EVENTS) \cup {None}]
    BY DEF WebhooksInit
  <2>2. standing \in [Round -> SUBSET Webhook] /\ withdrawn \in [Round -> SUBSET Webhook]
    BY DEF WebhooksInit
  <2>3. /\ _subscriptions \in Seq(Webhook)
        /\ remaining \in [Round -> Seq(Webhook)] /\ posted \in [Round -> Seq(Webhook)]
    BY <1>0 DEF WebhooksInit
  <2>4. /\ task \in [Round -> {"none", "created", "posting", "done"}]
        /\ has_fault \in [Round -> BOOLEAN]
    BY DEF WebhooksInit
  <2> QED
    BY <2>1, <2>2, <2>3, <2>4 DEF WebhooksTypeOK
<1>2. \A r \in Round : Places(r) = <<>> /\ posted[r] = <<>> /\ remaining[r] = <<>> /\ _subscriptions = <<>>
  BY <1>0 DEF WebhooksInit, Places
<1>3. ASSUME NEW r \in Round PROVE HookFits(r)
  <2>1. Unrepeated(Places(r)) /\ SameOrder(Places(r), _subscriptions) /\ PostsWanted(r)
    BY <1>0, <1>2 DEF Unrepeated, SameOrder, PostsWanted
  <2>2. \A i \in DOMAIN Places(r) : hook_events[Places(r)[i]] # None /\ Places(r)[i] \notin withdrawn[r]
    BY <1>0, <1>2
  <2> QED
    BY <1>2, <2>1, <2>2 DEF HookFits
<1>4. Unrepeated(_subscriptions) /\ \A i \in DOMAIN _subscriptions : hook_events[_subscriptions[i]] # None
  BY <1>0 DEF WebhooksInit, Unrepeated
<1> QED
  BY <1>1, <1>3, <1>4 DEF HooksInv

\* As many elements as places: a list without repetition.
LEMMA CountedOnce ==
    ASSUME NEW S, NEW s \in Seq(S), Unrepeated(s)
    PROVE  Cardinality(Elements(s)) = Len(s)
<1> DEFINE T == Elements(s)
           n == Len(s)
<1>1. n \in Nat /\ DOMAIN s = 1 .. n /\ s \in [1 .. n -> T]
  BY LenProperties DEF Elements
<1>2. s \in Injection(1 .. n, T)
  BY <1>1 DEF Injection, IsInjective, Unrepeated
<1>3. s \in Surjection(1 .. n, T)
  BY <1>1 DEF Surjection, Elements
<1>4. ExistsBijection(1 .. n, T)
  BY <1>2, <1>3 DEF ExistsBijection, Bijection
<1> QED
  BY <1>1, <1>4, FS_CountingElements

\* The inductive invariant of the webhooks.
LEMMA SpecHooksInv == WebhooksSpec => []HooksInv
<1>1. HooksInv /\ [WebhooksNext]_(webhook_vars) => HooksInv'
  <2> SUFFICES ASSUME HooksInv, [WebhooksNext]_(webhook_vars) PROVE HooksInv'
    OBVIOUS
  <2>1. ASSUME NEW w \in Webhook, unsubscribe_webhook(w) PROVE HooksInv'
    BY <2>1, UnsubscribeKeepsHooks
  <2>2. ASSUME NEW w \in Webhook, NEW filter \in SUBSET _WEBHOOK_EVENTS, subscribe_webhook(w, filter)
        PROVE  HooksInv'
    BY <2>2, SubscribeKeepsHooks
  <2>3. ASSUME NEW r \in Round, Dispatch(r) PROVE HooksInv'
    BY <2>3, StartDispatchKeepsHooks, EndDispatchKeepsHooks, PostKeepsHooks DEF Dispatch
  <2>4. ASSUME NEW r \in Round, NEW fault \in BOOLEAN, CreateTask(r, fault) PROVE HooksInv'
    BY <2>4, CreateTaskKeepsHooks
  <2>5. ASSUME UNCHANGED webhook_vars PROVE HooksInv'
    <3>1. UNCHANGED <<_subscriptions, hook_events, task, has_fault, remaining, posted, standing, withdrawn>>
      BY <2>5 DEF webhook_vars
    <3>2. WebhooksTypeOK'
      BY <3>1 DEF HooksInv, WebhooksTypeOK
    <3>3. \A r \in Round : HookFits(r)'
      BY <3>1, SameHook DEF HooksInv
    <3> QED
      BY <3>1, <3>2, <3>3, TasksKeepHooks
  <2> QED
    BY <2>1, <2>2, <2>3, <2>4, <2>5 DEF WebhooksNext
<1> QED
  BY <1>1, HooksInit, PTL DEF WebhooksSpec

\* The posts of a round: to each webhook once, only to those whose filter
\* meets the round and that were not removed before the task began, in the
\* order of subscription, for every number of webhooks and of rounds whose
\* tasks overlap and whichever posts raise.
THEOREM SpecPostsAreDue == WebhooksSpec => []PostsAreDue
<1>1. HooksInv => PostsAreDue
  <2> SUFFICES ASSUME HooksInv PROVE PostsAreDue
    OBVIOUS
  <2> SUFFICES ASSUME NEW r \in Round
               PROVE
        /\ Cardinality(Elements(posted[r])) = Len(posted[r])
        /\ \A w \in Elements(posted[r]) : Wanted(w, r) /\ w \notin withdrawn[r]
        /\ \A i, j \in DOMAIN posted[r] : \A k, l \in DOMAIN _subscriptions :
                /\ _subscriptions[k] = posted[r][i]
                /\ _subscriptions[l] = posted[r][j]
                => (i < j <=> k < l)
    BY DEF PostsAreDue
  <2>1. WebhooksTypeOK /\ HookFits(r) /\ Unrepeated(_subscriptions)
    BY DEF HooksInv
  <2>2. posted[r] \in Seq(Webhook) /\ _subscriptions \in Seq(Webhook)
    BY <2>1, PlacesType
  <2>3. \A i \in DOMAIN posted[r] : i \in DOMAIN Places(r) /\ Places(r)[i] = posted[r][i]
    BY <2>1, PostedPlaces
  <2>4. Unrepeated(posted[r])
    BY <2>1, <2>3 DEF HookFits, Unrepeated
  <2>5. Cardinality(Elements(posted[r])) = Len(posted[r])
    BY <2>2, <2>4, CountedOnce
  <2>6. \A w \in Elements(posted[r]) : Wanted(w, r) /\ w \notin withdrawn[r]
    BY <2>1, <2>3 DEF Elements, HookFits, PostsWanted
  <2>7. \A i, j \in DOMAIN posted[r], k, l \in DOMAIN _subscriptions :
            /\ _subscriptions[k] = posted[r][i]
            /\ _subscriptions[l] = posted[r][j]
            /\ i < j
            => k < l
    BY <2>1, <2>3 DEF HookFits, SameOrder
  <2>8. ASSUME NEW i \in DOMAIN posted[r], NEW j \in DOMAIN posted[r],
               NEW k \in DOMAIN _subscriptions, NEW l \in DOMAIN _subscriptions,
               _subscriptions[k] = posted[r][i], _subscriptions[l] = posted[r][j]
        PROVE  i < j <=> k < l
    <3>1. i \in Nat /\ j \in Nat /\ k \in Nat /\ l \in Nat
      BY <2>2, LenProperties
    <3>2. i < j => k < l
      BY <2>7, <2>8
    <3>3. j < i => l < k
      BY <2>7, <2>8
    <3>4. i = j => k = l
      BY <2>1, <2>8 DEF Unrepeated
    <3> QED
      BY ONLY <3>1, <3>2, <3>3, <3>4
  <2> QED
    BY <2>5, <2>6, <2>8
<1> QED
  BY <1>1, SpecHooksInv, PTL

=============================================================================
