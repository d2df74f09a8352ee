-------------------------- MODULE EventServiceProofs --------------------------
(***************************************************************************)
(* Proofs about EventService, for any clients, families and requests.      *)
(*                                                                         *)
(* What a client has got, what its handler writes, what is in its channel  *)
(* and what the broker still has for it are together what was broadcast    *)
(* since it was registered. That is inductive once the broker is known to  *)
(* send to registered clients only, to each one once (Ranges), and a       *)
(* client that is not registered yet is known to hold nothing (Linked).    *)
(*                                                                         *)
(* For what GET answers: of what was stored the POST is over, or about to  *)
(* notify, and the last event of a family on its way or broadcast is the   *)
(* latest one of a POST that is over, unless the family has raced          *)
(* (Answered).                                                             *)
(***************************************************************************)
EXTENDS EventService, SequenceTheorems, TLAPS

Linked ==
  \A c \in Client :
     /\ conn[c] \in {"open", "closing"} <=> c \in clients
     /\ conn[c] \in {"none", "joining"} =>
          seen[c] = <<>> /\ writing[c] = <<>> /\ chan[c] = <<>>
     /\ joined[c] <= Len(broadcast)

Ranges ==
  /\ broker.at \in {"range", "send"} => broker.rest \subseteq clients
  /\ broker.at = "send" => broker.to \in clients /\ broker.to \notin broker.rest

Inv == TypeOK /\ Linked /\ Ranges /\ NoGaps

Held(c) == seen[c] \o writing[c] \o chan[c] \o OnItsWay(c)
Since(c) == SubSeq(broadcast, joined[c] + 1, Len(broadcast))
Gapless(c) == conn[c] = "open" /\ c \notin left => Held(c) = Since(c)

------------------------------------------------------------------------------
(* Sequences.                                                              *)

LEMMA AtMostOneIsSeq == AtMostOne \subseteq Seq(Events)
<1> SUFFICES ASSUME NEW s \in AtMostOne PROVE s \in Seq(Events)
  OBVIOUS
<1>1. CASE s = <<>>
  BY <1>1
<1>2. CASE \E e \in Events : s = <<e>>
  <2>1. PICK e \in Events : s = <<e>>
    BY <1>2
  <2> QED
    BY <2>1
<1> QED
  BY <1>1, <1>2 DEF AtMostOne

LEMMA WayIsSeq ==
  ASSUME TypeOK, NEW c \in Client
  PROVE  OnItsWay(c) \in Seq(Events)
<1>1. broker.at \in {"range", "send"} => broker.event \in Events
  BY DEF TypeOK, Brokers
<1>2. <<>> \in Seq(Events)
  OBVIOUS
<1>3. broker.event \in Events => <<broker.event>> \in Seq(Events)
  OBVIOUS
<1> QED
  BY <1>1, <1>2, <1>3 DEF OnItsWay

\* What was broadcast since j grows by the event that is broadcast.
LEMMA SinceGrows ==
  ASSUME NEW S, NEW b \in Seq(S), NEW e \in S, NEW j \in Nat, j <= Len(b)
  PROVE  SubSeq(Append(b, e), j + 1, Len(Append(b, e)))
           = SubSeq(b, j + 1, Len(b)) \o <<e>>
<1> DEFINE a == Append(b, e)
<1>1. /\ a \in Seq(S) /\ Len(a) = Len(b) + 1
      /\ a[Len(b) + 1] = e /\ a = b \o <<e>>
  BY AppendProperties, AppendIsConcat
<1>2. Len(b) \in Nat
  BY LenProperties
<1>3. SubSeq(a, j + 1, Len(a)) = SubSeq(a, j + 1, Len(a) - 1) \o <<a[Len(a)]>>
  <2>1. j + 1 \in 1..Len(a) /\ Len(a) \in (j + 1)..Len(a)
    BY <1>1, <1>2
  <2> HIDE DEF a
  <2> QED
    BY <1>1, <2>1, SubSeqRecursiveSecond
<1>4. SubSeq(a, j + 1, Len(b)) = SubSeq(b, j + 1, Len(b))
  <2>1. CASE j = Len(b)
    BY <1>2, <2>1, SubSeqEmpty
  <2>2. CASE j # Len(b)
    <3>1. j + 1 \in 1..Len(b) /\ Len(b) \in 1..Len(b)
      BY <1>2, <2>2
    <3>2. <<e>> \in Seq(S)
      OBVIOUS
    <3>3. SubSeq(b \o <<e>>, j + 1, Len(b)) = SubSeq(b, j + 1, Len(b))
      BY <3>1, <3>2, SubSeqOfConcat1
    <3> QED
      BY <1>1, <3>3
  <2> QED
    BY <2>1, <2>2
<1>5. Len(a) - 1 = Len(b) /\ a[Len(a)] = e
  BY <1>1, <1>2
<1> HIDE DEF a
<1>6. SubSeq(a, j + 1, Len(a)) = SubSeq(b, j + 1, Len(b)) \o <<e>>
  BY <1>3, <1>4, <1>5
<1> QED
  BY <1>6 DEF a

\* An event that moves from the broker to the channel, from the channel to the
\* handler and from there to the client stays where it is in what is held.
LEMMA MovesOn ==
  ASSUME NEW S, NEW s \in Seq(S), NEW w \in Seq(S), NEW k \in Seq(S),
         NEW o \in Seq(S)
  PROVE  /\ s \o w \o <<>> \o o = s \o w \o o \o <<>>
         /\ s \o <<>> \o k \o o = s \o k \o <<>> \o o
         /\ s \o w \o <<>> = s \o w
         /\ (s \o w) \o <<>> \o k \o o = s \o w \o k \o o
<1> <<>> \in Seq(S)
  OBVIOUS
<1>1. s \o w \in Seq(S) /\ s \o k \in Seq(S)
  BY ConcatProperties
<1>2. s \o w \o o \in Seq(S)
  BY <1>1, ConcatProperties
<1>3. s \o w \o <<>> = s \o w /\ s \o k \o <<>> = s \o k /\ s \o <<>> = s
  BY <1>1, ConcatEmptySeq
<1>4. s \o w \o o \o <<>> = s \o w \o o
  BY <1>2, ConcatEmptySeq
<1> QED
  BY <1>3, <1>4

------------------------------------------------------------------------------
(* Types.                                                                  *)

LEMMA InitType == Init => TypeOK
<1> SUFFICES ASSUME Init PROVE TypeOK
  OBVIOUS
<1> USE ServiceAssumption
<1>1. <<>> \in AtMostOne /\ <<>> \in Seq(Events)
  BY DEF AtMostOne
<1>2. broker \in Brokers /\ [at |-> "none"] \in Posts
  BY DEF Init, Brokers, Posts
<1> QED
  BY <1>1, <1>2 DEF Init, TypeOK

LEMMA PostsType ==
  ASSUME TypeOK, NEW p \in Poster,
         \/ \E f \in Family : NewEvent(p, f)
         \/ InsertEvent(p) \/ Notify(p)
  PROVE  TypeOK'
<1> USE ServiceAssumption
<1>0. post[p] \in Posts
  BY DEF TypeOK
<1>n. [at |-> "none"] \in Posts
  BY DEF Posts
<1>1. CASE \E f \in Family : NewEvent(p, f)
  <2>1. PICK f \in Family : NewEvent(p, f)
    BY <1>1
  <2>2. [id |-> posted + 1, family |-> f, at |-> clock] \in Events
    BY <2>1 DEF NewEvent, TypeOK, Events
  <2>3. [at |-> "insert",
         event |-> [id |-> posted + 1, family |-> f, at |-> clock]] \in Posts
    BY <2>2 DEF Posts
  <2>4. posted' \in 0..MaxEvents
    BY <2>1 DEF NewEvent, TypeOK
  <2>5. post' \in [Poster -> Posts]
    BY <2>1, <2>3 DEF NewEvent, TypeOK
  <2> QED
    BY <2>1, <2>4, <2>5 DEF NewEvent, TypeOK, streams
<1>2. CASE InsertEvent(p)
  <2>1. post[p].event \in Events
    BY <1>0, <1>2 DEF InsertEvent, Posts
  <2>2. [post[p] EXCEPT !.at = "notify"] \in Posts
    BY <1>0, <1>2 DEF InsertEvent, Posts
  <2>3. post' \in [Poster -> Posts] /\ events' \subseteq Events
    BY <1>2, <1>n, <2>1, <2>2 DEF InsertEvent, TypeOK
  <2>4. post[p].event.family \in Family
    BY <2>1 DEF Events
  <2>5. sent' \subseteq Events /\ raced' \subseteq Family
    BY <1>2, <2>1, <2>4 DEF InsertEvent, RacedBy, TypeOK
  <2> QED
    BY <1>2, <2>3, <2>5 DEF InsertEvent, TypeOK, streams
<1>3. CASE Notify(p)
  <2>1. post[p].event \in Events
    BY <1>0, <1>3 DEF Notify, Posts
  <2>2. <<post[p].event>> \in AtMostOne
    BY <2>1 DEF AtMostOne
  <2>3. notifier' \in AtMostOne /\ sent' \subseteq Events
    BY <1>3, <2>1, <2>2 DEF Notify, TypeOK
  <2>4. post[p].event.family \in Family
    BY <2>1 DEF Events
  <2>5. raced' \subseteq Family
    BY <1>3, <2>4 DEF Notify, RacedBy, TypeOK
  <2>6. post' \in [Poster -> Posts]
    BY <1>3, <1>n DEF Notify, TypeOK
  <2> QED
    BY <1>3, <2>3, <2>5, <2>6 DEF Notify, TypeOK, streams
<1> QED
  BY <1>1, <1>2, <1>3

LEMMA BrokerType ==
  ASSUME TypeOK, Broker
  PROVE  TypeOK'
<1> USE ServiceAssumption DEF posts, streams
<1>1. ASSUME NEW c \in Client, Register(c)
      PROVE  TypeOK'
  <2>1. Len(broadcast) \in Nat
    BY LenProperties DEF TypeOK
  <2> QED
    BY <1>1, <2>1 DEF Register, TypeOK
<1>2. ASSUME NEW c \in Client, Unregister(c)
      PROVE  TypeOK'
  BY <1>2 DEF Unregister, TypeOK
<1>3. CASE TakeEvent
  <2>1. PICK e \in Events : notifier = <<e>>
    BY <1>3 DEF TakeEvent, TypeOK, AtMostOne
  <2>2. Head(notifier) = e
    BY <2>1
  <2>3. broker' \in Brokers
    BY <1>3, <2>2 DEF TakeEvent, TypeOK, Brokers
  <2>4. broadcast' \in Seq(Events)
    BY <1>3, <2>2, AppendProperties DEF TakeEvent, TypeOK
  <2>5. notifier' \in AtMostOne
    BY <1>3 DEF TakeEvent, AtMostOne
  <2> QED
    BY <1>3, <2>3, <2>4, <2>5 DEF TakeEvent, TypeOK
<1>4. CASE NextClient
  <2>1. broker.event \in Events /\ broker.rest \subseteq Client
    BY <1>4 DEF NextClient, TypeOK, Brokers
  <2>2. broker' \in Brokers
    BY <1>4, <2>1 DEF NextClient, Brokers
  <2> QED
    BY <1>4, <2>2 DEF NextClient, TypeOK
<1>5. CASE Send
  <2>1. broker.event \in Events /\ broker.rest \subseteq Client
    BY <1>5 DEF Send, TypeOK, Brokers
  <2>2. broker' \in Brokers
    BY <1>5, <2>1 DEF Send, Brokers
  <2>3. <<broker.event>> \in AtMostOne
    BY <2>1 DEF AtMostOne
  <2> QED
    BY <1>5, <2>2, <2>3 DEF Send, TypeOK
<1> QED
  BY <1>1, <1>2, <1>3, <1>4, <1>5 DEF Broker

LEMMA StreamType ==
  ASSUME TypeOK, NEW c \in Client,
         Connect(c) \/ Leave(c) \/ CloseConnection(c) \/ Receive(c) \/ Write(c)
  PROVE  TypeOK'
<1> USE ServiceAssumption DEF posts, streams
<1>1. <<>> \in AtMostOne
  BY DEF AtMostOne
<1>2. CASE Connect(c) \/ Leave(c) \/ CloseConnection(c)
  BY <1>2 DEF Connect, Leave, CloseConnection, TypeOK
<1>3. CASE Receive(c)
  BY <1>1, <1>3 DEF Receive, TypeOK
<1>4. CASE Write(c)
  <2>1. seen[c] \o writing[c] \in Seq(Events)
    BY AtMostOneIsSeq, ConcatProperties DEF TypeOK
  <2>2. seen' \in [Client -> Seq(Events)]
    BY <1>4, <2>1 DEF Write, TypeOK
  <2> QED
    BY <1>1, <1>4, <2>2 DEF Write, TypeOK
<1> QED
  BY <1>2, <1>3, <1>4

LEMMA NextType == TypeOK /\ [Next]_vars => TypeOK'
<1> SUFFICES ASSUME TypeOK, [Next]_vars PROVE TypeOK'
  OBVIOUS
<1>1. CASE Tick
  BY <1>1, ServiceAssumption DEF Tick, TypeOK, streams
<1>2. CASE UNCHANGED vars
  BY <1>2 DEF vars, TypeOK
<1> QED
  BY <1>1, <1>2, PostsType, BrokerType, StreamType DEF Next

\* The table, the channels, the broker and the streams keep their types: no
\* channel ever holds more than the one event it has room for (sse.go:30-43,
\* 76-87), for any number of clients, families and requests.
THEOREM TypeCorrect == Spec => []TypeOK
<1>1. Init => TypeOK
  BY InitType
<1>2. TypeOK /\ [Next]_vars => TypeOK'
  BY NextType
<1> QED
  BY <1>1, <1>2, PTL DEF Spec

------------------------------------------------------------------------------
(* What a client is owed.                                                  *)

LEMMA GaplessIsNoGaps == NoGaps <=> \A c \in Client : Gapless(c)
BY DEF NoGaps, Gapless, Held, Since

\* Steps of others leave what a client holds and is owed.
LEMMA Frame ==
  ASSUME NEW c \in Client, Gapless(c),
         conn'[c] = "open" => conn[c] = "open", left \subseteq left',
         seen'[c] = seen[c], writing'[c] = writing[c], chan'[c] = chan[c],
         OnItsWay(c)' = OnItsWay(c),
         broadcast' = broadcast, joined'[c] = joined[c]
  PROVE  Gapless(c)'
BY DEF Gapless, Held, Since

LEMMA InitInv == Init => Inv
<1> SUFFICES ASSUME Init PROVE Inv
  OBVIOUS
<1>1. TypeOK
  BY InitType
<1>2. Linked /\ Ranges
  BY DEF Init, Linked, Ranges
<1>3. NoGaps
  BY DEF Init, NoGaps
<1> QED
  BY <1>1, <1>2, <1>3 DEF Inv

LEMMA PostsInv ==
  ASSUME Inv, UNCHANGED <<clients, broker, streams, broadcast, joined>>
  PROVE  Linked' /\ Ranges' /\ NoGaps'
BY DEF Inv, Linked, Ranges, NoGaps, OnItsWay, streams

LEMMA RegisterInv ==
  ASSUME Inv, NEW c \in Client, Register(c)
  PROVE  Linked' /\ Ranges' /\ NoGaps'
<1> USE DEF Inv, Register, posts
<1>1. Len(broadcast) \in Nat /\ joined' \in [Client -> Nat]
  BY LenProperties DEF TypeOK
<1>2. Linked'
  BY <1>1 DEF Linked, TypeOK
<1>3. Ranges'
  BY DEF Ranges
<1>4. ASSUME NEW d \in Client PROVE Gapless(d)'
  <2>1. OnItsWay(d)' = <<>> /\ OnItsWay(d) = <<>>
    BY DEF OnItsWay
  <2>2. CASE d = c
    <3>1. seen'[d] = <<>> /\ writing'[d] = <<>> /\ chan'[d] = <<>>
      BY <2>2 DEF Linked
    <3>2. Held(d)' = <<>>
      BY <2>1, <3>1 DEF Held
    <3>3. joined'[d] = Len(broadcast) /\ broadcast' = broadcast
      BY <2>2 DEF TypeOK
    <3>4. Since(d)' = <<>>
      BY <1>1, <3>3, SubSeqEmpty DEF Since
    <3> QED
      BY <3>2, <3>4 DEF Gapless
  <2>3. CASE d # c
    BY <2>1, <2>3, GaplessIsNoGaps, Frame DEF TypeOK
  <2> QED
    BY <2>2, <2>3
<1> QED
  BY <1>2, <1>3, <1>4 DEF NoGaps, Gapless, Held, Since

LEMMA UnregisterInv ==
  ASSUME Inv, NEW c \in Client, Unregister(c)
  PROVE  Linked' /\ Ranges' /\ NoGaps'
<1> USE DEF Inv, Unregister, posts
<1>1. Linked'
  BY DEF Linked, TypeOK
<1>2. Ranges'
  BY DEF Ranges
<1>3. NoGaps'
  BY DEF NoGaps, OnItsWay, TypeOK
<1> QED
  BY <1>1, <1>2, <1>3

LEMMA TakeEventInv ==
  ASSUME Inv, TakeEvent
  PROVE  Linked' /\ Ranges' /\ NoGaps'
<1> USE DEF Inv, TakeEvent, posts, streams
<1>1. PICK e \in Events : notifier = <<e>>
  BY DEF TypeOK, AtMostOne
<1>2. broadcast \in Seq(Events) /\ broadcast' = Append(broadcast, e)
  BY <1>1 DEF TypeOK
<1>3. Len(broadcast) \in Nat /\ Len(broadcast') = Len(broadcast) + 1
  BY <1>2, AppendProperties, LenProperties
<1>4. Linked'
  BY <1>3 DEF Linked, TypeOK
<1>5. Ranges'
  BY DEF Ranges
<1>6. ASSUME NEW c \in Client PROVE Gapless(c)'
  <2> SUFFICES ASSUME conn[c] = "open", c \notin left
               PROVE  Held(c)' = Since(c)'
    BY DEF Gapless
  <2>1. OnItsWay(c) = <<>> /\ OnItsWay(c)' = <<e>>
    BY <1>1 DEF OnItsWay, Linked
  <2>2. /\ seen[c] \in Seq(Events) /\ writing[c] \in Seq(Events)
        /\ chan[c] \in Seq(Events)
    BY AtMostOneIsSeq DEF TypeOK
  <2>3. seen[c] \o writing[c] \o chan[c] \in Seq(Events)
    BY <2>2, ConcatProperties
  <2>4. Held(c) = seen[c] \o writing[c] \o chan[c]
    BY <2>1, <2>3, ConcatEmptySeq DEF Held
  <2>5. Held(c)' = Held(c) \o <<e>>
    BY <2>1, <2>4 DEF Held
  <2>6. Held(c) = Since(c)
    BY GaplessIsNoGaps DEF Gapless
  <2>7. joined[c] \in Nat /\ joined[c] <= Len(broadcast)
    BY DEF Linked, TypeOK
  <2>8. Since(c)' = Since(c) \o <<e>>
    BY <1>2, <2>7, SinceGrows DEF Since
  <2> QED
    BY <2>5, <2>6, <2>8
<1> QED
  BY <1>4, <1>5, <1>6 DEF NoGaps, Gapless, Held, Since

LEMMA NextClientInv ==
  ASSUME Inv, NextClient
  PROVE  Linked' /\ Ranges' /\ NoGaps'
<1> USE DEF Inv, NextClient, posts, streams
<1>1. Linked'
  BY DEF Linked
<1>2. Ranges'
  BY DEF Ranges
<1>3. ASSUME NEW c \in Client PROVE OnItsWay(c)' = OnItsWay(c)
  BY DEF OnItsWay
<1>4. NoGaps'
  BY <1>3 DEF NoGaps
<1> QED
  BY <1>1, <1>2, <1>4

LEMMA SendInv ==
  ASSUME Inv, Send
  PROVE  Linked' /\ Ranges' /\ NoGaps'
<1> USE DEF Inv, Send, posts
<1>0. broker.to \in clients /\ broker.to \notin broker.rest
  BY DEF Ranges
<1>1. Linked'
  BY <1>0 DEF Linked, TypeOK
<1>2. Ranges'
  BY DEF Ranges
<1>3. ASSUME NEW c \in Client PROVE Gapless(c)'
  <2>1. CASE c = broker.to
    <3>1. OnItsWay(c) = <<broker.event>> /\ OnItsWay(c)' = <<>>
      BY <1>0, <2>1 DEF OnItsWay
    <3>2. chan[c] = <<>> /\ chan'[c] = <<broker.event>>
      BY <2>1 DEF TypeOK
    <3>3. broker.event \in Events
      BY DEF TypeOK, Brokers
    <3>4. seen[c] \in Seq(Events) /\ writing[c] \in Seq(Events)
      BY AtMostOneIsSeq DEF TypeOK
    <3>5. <<broker.event>> \in Seq(Events) /\ <<>> \in Seq(Events)
      BY <3>3
    <3>a. seen[c] \o writing[c] \o <<>> \o <<broker.event>>
            = seen[c] \o writing[c] \o <<broker.event>> \o <<>>
      BY <3>4, <3>5, MovesOn
    <3>b. Held(c) = seen[c] \o writing[c] \o <<>> \o <<broker.event>>
      BY <3>1, <3>2 DEF Held
    <3>c. Held(c)' = seen[c] \o writing[c] \o <<broker.event>> \o <<>>
      BY <3>1, <3>2 DEF Held
    <3>6. Held(c)' = Held(c)
      BY <3>a, <3>b, <3>c
    <3> QED
      BY <3>6, GaplessIsNoGaps DEF Gapless, Since
  <2>2. CASE c # broker.to
    <3>1. OnItsWay(c)' = OnItsWay(c)
      BY <2>2 DEF OnItsWay
    <3>2. chan'[c] = chan[c]
      BY <2>2 DEF TypeOK
    <3> QED
      BY <3>1, <3>2, GaplessIsNoGaps, Frame
  <2> QED
    BY <2>1, <2>2
<1> QED
  BY <1>1, <1>2, <1>3 DEF NoGaps, Gapless, Held, Since

LEMMA ConnectionInv ==
  ASSUME Inv, NEW c \in Client, Connect(c) \/ Leave(c) \/ CloseConnection(c)
  PROVE  Linked' /\ Ranges' /\ NoGaps'
<1> USE DEF Inv, Connect, Leave, CloseConnection, posts
<1>1. Linked'
  BY DEF Linked, TypeOK
<1>2. Ranges'
  BY DEF Ranges
<1>3. ASSUME NEW d \in Client PROVE OnItsWay(d)' = OnItsWay(d)
  BY DEF OnItsWay
<1>4. NoGaps'
  BY <1>3 DEF NoGaps, TypeOK
<1> QED
  BY <1>1, <1>2, <1>4

LEMMA ReceiveInv ==
  ASSUME Inv, NEW c \in Client, Receive(c)
  PROVE  Linked' /\ Ranges' /\ NoGaps'
<1> USE DEF Inv, Receive, posts
<1>1. Linked'
  BY DEF Linked, TypeOK
<1>2. Ranges'
  BY DEF Ranges
<1>3. ASSUME NEW d \in Client PROVE Gapless(d)'
  <2>1. OnItsWay(d)' = OnItsWay(d)
    BY DEF OnItsWay
  <2>2. CASE d = c
    <3>1. /\ writing[d] = <<>> /\ writing'[d] = chan[d] /\ chan'[d] = <<>>
      BY <2>2 DEF TypeOK
    <3>2. seen[d] \in Seq(Events) /\ chan[d] \in Seq(Events)
      BY AtMostOneIsSeq DEF TypeOK
    <3>3. OnItsWay(d) \in Seq(Events)
      BY WayIsSeq
    <3>a. seen[d] \o <<>> \o chan[d] \o OnItsWay(d)
            = seen[d] \o chan[d] \o <<>> \o OnItsWay(d)
      BY <3>2, <3>3, MovesOn
    <3>b. Held(d) = seen[d] \o <<>> \o chan[d] \o OnItsWay(d)
      BY <3>1 DEF Held
    <3>c. Held(d)' = seen[d] \o chan[d] \o <<>> \o OnItsWay(d)
      BY <2>1, <3>1 DEF Held
    <3>4. Held(d)' = Held(d)
      BY <3>a, <3>b, <3>c
    <3> QED
      BY <3>4, GaplessIsNoGaps DEF Gapless, Since
  <2>3. CASE d # c
    BY <2>1, <2>3, GaplessIsNoGaps, Frame DEF TypeOK
  <2> QED
    BY <2>2, <2>3
<1> QED
  BY <1>1, <1>2, <1>3 DEF NoGaps, Gapless, Held, Since

LEMMA WriteInv ==
  ASSUME Inv, NEW c \in Client, Write(c)
  PROVE  Linked' /\ Ranges' /\ NoGaps'
<1> USE DEF Inv, Write, posts
<1>1. Linked'
  BY DEF Linked, TypeOK
<1>2. Ranges'
  BY DEF Ranges
<1>3. ASSUME NEW d \in Client PROVE Gapless(d)'
  <2>1. OnItsWay(d)' = OnItsWay(d)
    BY DEF OnItsWay
  <2>2. CASE d = c /\ c \notin left
    <3>1. writing'[d] = <<>> /\ seen'[d] = seen[d] \o writing[d]
      BY <2>2 DEF TypeOK
    <3>2. /\ seen[d] \in Seq(Events) /\ writing[d] \in Seq(Events)
          /\ chan[d] \in Seq(Events)
      BY AtMostOneIsSeq DEF TypeOK
    <3>3. OnItsWay(d) \in Seq(Events)
      BY WayIsSeq
    <3>a. (seen[d] \o writing[d]) \o <<>> \o chan[d] \o OnItsWay(d)
            = seen[d] \o writing[d] \o chan[d] \o OnItsWay(d)
      BY <3>2, <3>3, MovesOn
    <3>b. Held(d)' = (seen[d] \o writing[d]) \o <<>> \o chan[d] \o OnItsWay(d)
      BY <2>1, <3>1 DEF Held
    <3>4. Held(d)' = Held(d)
      BY <3>a, <3>b DEF Held
    <3> QED
      BY <3>4, GaplessIsNoGaps DEF Gapless, Since
  <2>3. CASE d = c /\ c \in left
    BY <2>3 DEF Gapless
  <2>4. CASE d # c
    BY <2>1, <2>4, GaplessIsNoGaps, Frame DEF TypeOK
  <2> QED
    BY <2>2, <2>3, <2>4
<1> QED
  BY <1>1, <1>2, <1>3 DEF NoGaps, Gapless, Held, Since

LEMMA NextInv == Inv /\ [Next]_vars => Inv'
<1> SUFFICES ASSUME Inv, [Next]_vars PROVE Inv'
  OBVIOUS
<1>0. TypeOK'
  BY NextType DEF Inv
<1>1. CASE Tick
  BY <1>0, <1>1, PostsInv DEF Inv, Tick
<1>2. ASSUME NEW p \in Poster,
             \/ \E f \in Family : NewEvent(p, f)
             \/ InsertEvent(p) \/ Notify(p)
      PROVE  Inv'
  BY <1>0, <1>2, PostsInv DEF Inv, NewEvent, InsertEvent, Notify
<1>3. CASE Broker
  BY <1>0, <1>3, RegisterInv, UnregisterInv, TakeEventInv, NextClientInv, SendInv
  DEF Inv, Broker
<1>4. ASSUME NEW c \in Client,
             Connect(c) \/ Leave(c) \/ CloseConnection(c) \/ Receive(c) \/ Write(c)
      PROVE  Inv'
  BY <1>0, <1>4, ConnectionInv, ReceiveInv, WriteInv DEF Inv
<1>5. CASE UNCHANGED vars
  BY <1>0, <1>5, PostsInv DEF Inv, vars, streams
<1> QED
  BY <1>1, <1>2, <1>3, <1>4, <1>5 DEF Next

\* A connected client gets each event that was broadcast since it was
\* registered, once and in order, whoever else joins, leaves or reads slowly
\* (sse.go:49-67, stream.go:51-63): for any number of clients and events.
THEOREM StreamsHaveNoGaps == Spec => []NoGaps
<1>1. Init => Inv
  BY InitInv
<1>2. Inv /\ [Next]_vars => Inv'
  BY NextInv
<1>3. Inv => NoGaps
  BY DEF Inv
<1> QED
  BY <1>1, <1>2, <1>3, PTL DEF Spec

------------------------------------------------------------------------------
(* The answer of GET.                                                      *)

\* What a POST is done with is stored, and what is stored a POST is done with,
\* or about to give to Notify.
Stored ==
  /\ sent \subseteq events
  /\ \A p \in Poster : post[p].at = "notify" => post[p].event \in events
  /\ \A e \in events :
       e \in sent \/ \E p \in Poster : post[p].at = "notify" /\ post[p].event = e

Queued ==
  /\ \A i \in DOMAIN notifier : notifier[i] \in sent
  /\ \A i \in DOMAIN broadcast : broadcast[i] \in sent

NoneLater(e, S) == \A d \in S : d.family = e.family => d.at <= e.at

\* The last event of the family f, in the channel n of the broker or else in
\* what was broadcast, s, is the latest of those in S.
EndsInLatest(f, n, s, S) ==
  \/ n # <<>> /\ n[1].family = f /\ NoneLater(n[1], S)
  \/ /\ n # <<>> => n[1].family # f
     /\ \A i \in DOMAIN s : IsLastOf(f, s, i) => NoneLater(s[i], S)

Answered ==
  /\ Stored /\ Queued
  /\ \A f \in Family \ raced : EndsInLatest(f, notifier, broadcast, sent)

LEMMA InitAnswered == Init => Answered
BY DEF Init, Answered, Stored, Queued, EndsInLatest

\* An event of another family, queued or not.
LEMMA OtherSent ==
  ASSUME NEW f, NEW n, NEW s, NEW S, NEW e, e.family # f, EndsInLatest(f, n, s, S)
  PROVE  EndsInLatest(f, n, s, S \cup {e})
<1>1. ASSUME NEW x, x.family = f, NoneLater(x, S) PROVE NoneLater(x, S \cup {e})
  BY <1>1 DEF NoneLater
<1>2. CASE n # <<>> /\ n[1].family = f /\ NoneLater(n[1], S)
  BY <1>1, <1>2 DEF EndsInLatest
<1>3. CASE /\ n # <<>> => n[1].family # f
           /\ \A i \in DOMAIN s : IsLastOf(f, s, i) => NoneLater(s[i], S)
  BY <1>1, <1>3 DEF EndsInLatest, IsLastOf
<1> QED
  BY <1>2, <1>3 DEF EndsInLatest

LEMMA OtherQueued ==
  ASSUME NEW f, NEW s, NEW S, NEW e, e.family # f, EndsInLatest(f, <<>>, s, S)
  PROVE  EndsInLatest(f, <<e>>, s, S)
BY DEF EndsInLatest

\* An event that comes late changes nothing.
LEMMA LateSent ==
  ASSUME NEW f, NEW n, NEW s, NEW S, NEW e, NEW late \in S,
         e.at \in Nat, \A d \in S : d.at \in Nat,
         n # <<>> => n[1] \in S, \A i \in DOMAIN s : s[i] \in S,
         e.family = f, late.family = f, late.at > e.at, EndsInLatest(f, n, s, S)
  PROVE  EndsInLatest(f, n, s, S \cup {e})
<1>1. ASSUME NEW x \in S, x.family = f, NoneLater(x, S)
      PROVE  NoneLater(x, S \cup {e})
  <2>1. late.at <= x.at /\ x.at \in Nat /\ late.at \in Nat
    BY <1>1 DEF NoneLater
  <2>2. e.at <= x.at
    BY <2>1
  <2> QED
    BY <1>1, <2>2 DEF NoneLater
<1>2. CASE n # <<>> /\ n[1].family = f /\ NoneLater(n[1], S)
  BY <1>1, <1>2 DEF EndsInLatest
<1>3. CASE /\ n # <<>> => n[1].family # f
           /\ \A i \in DOMAIN s : IsLastOf(f, s, i) => NoneLater(s[i], S)
  BY <1>1, <1>3 DEF EndsInLatest, IsLastOf
<1> QED
  BY <1>2, <1>3 DEF EndsInLatest

\* The broker takes the event from its channel.
LEMMA Taken ==
  ASSUME NEW f, NEW E, NEW x \in E, NEW s \in Seq(E), NEW S,
         EndsInLatest(f, <<x>>, s, S)
  PROVE  EndsInLatest(f, <<>>, Append(s, x), S)
<1> DEFINE t == Append(s, x)
<1>1. /\ Len(s) \in Nat /\ DOMAIN s = 1..Len(s) /\ DOMAIN t = 1..(Len(s) + 1)
      /\ t[Len(s) + 1] = x
      /\ \A i \in 1..Len(s) : t[i] = s[i]
  BY AppendProperties, LenProperties
<1>2. <<x>> # <<>> /\ <<x>>[1] = x
  OBVIOUS
<1> HIDE DEF t
<1>3. ASSUME NEW i \in DOMAIN t, IsLastOf(f, t, i) PROVE NoneLater(t[i], S)
  <2>1. CASE x.family = f
    <3>1. i = Len(s) + 1
      BY <1>1, <1>3, <2>1 DEF IsLastOf
    <3> QED
      BY <1>1, <1>2, <2>1, <3>1 DEF EndsInLatest
  <2>2. CASE x.family # f
    <3>1. i \in DOMAIN s /\ t[i] = s[i]
      BY <1>1, <1>3, <2>2 DEF IsLastOf
    <3>2. IsLastOf(f, s, i)
      BY <1>1, <1>3, <3>1 DEF IsLastOf
    <3> QED
      BY <1>2, <2>2, <3>1, <3>2 DEF EndsInLatest
  <2> QED
    BY <2>1, <2>2
<1> QED
  BY <1>3 DEF EndsInLatest, t

LEMMA InsertStored ==
  ASSUME TypeOK, Stored, NEW p \in Poster, InsertEvent(p)
  PROVE  Stored'
<1>0. post[p].at = "insert"
  BY DEF InsertEvent
<1>1. CASE /\ events' = events \cup {post[p].event}
           /\ post' = [post EXCEPT ![p].at = "notify"] /\ sent' = sent
  <2>1. /\ post'[p].at = "notify" /\ post'[p].event = post[p].event
        /\ \A q \in Poster \ {p} : post'[q] = post[q]
    <3>1. post[p] \in [at : {"insert", "notify"}, event : Events]
      BY DEF TypeOK, Posts, InsertEvent
    <3> QED
      BY <1>1, <3>1 DEF TypeOK
  <2>2. \A q \in Poster : post'[q].at = "notify" => post'[q].event \in events'
    BY <1>1, <2>1 DEF Stored
  <2>3. ASSUME NEW e \in events'
        PROVE  e \in sent \/ \E q \in Poster : post'[q].at = "notify" /\ post'[q].event = e
    <3>1. CASE e = post[p].event
      BY <2>1, <3>1
    <3>2. CASE e \in events
      <4>1. CASE e \in sent
        BY <4>1
      <4>2. ASSUME NEW q \in Poster, post[q].at = "notify", post[q].event = e
            PROVE  post'[q].at = "notify" /\ post'[q].event = e
        BY <1>0, <2>1, <4>2
      <4> QED
        BY <3>2, <4>1, <4>2 DEF Stored
    <3> QED
      BY <1>1, <3>1, <3>2
  <2>4. sent \subseteq events'
    BY <1>1 DEF Stored
  <2> QED
    BY <1>1, <2>2, <2>3, <2>4 DEF Stored
<1>2. CASE /\ post' = [post EXCEPT ![p] = [at |-> "none"]]
           /\ \/ events' = events /\ sent' = sent
              \/ /\ events' = events \cup {post[p].event}
                 /\ sent' = sent \cup {post[p].event}
  <2>1. /\ post'[p].at # "notify" /\ post[p].at # "notify"
        /\ \A q \in Poster \ {p} : post'[q] = post[q]
    BY <1>0, <1>2 DEF TypeOK
  <2>2. CASE events' = events /\ sent' = sent
    BY <2>1, <2>2 DEF Stored
  <2>3. CASE /\ events' = events \cup {post[p].event}
             /\ sent' = sent \cup {post[p].event}
    BY <2>1, <2>3 DEF Stored
  <2> QED
    BY <1>2, <2>2, <2>3
<1> QED
  BY <1>1, <1>2 DEF InsertEvent

\* An event that is stored and not queued: it is late, or its family has raced.
LEMMA NotQueued ==
  ASSUME TypeOK, Answered, NEW e \in Events,
         NEW f \in Family, f \notin RacedBy(e, FALSE)
  PROVE  EndsInLatest(f, notifier, broadcast, sent \cup {e})
<1>1. /\ \A x \in Events : x.at \in Nat
      /\ sent \subseteq Events
  BY ServiceAssumption DEF Events, TypeOK
<1>2. f \notin raced /\ (f = e.family => Late(e))
  BY DEF RacedBy
<1>3. EndsInLatest(f, notifier, broadcast, sent)
  BY <1>2 DEF Answered
<1>4. CASE f # e.family
  BY <1>3, <1>4, OtherSent
<1>5. CASE f = e.family
  <2>1. PICK late \in sent : late.family = e.family /\ late.at > e.at
    BY <1>2, <1>5 DEF Late
  <2>2. /\ notifier # <<>> => notifier[1] \in sent
        /\ \A i \in DOMAIN broadcast : broadcast[i] \in sent
    BY DEF TypeOK, AtMostOne, Answered, Queued
  <2>3. \A d \in sent : d.at \in Nat
    BY <1>1
  <2> QED
    BY <1>1, <1>3, <1>5, <2>1, <2>2, <2>3, LateSent
<1> QED
  BY <1>4, <1>5

LEMMA NotifyAnswered ==
  ASSUME TypeOK, Answered, NEW p \in Poster, Notify(p)
  PROVE  Answered'
<1>0. PICK e \in Events : e = post[p].event
  BY DEF TypeOK, Posts, Notify
<1>1. /\ \A x \in Events : x.at \in Nat /\ x.family \in Family
      /\ sent \subseteq Events
  BY ServiceAssumption DEF Events, TypeOK
<1>2. /\ sent' = sent \cup {e} /\ events' = events /\ broadcast' = broadcast
      /\ e \in events
      /\ notifier' = IF notifier = <<>> THEN <<e>> ELSE notifier
      /\ raced' = RacedBy(e, notifier = <<>>)
  BY <1>0 DEF Notify, Answered, Stored
<1>3. Stored'
  <2>1. /\ post'[p].at # "notify"
        /\ \A q \in Poster \ {p} : post'[q] = post[q]
    BY DEF TypeOK, Notify
  <2> QED
    BY <1>0, <1>2, <2>1 DEF Answered, Stored
<1>4. Queued'
  BY <1>2 DEF Answered, Queued
<1>6. ASSUME NEW f \in Family, f \notin RacedBy(e, notifier = <<>>)
      PROVE  EndsInLatest(f, IF notifier = <<>> THEN <<e>> ELSE notifier,
                          broadcast, sent \cup {e})
  <2>1. CASE notifier # <<>>
    <3>1. f \notin RacedBy(e, FALSE)
      BY <1>6, <2>1
    <3> QED
      BY <2>1, <3>1, NotQueued
  <2>2. CASE f # e.family /\ notifier = <<>>
    <3>1. f \notin raced
      BY <1>6, <2>2 DEF RacedBy
    <3>2. EndsInLatest(f, <<>>, broadcast, sent \cup {e})
      BY <2>2, <3>1, OtherSent DEF Answered
    <3>3. EndsInLatest(f, <<e>>, broadcast, sent \cup {e})
      BY <2>2, <3>2, OtherQueued
    <3> QED
      BY <2>2, <3>3
  <2>3. CASE f = e.family /\ notifier = <<>>
    <3>1. ~Late(e)
      BY <1>6, <2>3 DEF RacedBy
    <3>2. NoneLater(e, sent \cup {e})
      BY <1>1, <3>1 DEF Late, NoneLater
    <3>3. EndsInLatest(f, <<e>>, broadcast, sent \cup {e})
      BY <2>3, <3>2 DEF EndsInLatest
    <3> QED
      BY <2>3, <3>3
  <2> QED
    BY <2>1, <2>2, <2>3
<1>7. \A f \in Family \ raced' : EndsInLatest(f, notifier', broadcast', sent')
  BY <1>2, <1>6
<1> QED
  BY <1>3, <1>4, <1>7 DEF Answered

LEMMA TakeEventAnswered ==
  ASSUME TypeOK, Answered, TakeEvent
  PROVE  Answered'
<1>1. PICK x \in Events : notifier = <<x>>
  BY DEF TypeOK, AtMostOne, TakeEvent
<1>2. /\ notifier' = <<>> /\ broadcast' = Append(broadcast, x)
      /\ raced' = raced /\ sent' = sent
  BY <1>1 DEF TakeEvent, posts
<1>3. Stored'
  BY DEF TakeEvent, posts, Answered, Stored
<1>4. Queued'
  <2>1. x \in sent
    BY <1>1 DEF Answered, Queued
  <2>2. broadcast \in Seq(Events)
    BY DEF TypeOK
  <2>3. \A i \in DOMAIN broadcast' : broadcast'[i] \in sent
    BY <1>2, <2>1, <2>2, AppendProperties, LenProperties DEF Answered, Queued
  <2> QED
    BY <1>2, <2>3 DEF Queued
<1>5. ASSUME NEW f \in Family \ raced
      PROVE  EndsInLatest(f, <<>>, Append(broadcast, x), sent)
  <2>1. EndsInLatest(f, <<x>>, broadcast, sent)
    BY <1>1 DEF Answered
  <2> QED
    BY <2>1, Taken DEF TypeOK
<1> QED
  BY <1>2, <1>3, <1>4, <1>5 DEF Answered

LEMMA NextAnswered == TypeOK /\ Answered /\ [Next]_vars => Answered'
<1>1. SUFFICES ASSUME TypeOK, Answered, [Next]_vars PROVE Answered'
  OBVIOUS
<1>2. ASSUME NEW p \in Poster, NEW f \in Family, NewEvent(p, f) PROVE Answered'
  <2>1. /\ post'[p].at # "notify" /\ post[p].at # "notify"
        /\ \A q \in Poster \ {p} : post'[q] = post[q]
    BY <1>1, <1>2 DEF TypeOK, NewEvent
  <2> QED
    BY <1>1, <1>2, <2>1 DEF Answered, Stored, Queued, NewEvent
<1>3. ASSUME NEW p \in Poster, InsertEvent(p) PROVE Answered'
  <2>1. Stored'
    BY <1>1, <1>3, InsertStored DEF Answered
  <2>2. notifier' = notifier /\ broadcast' = broadcast /\ sent \subseteq sent'
    BY <1>3 DEF InsertEvent
  <2>3. Queued'
    BY <1>1, <2>2 DEF Answered, Queued
  <2>4. CASE UNCHANGED <<sent, raced>>
    BY <1>1, <2>1, <2>2, <2>3, <2>4 DEF Answered
  <2>5. CASE ~UNCHANGED <<sent, raced>>
    <3>1. PICK e \in Events : e = post[p].event
      BY <1>1, <1>3 DEF InsertEvent, TypeOK, Posts
    <3>2. raced' = RacedBy(e, FALSE) /\ sent' = sent \cup {e}
      BY <1>3, <2>5, <3>1 DEF InsertEvent
    <3>3. \A f \in Family \ raced' : EndsInLatest(f, notifier', broadcast', sent')
      BY <1>1, <2>2, <3>2, NotQueued
    <3> QED
      BY <2>1, <2>3, <3>3 DEF Answered
  <2> QED
    BY <2>4, <2>5
<1>4. ASSUME NEW p \in Poster, Notify(p) PROVE Answered'
  BY <1>1, <1>4, NotifyAnswered
<1>5. CASE TakeEvent
  BY <1>1, <1>5, TakeEventAnswered
<1>6. CASE UNCHANGED <<events, post, sent, notifier, broadcast, raced>>
  BY <1>1, <1>6 DEF Answered, Stored, Queued
<1> QED
  BY <1>1, <1>2, <1>3, <1>4, <1>5, <1>6
  DEF Next, vars, Tick, Broker, posts, Register, Unregister, NextClient, Send,
      Connect, Leave, CloseConnection, Receive, Write

\* The last event of a family in the part of a sequence that a client has got
\* is the last one of the sequence.
LEMMA LastOfTheRest ==
  ASSUME NEW E, NEW s \in Seq(E), NEW f, NEW m \in Nat, m <= Len(s),
         NEW i \in DOMAIN SubSeq(s, m + 1, Len(s)),
         IsLastOf(f, SubSeq(s, m + 1, Len(s)), i)
  PROVE  \E j \in DOMAIN s :
           s[j] = SubSeq(s, m + 1, Len(s))[i] /\ IsLastOf(f, s, j)
<1> DEFINE t == SubSeq(s, m + 1, Len(s))
<1>1. /\ Len(s) \in Nat /\ DOMAIN s = 1..Len(s)
  BY LenProperties
<1>2. /\ DOMAIN t = 1..(Len(s) - m)
      /\ \A k \in 1..(Len(s) - m) : t[k] = s[m + k]
  BY <1>1, SubSeqProperties, LenProperties
<1> SUFFICES \E j \in DOMAIN s : s[j] = t[i] /\ IsLastOf(f, s, j)
  OBVIOUS
<1>3. i \in DOMAIN t /\ IsLastOf(f, t, i)
  OBVIOUS
<1> HIDE DEF t
<1>4. m + i \in DOMAIN s /\ s[m + i] = t[i]
  BY <1>1, <1>2, <1>3
<1>5. ASSUME NEW j \in DOMAIN s, j > m + i PROVE s[j].family # f
  <2>1. j - m \in DOMAIN t /\ j - m > i /\ t[j - m] = s[m + (j - m)]
        /\ m + (j - m) = j
    BY <1>1, <1>2, <1>3, <1>5
  <2> QED
    BY <1>3, <2>1 DEF IsLastOf
<1>6. IsLastOf(f, s, m + i)
  BY <1>3, <1>4, <1>5 DEF IsLastOf
<1> QED
  BY <1>4, <1>6

LEMMA QuietAnswer == Inv /\ Answered => ShownIsLatest
<1>1. SUFFICES ASSUME Inv, Answered,
                      \A p \in Poster : post[p].at = "none", notifier = <<>>,
                      broker.at = "select",
                      NEW c \in Client, NEW f \in Family \ raced,
                      conn[c] = "open", c \notin left,
                      NEW i \in DOMAIN (seen[c] \o writing[c] \o chan[c]),
                      IsLastOf(f, seen[c] \o writing[c] \o chan[c], i)
               PROVE  (seen[c] \o writing[c] \o chan[c])[i] \in Latest(f)
  BY DEF ShownIsLatest
<1> DEFINE shown == seen[c] \o writing[c] \o chan[c]
<1>2. shown = SubSeq(broadcast, joined[c] + 1, Len(broadcast))
  <2>1. shown \in Seq(Events)
    BY <1>1, AtMostOneIsSeq, ConcatProperties DEF Inv, TypeOK
  <2>2. OnItsWay(c) = <<>>
    BY <1>1 DEF OnItsWay
  <2>3. shown \o OnItsWay(c) = SubSeq(broadcast, joined[c] + 1, Len(broadcast))
    BY <1>1 DEF Inv, NoGaps
  <2> HIDE DEF shown
  <2> QED
    BY <2>1, <2>2, <2>3, ConcatEmptySeq
<1>3. /\ broadcast \in Seq(Events) /\ joined[c] \in Nat
      /\ joined[c] <= Len(broadcast)
  BY <1>1 DEF Inv, TypeOK, Linked
<1>4. i \in DOMAIN shown /\ IsLastOf(f, shown, i)
  BY <1>1
<1> SUFFICES shown[i] \in Latest(f)
  BY <1>1
<1> HIDE DEF shown
<1>5. PICK j \in DOMAIN broadcast : broadcast[j] = shown[i] /\ IsLastOf(f, broadcast, j)
  BY <1>2, <1>3, <1>4, LastOfTheRest
<1>6. PICK e \in Events : e = broadcast[j]
  BY <1>3, <1>5, ElementOfSeq, LenProperties
<1>7. NoneLater(e, sent) /\ e \in sent /\ e.family = f
  <2>1. EndsInLatest(f, <<>>, broadcast, sent)
    BY <1>1 DEF Answered
  <2> QED
    BY <1>5, <1>6, <2>1, <1>1 DEF EndsInLatest, Answered, Queued, IsLastOf
<1>8. events = sent
  BY <1>1 DEF Answered, Stored
<1>9. \A d \in events : d \in Events /\ d.at \in Nat /\ e.at \in Nat
  BY <1>1, <1>6, ServiceAssumption DEF Inv, TypeOK, Events
<1> QED
  BY <1>5, <1>6, <1>7, <1>8, <1>9 DEF Latest, NoneLater

\* Once all is quiet, the last status of a family that a connected client was
\* shown is the one that GET answers, or one of the same second, unless a later
\* event was stored and not streamed, or came too soon (status/service.go:201-249,
\* events.go:100-118): for any number of clients, families and requests.
THEOREM ShownAlwaysLatest == Spec => []ShownIsLatest
<1>1. Init => Inv /\ Answered
  BY InitInv, InitAnswered
<1>2. Inv /\ Answered /\ [Next]_vars => (Inv /\ Answered)'
  BY NextInv, NextAnswered DEF Inv
<1>3. Inv /\ Answered => ShownIsLatest
  BY QuietAnswer
<1> QED
  BY <1>1, <1>2, <1>3, PTL DEF Spec
==============================================================================
