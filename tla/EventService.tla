----------------------------- MODULE EventService -----------------------------
(***************************************************************************)
(* The event service: the operator posts events of the validation and of   *)
(* the reconciles of an environment. A POST stores the event and hands the *)
(* status it makes to the broker, which streams it to the clients; GET     *)
(* computes the status from the stored events.                             *)
(*                                                                         *)
(* The broker is one goroutine that takes new clients, clients that leave  *)
(* and events from three channels. Each client has a channel of its own    *)
(* with room for one event, a handler that writes what it receives to the  *)
(* connection, for ever, and a goroutine that waits for the connection to  *)
(* close. A connection that comes back is a new client.                    *)
(***************************************************************************)
EXTENDS Naturals, Sequences, FiniteSets

CONSTANTS
  Client,
  Family,       \* validation, reconcile
  Poster,       \* requests of the operator and of its webhooks
  MaxEvents,    \* bound on the POSTs
  MaxClock      \* bound on the seconds that pass

ASSUME ServiceAssumption == MaxEvents \in Nat /\ MaxClock \in Nat

VARIABLES
  clock,       \* in seconds, as created_at is kept
  posted,      \* number of POSTs
  events,      \* the events of the environment in the table
  post,        \* post[p]: the POST of p
  sent,        \* stored events whose POST is over, given to Notify or not
  notifier,    \* the channel of the broker, with room for one event
  clients,     \* clients that the broker sends to
  broker,      \* the goroutine of the broker: its event and whom it has left
  conn,        \* conn[c]: where the connection of c is
  left,        \* clients whose connection is closed: the context is done
  chan,        \* chan[c]: the channel of c, with room for one event
  writing,     \* writing[c]: the event that the handler of c writes
  seen,        \* seen[c]: the events that c has got
  broadcast,   \* the events that the broker has taken from its channel
  joined,      \* joined[c]: their number when c was registered
  raced        \* families whose latest event was not the last one broadcast

vars == <<clock, posted, events, post, sent, notifier, clients, broker, conn,
          left, chan, writing, seen, broadcast, joined, raced>>
posts == <<clock, posted, events, post, sent>>
streams == <<conn, left, chan, writing, seen>>

Events == [id : 1..MaxEvents, family : Family, at : 0..MaxClock]
Posts == [at : {"none"}] \cup [at : {"insert", "notify"}, event : Events]
Brokers ==
  [at : {"select"}]
    \cup [at : {"range"}, event : Events, rest : SUBSET Client]
    \cup [at : {"send"}, event : Events, rest : SUBSET Client, to : Client]
AtMostOne == {<<>>} \cup {<<e>> : e \in Events}

TypeOK ==
  /\ clock \in 0..MaxClock /\ posted \in 0..MaxEvents
  /\ events \subseteq Events /\ sent \subseteq Events
  /\ post \in [Poster -> Posts]
  /\ notifier \in AtMostOne /\ clients \subseteq Client /\ broker \in Brokers
  /\ conn \in [Client -> {"none", "joining", "open", "closing", "gone"}]
  /\ left \subseteq Client
  /\ chan \in [Client -> AtMostOne] /\ writing \in [Client -> AtMostOne]
  /\ seen \in [Client -> Seq(Events)] /\ broadcast \in Seq(Events)
  /\ joined \in [Client -> Nat] /\ raced \subseteq Family

Init ==
  /\ clock = 0 /\ posted = 0 /\ events = {} /\ sent = {}
  /\ post = [p \in Poster |-> [at |-> "none"]]
  /\ notifier = <<>> /\ clients = {} /\ broker = [at |-> "select"]
  /\ conn = [c \in Client |-> "none"] /\ left = {}
  /\ chan = [c \in Client |-> <<>>] /\ writing = [c \in Client |-> <<>>]
  /\ seen = [c \in Client |-> <<>>] /\ broadcast = <<>>
  /\ joined = [c \in Client |-> 0] /\ raced = {}

------------------------------------------------------------------------------
(* POST events.                                                            *)

Tick ==
  /\ clock < MaxClock
  /\ clock' = clock + 1
  /\ UNCHANGED <<posted, events, post, sent, notifier, clients, broker,
                 streams, broadcast, joined, raced>>

\* NewEvent stamps the event before it is stored.
NewEvent(p, f) ==
  /\ post[p].at = "none" /\ posted < MaxEvents
  /\ posted' = posted + 1
  /\ post' = [post EXCEPT ![p] =
       [at |-> "insert",
        event |-> [id |-> posted', family |-> f, at |-> clock]]]
  /\ UNCHANGED <<clock, events, sent, notifier, clients, broker, streams,
                 broadcast, joined, raced>>

Late(e) == \E d \in sent : d.family = e.family /\ d.at > e.at

\* An event that is late or that is not queued may hide the latest one, until
\* the next is on its way.
RacedBy(e, queued) ==
  IF queued THEN IF Late(e) THEN raced \cup {e.family} ELSE raced \ {e.family}
            ELSE IF Late(e) THEN raced ELSE raced \cup {e.family}

\* The insert fails, or the event is of a team: it is stored with those of the
\* team, but the request panics as no status can be made of it. Or the event is
\* stored and the insert fails all the same, when its answer is lost, or the
\* status cannot be computed: then nobody is told.
InsertEvent(p) ==
  /\ post[p].at = "insert"
  /\ LET e == post[p].event IN
     \/ /\ events' = events \cup {e}
        /\ post' = [post EXCEPT ![p].at = "notify"]
        /\ UNCHANGED <<sent, raced>>
     \/ /\ post' = [post EXCEPT ![p] = [at |-> "none"]]
        /\ UNCHANGED <<events, sent, raced>>
     \/ /\ events' = events \cup {e}
        /\ post' = [post EXCEPT ![p] = [at |-> "none"]]
        /\ raced' = RacedBy(e, FALSE)
        /\ sent' = sent \cup {e}
  /\ UNCHANGED <<clock, posted, notifier, clients, broker, streams, broadcast,
                 joined>>

\* The event is dropped when the channel is full.
Notify(p) ==
  /\ post[p].at = "notify"
  /\ LET e == post[p].event
         queued == notifier = <<>>
     IN  /\ notifier' = IF queued THEN <<e>> ELSE notifier
         /\ raced' = RacedBy(e, queued)
         /\ sent' = sent \cup {e}
  /\ post' = [post EXCEPT ![p] = [at |-> "none"]]
  /\ UNCHANGED <<clock, posted, events, clients, broker, streams, broadcast,
                 joined>>

------------------------------------------------------------------------------
(* The goroutine of the broker.                                            *)

Register(c) ==
  /\ broker.at = "select" /\ conn[c] = "joining"
  /\ clients' = clients \cup {c}
  /\ conn' = [conn EXCEPT ![c] = "open"]
  /\ joined' = [joined EXCEPT ![c] = Len(broadcast)]
  /\ UNCHANGED <<posts, notifier, broker, left, chan, writing, seen, broadcast,
                 raced>>

Unregister(c) ==
  /\ broker.at = "select" /\ conn[c] = "closing"
  /\ clients' = clients \ {c}
  /\ conn' = [conn EXCEPT ![c] = "gone"]
  /\ UNCHANGED <<posts, notifier, broker, left, chan, writing, seen, broadcast,
                 joined, raced>>

TakeEvent ==
  /\ broker.at = "select" /\ notifier # <<>>
  /\ broker' = [at |-> "range", event |-> Head(notifier), rest |-> clients]
  /\ broadcast' = Append(broadcast, Head(notifier))
  /\ notifier' = <<>>
  /\ UNCHANGED <<posts, clients, streams, joined, raced>>

\* The order of a range over a map is not specified.
NextClient ==
  /\ broker.at = "range"
  /\ IF broker.rest = {}
     THEN broker' = [at |-> "select"]
     ELSE \E c \in broker.rest :
            broker' = [at |-> "send", event |-> broker.event, to |-> c,
                       rest |-> broker.rest \ {c}]
  /\ UNCHANGED <<posts, notifier, clients, streams, broadcast, joined, raced>>

\* Mutant of Send: a client whose channel is full is passed over.
SendOrSkip ==
  /\ broker.at = "send"
  /\ chan' = IF chan[broker.to] = <<>>
             THEN [chan EXCEPT ![broker.to] = <<broker.event>>] ELSE chan
  /\ broker' = [at |-> "range", event |-> broker.event, rest |-> broker.rest]
  /\ UNCHANGED <<posts, notifier, clients, conn, left, writing, seen, broadcast,
                 joined, raced>>

\* The broker waits for room in the channel of the client.
Send ==
  /\ broker.at = "send"
  /\ chan[broker.to] = <<>>
  /\ chan' = [chan EXCEPT ![broker.to] = <<broker.event>>]
  /\ broker' = [at |-> "range", event |-> broker.event, rest |-> broker.rest]
  /\ UNCHANGED <<posts, notifier, clients, conn, left, writing, seen, broadcast,
                 joined, raced>>

------------------------------------------------------------------------------
(* The stream of a client.                                                 *)

Connect(c) ==
  /\ conn[c] = "none"
  /\ conn' = [conn EXCEPT ![c] = "joining"]
  /\ UNCHANGED <<posts, notifier, clients, broker, left, chan, writing, seen,
                 broadcast, joined, raced>>

Leave(c) ==
  /\ conn[c] \in {"joining", "open"} /\ c \notin left
  /\ left' = left \cup {c}
  /\ UNCHANGED <<posts, notifier, clients, broker, conn, chan, writing, seen,
                 broadcast, joined, raced>>

\* The goroutine that waits for the context of the request.
CloseConnection(c) ==
  /\ conn[c] = "open" /\ c \in left
  /\ conn' = [conn EXCEPT ![c] = "closing"]
  /\ UNCHANGED <<posts, notifier, clients, broker, left, chan, writing, seen,
                 broadcast, joined, raced>>

\* Mutant of Receive: the handler returns when the client has left.
ReceiveUntilDone(c) ==
  /\ c \notin left
  /\ chan[c] # <<>> /\ writing[c] = <<>>
  /\ writing' = [writing EXCEPT ![c] = chan[c]]
  /\ chan' = [chan EXCEPT ![c] = <<>>]
  /\ UNCHANGED <<posts, notifier, clients, broker, conn, left, seen, broadcast,
                 joined, raced>>

\* The loop of the handler has no end.
Receive(c) ==
  /\ chan[c] # <<>> /\ writing[c] = <<>>
  /\ writing' = [writing EXCEPT ![c] = chan[c]]
  /\ chan' = [chan EXCEPT ![c] = <<>>]
  /\ UNCHANGED <<posts, notifier, clients, broker, conn, left, seen, broadcast,
                 joined, raced>>

\* The client reads, or the write fails because it has left.
Write(c) ==
  /\ writing[c] # <<>>
  /\ seen' = IF c \in left THEN seen
             ELSE [seen EXCEPT ![c] = @ \o writing[c]]
  /\ writing' = [writing EXCEPT ![c] = <<>>]
  /\ UNCHANGED <<posts, notifier, clients, broker, conn, left, chan, broadcast,
                 joined, raced>>

Broker ==
  \/ \E c \in Client : Register(c) \/ Unregister(c)
  \/ TakeEvent \/ NextClient \/ Send

Next ==
  \/ Tick
  \/ \E p \in Poster :
       \/ \E f \in Family : NewEvent(p, f)
       \/ InsertEvent(p) \/ Notify(p)
  \/ Broker
  \/ \E c \in Client :
       Connect(c) \/ Leave(c) \/ CloseConnection(c) \/ Receive(c) \/ Write(c)

\* The goroutines go on, and a client reads what it is sent or leaves. As the
\* events are bounded, the order in which a select takes its cases is not needed.
Fairness ==
  /\ WF_vars(Broker)
  /\ \A c \in Client :
       /\ WF_vars(CloseConnection(c) \/ Receive(c))
       /\ WF_vars(Write(c) \/ (writing[c] # <<>> /\ Leave(c)))

Spec == Init /\ [][Next]_vars /\ Fairness

------------------------------------------------------------------------------
(* Properties.                                                             *)

\* What the broker still has for c.
OnItsWay(c) ==
  IF \/ broker.at = "range" /\ c \in broker.rest
     \/ broker.at = "send" /\ (c \in broker.rest \/ c = broker.to)
  THEN <<broker.event>> ELSE <<>>

\* A client that is connected gets each event that was broadcast since it was
\* registered, once and in order, in spite of the channels that hold one event
\* (sse.go:49-67, stream.go:51-63).
NoGaps ==
  \A c \in Client :
    conn[c] = "open" /\ c \notin left =>
      seen[c] \o writing[c] \o chan[c] \o OnItsWay(c)
        = SubSeq(broadcast, joined[c] + 1, Len(broadcast))

\* Mutant of Latest: the oldest event is put first.
Oldest(f) ==
  LET of == {e \in events : e.family = f}
  IN  {e \in of : \A d \in of : e.at <= d.at}

\* What GET may take for the latest event of the environment: any one of those
\* in the latest second.
Latest(f) ==
  LET of == {e \in events : e.family = f}
  IN  {e \in of : \A d \in of : e.at >= d.at}

IsLastOf(f, s, i) ==
  s[i].family = f /\ \A j \in DOMAIN s : j > i => s[j].family # f

\* Once all is quiet, the last status of a family that a connected client was
\* shown is the one that GET answers, or one of the same second, unless a later
\* event was stored and not streamed, or came too soon (status/service.go:201-249,
\* events.go:100-118).
ShownIsLatest ==
  (\A p \in Poster : post[p].at = "none") /\ notifier = <<>> /\ broker.at = "select" =>
    \A c \in Client, f \in Family \ raced :
      LET shown == seen[c] \o writing[c] \o chan[c]
      IN  conn[c] = "open" /\ c \notin left =>
            \A i \in DOMAIN shown : IsLastOf(f, shown, i) => shown[i] \in Latest(f)

Unserved(c) ==
  conn[c] = "joining" \/ (c \in left /\ conn[c] \in {"open", "closing"})

\* Whoever connects is registered, and whoever has left is forgotten, also when
\* it leaves while the broker waits to send to it: each client does either once
\* (sse.go:45-70, stream.go:37-63).
EveryoneIsServed == []<>(\A c \in Client : ~Unserved(c))
=============================================================================
