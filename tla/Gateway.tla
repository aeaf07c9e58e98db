------------------------------- MODULE Gateway -------------------------------
(***************************************************************************)
(* One direction of the link between two swarms: agents put messages into  *)
(* the inbox of their gateway (src/swarm/agents/gateway.py), its agent     *)
(* loop routes them to a send queue, a client thread packs them into VJR   *)
(* frames (src/swarm/protocol/vjr.py) on a TCP connection, reader threads  *)
(* of the other gateway drain the frames into the inboxes of its agents.   *)
(* Connections break and are made again.  Inboxes are those of             *)
(* SharedMailbox: a queue until two senders meet in inbox_send, from then  *)
(* on a set of messages that may or may not come out.                      *)
(***************************************************************************)
EXTENDS Integers, Sequences, SequencesExt, FiniteSets

CONSTANTS
  Types,        \* message types: alerts (700), proposals (701), ...
  Routes,       \* the route table: message type -> agent of the other swarm
  Slots,        \* messages an inbox holds
  FrameLen,     \* pieces of a frame: its header, then its body
  MaxSends,     \* bound: the messages sent
  MaxConns      \* bound: the connections opened; the last one never breaks

ASSUME GatewayAssumption ==
  /\ Slots \in Nat \ {0} /\ FrameLen \in Nat \ {0, 1}
  /\ MaxSends \in Nat /\ MaxConns \in Nat \ {0}
  /\ DOMAIN Routes \subseteq Types

Agents == {Routes[t] : t \in DOMAIN Routes}
Conns == 1..MaxConns
Messages == [type : Types, n : 1..MaxSends]
None == <<>>

\* A frame: the header, which gives the length, and the pieces of the body.
Frame(m) == [p \in 1..FrameLen |-> <<m, p>>]

VARIABLES
  sent,        \* the number of messages sent so far
  calls,       \* the number of agents inside inbox_send on the gateway's inbox
  inbox,       \* the gateway's inbox, as long as no two calls met in it
  met,         \* whether two have
  stray,       \* the messages in it that may come out, since then
  queue,       \* the send queue of the peer
  pending,     \* the message the client thread holds across reconnects
  conn,        \* the client thread's connection, 0 for none
  opened,      \* the number of connections opened
  cut,         \* connections that no longer carry anything
  wire,        \* by connection: pieces under way
  buf,         \* by connection: the reader thread's buffer
  draining,    \* connections whose reader thread is in drain
  todo,        \* by connection: messages drained and not yet delivered
  delivering,  \* connections whose reader thread is inside inbox_send
  inboxes,     \* the inboxes of the other swarm's agents, while no sends met
  upset,       \* the agents in whose inbox two sends met
  strays,      \* by agent: the messages that may come out, since then
  taken,       \* by agent: the messages consumed, in order
  lost,        \* messages dropped at a full inbox or with a connection
  unrouted     \* messages no route was found for

sender == <<sent, calls, inbox, met, stray>>
client == <<queue, pending, conn, opened>>
network == <<cut, wire>>
readers == <<buf, draining, todo, delivering>>
receiver == <<inboxes, upset, strays, taken>>
vars == <<sender, client, network, readers, receiver, lost, unrouted>>

Init ==
  /\ sent = 0 /\ calls = 0 /\ inbox = <<>> /\ met = FALSE /\ stray = {}
  /\ queue = <<>> /\ pending = None /\ conn = 0 /\ opened = 0
  /\ cut = {} /\ wire = [c \in Conns |-> <<>>]
  /\ buf = [c \in Conns |-> <<>>] /\ draining = {} /\ todo = [c \in Conns |-> <<>>]
  /\ delivering = {}
  /\ inboxes = [a \in Agents |-> <<>>] /\ taken = [a \in Agents |-> <<>>]
  /\ upset = {} /\ strays = [a \in Agents |-> {}]
  /\ lost = {} /\ unrouted = {}
------------------------------------------------------------------------------
(* The sending swarm. *)

\* Mutant: an inbox takes one message more than it has slots.
HasRoomLate(box) == Len(box) <= Slots

\* inbox_send: a full inbox refuses the message.
HasRoom(box) == Len(box) < Slots

\* An agent of the swarm calls inbox_send.  If another one is inside the call,
\* what is in the inbox may be overwritten, skipped or left behind.
SendBegin ==
  /\ sent + calls < MaxSends
  /\ calls' = calls + 1 /\ met' = (met \/ calls > 0)
  /\ inbox' = IF met' THEN <<>> ELSE inbox
  /\ stray' = IF met' THEN stray \union ToSet(inbox) ELSE stray
  /\ UNCHANGED <<sent, client, network, readers, receiver, lost, unrouted>>

\* The call ends: the probe on an edge, the mutator with a better genome.
\* Neither looks at what send_msg returns before it remembers it as sent.  It is
\* False if the inbox is full, and may be if the receiver is storing its head.
Send(t) ==
  /\ calls > 0
  /\ calls' = calls - 1 /\ sent' = sent + 1
  /\ LET m == [type |-> t, n |-> sent + 1]
     IN \/ lost' = lost \union {m} /\ UNCHANGED <<inbox, stray>>
        \/ /\ ~met /\ HasRoom(inbox)
           /\ inbox' = Append(inbox, m) /\ UNCHANGED <<stray, lost>>
        \/ met /\ stray' = stray \union {m} /\ UNCHANGED <<inbox, lost>>
  /\ UNCHANGED <<met, client, network, readers, receiver, unrouted>>

Route(m) ==
  IF m.type \in DOMAIN Routes
  THEN queue' = Append(queue, m) /\ UNCHANGED unrouted
  ELSE unrouted' = unrouted \union {m} /\ UNCHANGED queue

\* The gateway's agent loop takes a message from the inbox and routes it.
OnMessage ==
  /\ inbox # <<>>
  /\ inbox' = Tail(inbox)
  /\ Route(Head(inbox))
  /\ UNCHANGED <<sent, calls, met, stray>>
  /\ UNCHANGED <<pending, conn, opened, network, readers, receiver, lost>>

\* The same where calls met: any message may be the one that comes out.  (So
\* may a cleared envelope; its type, 0, has no route, and it is left out.)
OnStray ==
  /\ \E m \in stray : stray' = stray \ {m} /\ Route(m)
  /\ UNCHANGED <<sent, calls, inbox, met>>
  /\ UNCHANGED <<pending, conn, opened, network, readers, receiver, lost>>

Connect ==
  /\ conn = 0 /\ opened < MaxConns
  /\ opened' = opened + 1 /\ conn' = opened + 1
  /\ UNCHANGED <<sender, queue, pending, network, readers, receiver, lost, unrouted>>

\* What the client thread sends next: the envelope it holds, else the queue's.
Ready == conn # 0 /\ (pending # None \/ queue # <<>>)
Outgoing == IF pending # None THEN pending ELSE Head(queue)
Remaining == IF pending # None THEN queue ELSE Tail(queue)

\* Mutant: an envelope is kept for a retry although it was sent.
SendFrameKeep ==
  /\ Ready
  /\ pending' = Outgoing /\ queue' = Remaining
  /\ IF conn \in cut THEN lost' = lost \union {Outgoing} /\ UNCHANGED wire
     ELSE wire' = [wire EXCEPT ![conn] = @ \o Frame(Outgoing)] /\ UNCHANGED lost
  /\ UNCHANGED <<sender, conn, opened, cut, readers, receiver, unrouted>>

\* sendall returns: the system has accepted the whole frame, also when the
\* connection is dead and nobody has noticed.
SendFrame ==
  /\ Ready
  /\ pending' = None /\ queue' = Remaining
  /\ IF conn \in cut THEN lost' = lost \union {Outgoing} /\ UNCHANGED wire
     ELSE wire' = [wire EXCEPT ![conn] = @ \o Frame(Outgoing)] /\ UNCHANGED lost
  /\ UNCHANGED <<sender, conn, opened, cut, readers, receiver, unrouted>>

\* Mutant: the envelope of a failed send is not kept.
SendFailsDrop ==
  /\ Ready /\ conn < MaxConns
  /\ pending' = None /\ queue' = Remaining /\ conn' = 0
  /\ cut' = cut \union {conn}
  /\ \E k \in 0..(FrameLen - 1) :
       wire' = IF conn \in cut THEN wire
               ELSE [wire EXCEPT ![conn] = @ \o SubSeq(Frame(Outgoing), 1, k)]
  /\ UNCHANGED <<sender, opened, readers, receiver, lost, unrouted>>

\* Mutant: the envelope of a failed send goes to the end of the queue.
SendFailsRequeue ==
  /\ Ready /\ conn < MaxConns
  /\ pending' = None /\ queue' = Append(Remaining, Outgoing) /\ conn' = 0
  /\ cut' = cut \union {conn}
  /\ \E k \in 0..(FrameLen - 1) :
       wire' = IF conn \in cut THEN wire
               ELSE [wire EXCEPT ![conn] = @ \o SubSeq(Frame(Outgoing), 1, k)]
  /\ UNCHANGED <<sender, opened, readers, receiver, lost, unrouted>>

\* sendall raises: not all of the frame was accepted, some of it may have been.
\* The envelope is kept for the next connection.
SendFails ==
  /\ Ready /\ conn < MaxConns
  /\ pending' = Outgoing /\ queue' = Remaining /\ conn' = 0
  /\ cut' = cut \union {conn}
  /\ \E k \in 0..(FrameLen - 1) :
       wire' = IF conn \in cut THEN wire
               ELSE [wire EXCEPT ![conn] = @ \o SubSeq(Frame(Outgoing), 1, k)]
  /\ UNCHANGED <<sender, opened, readers, receiver, lost, unrouted>>
------------------------------------------------------------------------------
(* The network. *)

\* The messages whose last piece is among these pieces.
Whole(pieces) == {pieces[p][1] : p \in {q \in DOMAIN pieces : pieces[q][2] = FrameLen}}

\* A connection breaks: what has not arrived by then never will.
Break(c) ==
  /\ c \in 1..opened /\ c < MaxConns /\ c \notin cut
  /\ cut' = cut \union {c}
  /\ \E k \in 0..Len(wire[c]) :
       /\ wire' = [wire EXCEPT ![c] = SubSeq(@, 1, k)]
       /\ lost' = lost \union Whole(SubSeq(wire[c], k + 1, Len(wire[c])))
  /\ UNCHANGED <<sender, client, readers, receiver, unrouted>>
------------------------------------------------------------------------------
(* The receiving gateway. *)

\* unpack_one: the message at the head of b, or none, and the pieces consumed.
\* A first piece that is no header is skipped, a frame whose body is not the
\* one its header announces is dropped.
UnpackOne(b) ==
  CASE b = <<>> -> <<None, 0>>
    [] b # <<>> /\ b[1][2] # 1 -> <<None, 1>>
    [] b # <<>> /\ b[1][2] = 1 /\ Len(b) < FrameLen -> <<None, 0>>
    [] OTHER -> LET m == b[1][1]
                IN <<IF SubSeq(b, 1, FrameLen) = Frame(m) THEN m ELSE None, FrameLen>>

\* The reader thread of c receives some of what has arrived and calls drain.
Receive(c) ==
  /\ wire[c] # <<>> /\ c \notin draining /\ todo[c] = <<>>
  /\ \E k \in 1..Len(wire[c]) :
       /\ wire' = [wire EXCEPT ![c] = SubSeq(@, k + 1, Len(@))]
       /\ buf' = [buf EXCEPT ![c] = @ \o SubSeq(wire[c], 1, k)]
  /\ draining' = draining \union {c}
  /\ UNCHANGED <<sender, client, cut, todo, delivering, receiver, lost, unrouted>>

\* A round of drain, which ends when unpack_one has nothing for it.
Drain(c) ==
  /\ c \in draining
  /\ LET one == UnpackOne(buf[c])
     IN IF one[2] = 0 THEN draining' = draining \ {c} /\ UNCHANGED <<buf, todo>>
        ELSE /\ buf' = [buf EXCEPT ![c] = SubSeq(@, one[2] + 1, Len(@))]
             /\ todo' = IF one[1] = None THEN todo
                        ELSE [todo EXCEPT ![c] = Append(@, one[1])]
             /\ UNCHANGED draining
  /\ UNCHANGED <<sender, client, network, delivering, receiver, lost, unrouted>>

\* The agent the reader thread of c has a message for.
Target(c) == Routes[Head(todo[c]).type]

\* Two sends meet in the inbox of agent a.
Meet(a) ==
  /\ upset' = upset \union {a}
  /\ inboxes' = [inboxes EXCEPT ![a] = <<>>]
  /\ strays' = [strays EXCEPT ![a] = @ \union ToSet(inboxes[a])]

\* _deliver_inbound calls inbox_send on the agent's inbox, where the reader
\* thread of an earlier connection may be at it.
DeliverBegin(c) ==
  /\ c \notin draining \union delivering /\ todo[c] # <<>>
  /\ delivering' = delivering \union {c}
  /\ IF \E d \in delivering : Target(d) = Target(c) THEN Meet(Target(c))
     ELSE UNCHANGED <<inboxes, upset, strays>>
  /\ UNCHANGED <<sender, client, network, buf, draining, todo, taken, lost, unrouted>>

\* A sender outside the link meets a delivery: the reader thread of another
\* swarm's link, an agent with the same narrator (the aggregator's has all three).
MeetOther(a) ==
  /\ a \notin upset /\ \E c \in delivering : Target(c) = a
  /\ Meet(a)
  /\ UNCHANGED <<sender, client, network, readers, taken, lost, unrouted>>

\* inbox_send returns: the message is in the agent's inbox, or dropped.
Deliver(c) ==
  /\ c \in delivering
  /\ delivering' = delivering \ {c} /\ todo' = [todo EXCEPT ![c] = Tail(@)]
  /\ LET m == Head(todo[c])
         a == Target(c)
     IN \/ lost' = lost \union {m} /\ UNCHANGED <<inboxes, strays>>
        \/ /\ a \notin upset /\ HasRoom(inboxes[a])
           /\ inboxes' = [inboxes EXCEPT ![a] = Append(@, m)] /\ UNCHANGED <<strays, lost>>
        \/ /\ a \in upset
           /\ strays' = [strays EXCEPT ![a] = @ \union {m}] /\ UNCHANGED <<inboxes, lost>>
  /\ UNCHANGED <<sender, client, network, buf, draining, upset, taken, unrouted>>

\* The agent takes a message: the sink counts and persists it, the probe
\* adopts the genome.
Consume(a) ==
  /\ inboxes[a] # <<>>
  /\ inboxes' = [inboxes EXCEPT ![a] = Tail(@)]
  /\ taken' = [taken EXCEPT ![a] = Append(@, Head(inboxes[a]))]
  /\ UNCHANGED <<sender, client, network, readers, upset, strays, lost, unrouted>>

\* The same where sends met.
ConsumeStray(a) ==
  /\ \E m \in strays[a] :
       /\ strays' = [strays EXCEPT ![a] = @ \ {m}]
       /\ taken' = [taken EXCEPT ![a] = Append(@, m)]
  /\ UNCHANGED <<sender, client, network, readers, inboxes, upset, lost, unrouted>>

Next ==
  \/ SendBegin \/ \E t \in Types : Send(t)
  \/ OnMessage \/ OnStray \/ Connect \/ SendFrame \/ SendFails
  \/ \E c \in Conns : \/ Break(c) \/ Receive(c) \/ Drain(c)
                      \/ DeliverBegin(c) \/ Deliver(c)
  \/ \E a \in Agents : MeetOther(a) \/ Consume(a) \/ ConsumeStray(a)

\* The agent loops and the threads keep running; the client thread sends or
\* fails, it does not wait for ever.  Nothing makes an agent send, a connection
\* break, or a message come out of an inbox where sends met.
Fairness ==
  /\ WF_vars(OnMessage) /\ WF_vars(Connect) /\ WF_vars(SendFrame \/ SendFails)
  /\ \A c \in Conns : /\ WF_vars(Receive(c)) /\ WF_vars(Drain(c))
                      /\ WF_vars(DeliverBegin(c)) /\ WF_vars(Deliver(c))
  /\ \A a \in Agents : WF_vars(Consume(a))

Spec == Init /\ [][Next]_vars /\ Fairness
------------------------------------------------------------------------------
\* The messages that get past the gateway's route table, and pieces of them.
Routed == {m \in Messages : m.type \in DOMAIN Routes}
Pieces == Routed \X (1..FrameLen)

TypeOK ==
  /\ sent \in 0..MaxSends /\ calls \in 0..(MaxSends - sent) /\ met \in BOOLEAN
  /\ inbox \in Seq(Messages) /\ Len(inbox) <= Slots /\ stray \subseteq Messages
  /\ queue \in Seq(Routed) /\ pending \in Routed \union {None}
  /\ opened \in 0..MaxConns /\ conn \in 0..opened /\ cut \subseteq 1..opened
  /\ wire \in [Conns -> Seq(Pieces)] /\ buf \in [Conns -> Seq(Pieces)]
  /\ draining \subseteq Conns /\ todo \in [Conns -> Seq(Routed)]
  /\ delivering \subseteq {c \in Conns \ draining : todo[c] # <<>>}
  /\ inboxes \in [Agents -> Seq(Routed)] /\ taken \in [Agents -> Seq(Routed)]
  /\ \A a \in Agents : Len(inboxes[a]) <= Slots
  /\ upset \subseteq Agents /\ strays \in [Agents -> SUBSET Routed]
  /\ lost \subseteq Messages /\ unrouted \subseteq Messages

\* What connection c has accepted and the reader has not unpacked.
Stream(c) == buf[c] \o wire[c]

Boxes ==
  ({"inbox", "stray", "queue", "pending", "lost", "unrouted"} \X {0})
  \union ({"stream", "todo"} \X Conns) \union ({"inboxes", "strays", "taken"} \X Agents)

\* The messages in a box, each by its number and its place there; on a
\* connection a message is where the last piece of its frame is.
Numbered(s) == {<<k, s[k].n>> : k \in DOMAIN s}
Lasts(s) == {<<k, s[k][1].n>> : k \in {q \in DOMAIN s : s[q][2] = FrameLen}}
Named(S) == {<<m.type, m.n>> : m \in S}
Entries(b) ==
  CASE b[1] = "inbox" -> Numbered(inbox)
    [] b[1] = "stray" -> Named(stray)
    [] b[1] = "queue" -> Numbered(queue)
    [] b[1] = "pending" -> Named({pending} \ {None})
    [] b[1] = "stream" -> Lasts(Stream(b[2]))
    [] b[1] = "todo" -> Numbered(todo[b[2]])
    [] b[1] = "inboxes" -> Numbered(inboxes[b[2]])
    [] b[1] = "strays" -> Named(strays[b[2]])
    [] b[1] = "taken" -> Numbered(taken[b[2]])
    [] b[1] = "lost" -> Named(lost)
    [] OTHER -> Named(unrouted)

Places(n) == UNION {{<<b, e>> : e \in {f \in Entries(b) : f[2] = n}} : b \in Boxes}

\* However often connections break and sends are retried, and whoever meets in
\* an inbox, a message is in exactly one place: none is doubled, and none is gone
\* that was not refused by an inbox, dropped with a connection or for want of a
\* route, or put into an inbox where sends met.
OnePlace == \A n \in 1..sent : Cardinality(Places(n)) = 1

\* What an agent has taken or will take, in order.
Arrived(a) == taken[a] \o inboxes[a]

Ordered(s) == \A i, j \in DOMAIN s : i < j => s[i].n < s[j].n

\* What waits at the sending gateway, the envelope kept for a retry in front.
Waiting == (IF pending = None THEN <<>> ELSE <<pending>>) \o queue \o inbox

\* A retry does not change the order of sending, and as long as no connection
\* has broken and no sends have met in the gateway's inbox or the agent's,
\* messages arrive in that order, so the last alert the narrator has is the
\* latest.
InOrder ==
  ~met => /\ Ordered(Waiting)
          /\ cut = {} => \A a \in Agents \ upset : Ordered(Arrived(a))

Settled(n) ==
  \E t \in Types : LET m == [type |-> t, n |-> n]
                   IN \/ m \in lost \union unrouted
                      \/ \E a \in Agents : m \in ToSet(taken[a])

\* In an inbox where sends met, for good or for now.
Astray(n) ==
  \E t \in Types : LET m == [type |-> t, n |-> n]
                   IN m \in stray \/ \E a \in Agents : m \in strays[a]

\* Every message is taken in the end, refused or dropped, or not routable,
\* unless it stays in an inbox where sends met; one that met a failing connection
\* goes over the next, one that came out of such an inbox goes on its way.
Settles == \A n \in 1..MaxSends : sent >= n ~> [](Settled(n) \/ Astray(n))

\* Also across a reconnection messages arrive in order: they do not, the reader
\* of the old connection may still hold some when the new one delivers.
InOrderAlways == ~met => \A a \in Agents \ upset : Ordered(Arrived(a))
==============================================================================
