---------------------------- MODULE GatewayProofs ----------------------------
(***************************************************************************)
(* Theorems about the link between two swarms: any routes, any number of   *)
(* messages and connections, which break wherever they do, frames of any   *)
(* number of pieces.                                                       *)
(***************************************************************************)
EXTENDS Gateway, FiniteSetTheorems, SequenceTheorems, TLAPS

\* The numbers of the messages in a box.
Second(S) == {e[2] : e \in S}
Held(b) == Second(Entries(b))

\* No two entries have one number; the numbers grow along the places.
Distinct(S) == \A e, f \in S : e[2] = f[2] => e = f
Sorted(S) == \A e, f \in S : e[1] < f[1] => e[2] < f[2]
Before(S, T) == \A x \in S, y \in T : x < y

\* Every message sent is in one box, once.
Apart ==
  /\ \A n \in 1..sent : \E b \in Boxes : n \in Held(b)
  /\ \A b \in Boxes : Held(b) \subseteq 1..sent /\ Distinct(Entries(b))
  /\ \A a, b \in Boxes : a # b => Held(a) \intersect Held(b) = {}

\* The pieces of a connection are frames one after the other, from a header
\* on: around a piece are the others of its frame.
Framed(s) ==
  \A p, q \in DOMAIN s :
    /\ s[p][2] <= p
    /\ p - s[p][2] < q /\ q <= p - s[p][2] + FrameLen
       => s[q] = <<s[p][1], q - p + s[p][2]>>

\* The last frame is whole.
Complete(s) == s # <<>> => s[Len(s)][2] = FrameLen

Framing ==
  \A c \in Conns : Framed(Stream(c)) /\ (c \notin cut => Complete(Stream(c)))

\* How far a message in the box has to go.
Rank(b) ==
  CASE b[1] = "inbox" -> 6
    [] b[1] = "queue" -> 5
    [] b[1] = "pending" -> 4
    [] b[1] = "stream" -> 3
    [] b[1] = "todo" -> 2
    [] b[1] = "inboxes" -> 1
    [] b[1] = "taken" -> 1
    [] OTHER -> 0

\* What is said of the boxes from a pending message back holds as long as no
\* sends have met in the gateway's inbox, of the others as long as no connection
\* has broken either, of an agent's if none have met in its own.
Minded(b) ==
  /\ Rank(b) > 0 /\ ~met
  /\ cut = {} \/ Rank(b) >= 4
  /\ Rank(b) = 1 => b[2] \notin upset

InLine ==
  /\ \A a, b \in Boxes : Minded(a) /\ Rank(a) < Rank(b) => Before(Held(a), Held(b))
  /\ \A b \in Boxes : Minded(b) /\ Rank(b) # 4 => Sorted(Entries(b))
  /\ cut = {} /\ ~met =>
       \A a \in Agents \ upset : Before(Held(<<"taken", a>>), Held(<<"inboxes", a>>))

\* Until a connection breaks there is one, and nothing on those to come.
Opening ==
  /\ cut = {} => conn = opened /\ opened <= 1
  /\ \A c \in Conns : c > opened => Stream(c) = <<>> /\ todo[c] = <<>>

\* A message is astray only where sends have met.
MetFirst ==
  /\ IF met THEN inbox = <<>> ELSE stray = {}
  /\ \A a \in Agents \ upset : strays[a] = {}

Inv == TypeOK /\ Apart /\ Framing /\ Opening /\ InLine /\ MetFirst
------------------------------------------------------------------------------
(* Sequences of messages.                                                    *)

LEMMA MessageNumbers ==
  /\ \A m \in Messages : m.n \in Nat /\ m # None
  /\ Routed \subseteq Messages /\ Seq(Routed) \subseteq Seq(Messages)
<1>1. \A m \in Messages : m.n \in Nat
  BY GatewayAssumption DEF Messages
<1>2. ASSUME NEW m \in Messages PROVE m # None
  <2>1. DOMAIN m = {"type", "n"}
    BY DEF Messages
  <2>2. DOMAIN None = {}
    BY DEF None
  <2>. QED
    BY <2>1, <2>2
<1>3. Routed \subseteq Messages
  BY DEF Routed
<1>. QED
  BY <1>1, <1>2, <1>3

LEMMA NumberedEmpty == Numbered(<<>>) = {} /\ Second({}) = {}
BY DEF Numbered, Second

LEMMA SecondOfNumbered ==
  ASSUME NEW s
  PROVE  Second(Numbered(s)) = {s[k].n : k \in DOMAIN s}
<1>1. ASSUME NEW x \in Second(Numbered(s)) PROVE x \in {s[k].n : k \in DOMAIN s}
  <2>1. PICK e \in Numbered(s) : x = e[2]
    BY DEF Second
  <2>2. PICK k \in DOMAIN s : e = <<k, s[k].n>>
    BY DEF Numbered
  <2>. QED
    BY <2>1, <2>2
<1>2. ASSUME NEW k \in DOMAIN s PROVE s[k].n \in Second(Numbered(s))
  <2>1. <<k, s[k].n>> \in Numbered(s) /\ <<k, s[k].n>>[2] = s[k].n
    BY DEF Numbered
  <2>. QED
    BY <2>1 DEF Second
<1>. QED
  BY <1>1, <1>2

LEMMA SecondOfUnion ==
  ASSUME NEW S, NEW x, NEW y
  PROVE  Second(S \union {<<x, y>>}) = Second(S) \union {y}
<1>1. <<x, y>>[2] = y
  OBVIOUS
<1>. QED
  BY <1>1 DEF Second

\* The head goes, and everything moves one place up.
LEMMA NumberedTail ==
  ASSUME NEW s \in Seq(Messages), s # <<>>, Distinct(Numbered(s))
  PROVE  /\ Head(s) \in Messages /\ Tail(s) \in Seq(Messages)
         /\ Head(s).n \in Second(Numbered(s))
         /\ Second(Numbered(Tail(s))) = Second(Numbered(s)) \ {Head(s).n}
         /\ Distinct(Numbered(Tail(s)))
         /\ Sorted(Numbered(s)) =>
              /\ Sorted(Numbered(Tail(s)))
              /\ Before({Head(s).n}, Second(Numbered(Tail(s))))
<1>0. PICK t : t = Tail(s)
  OBVIOUS
<1>1. /\ Len(s) \in Nat \ {0} /\ Head(s) = s[1] /\ t \in Seq(Messages) /\ DOMAIN s = 1..Len(s)
      /\ DOMAIN t = 1..(Len(s) - 1) /\ \A k \in 1..(Len(s) - 1) : t[k] = s[k + 1]
  BY <1>0
<1>2. Head(s) \in Messages /\ 1 \in DOMAIN s
  BY <1>1
<1>3. ASSUME NEW k \in DOMAIN s PROVE <<k, s[k].n>> \in Numbered(s)
  BY DEF Numbered
<1>4. ASSUME NEW j \in DOMAIN s, NEW k \in DOMAIN s, s[j].n = s[k].n PROVE j = k
  BY <1>3, <1>4 DEF Distinct
<1>5. Second(Numbered(s)) = {s[k].n : k \in DOMAIN s}
  BY SecondOfNumbered
<1>6. Second(Numbered(t)) = {t[k].n : k \in DOMAIN t}
  BY SecondOfNumbered
<1>7. Second(Numbered(t)) = Second(Numbered(s)) \ {Head(s).n}
  <2>1. ASSUME NEW x \in Second(Numbered(t)) PROVE x \in Second(Numbered(s)) \ {Head(s).n}
    <3>1. PICK k \in 1..(Len(s) - 1) : x = t[k].n
      BY <1>1, <1>6
    <3>2. k + 1 \in DOMAIN s /\ k + 1 # 1 /\ x = s[k + 1].n
      BY <1>1, <3>1
    <3>. QED
      BY <1>1, <1>2, <1>4, <1>5, <3>2
  <2>2. ASSUME NEW x \in Second(Numbered(s)) \ {Head(s).n} PROVE x \in Second(Numbered(t))
    <3>1. PICK k \in DOMAIN s : x = s[k].n
      BY <1>5
    <3>2. k - 1 \in 1..(Len(s) - 1) /\ t[k - 1] = s[k]
      BY <1>1, <2>2, <3>1
    <3>. QED
      BY <1>1, <1>6, <3>1, <3>2
  <2>. QED
    BY <2>1, <2>2
<1>8. ASSUME NEW e \in Numbered(t)
      PROVE  \E k \in 1..(Len(s) - 1) : /\ e = <<k, s[k + 1].n>> /\ k + 1 \in DOMAIN s
                                        /\ <<k + 1, s[k + 1].n>> \in Numbered(s)
  <2>1. PICK k \in DOMAIN t : e = <<k, t[k].n>>
    BY DEF Numbered
  <2>2. k \in 1..(Len(s) - 1) /\ k + 1 \in DOMAIN s /\ e = <<k, s[k + 1].n>>
    BY <1>1, <2>1
  <2>. QED
    BY <1>3, <2>2
<1>9. Distinct(Numbered(t))
  <2> SUFFICES ASSUME NEW e \in Numbered(t), NEW f \in Numbered(t), e[2] = f[2] PROVE e = f
    BY DEF Distinct
  <2>1. PICK j \in 1..(Len(s) - 1) : e = <<j, s[j + 1].n>> /\ j + 1 \in DOMAIN s
    BY <1>8
  <2>2. PICK k \in 1..(Len(s) - 1) : f = <<k, s[k + 1].n>> /\ k + 1 \in DOMAIN s
    BY <1>8
  <2>3. j + 1 = k + 1
    BY <1>4, <2>1, <2>2
  <2>. QED
    BY <2>1, <2>2, <2>3
<1>10. ASSUME Sorted(Numbered(s))
       PROVE  Sorted(Numbered(t)) /\ Before({Head(s).n}, Second(Numbered(t)))
  <2>1. ASSUME NEW e \in Numbered(t), NEW f \in Numbered(t), e[1] < f[1] PROVE e[2] < f[2]
    <3>1. PICK j \in 1..(Len(s) - 1) : e = <<j, s[j + 1].n>> /\ <<j + 1, s[j + 1].n>> \in Numbered(s)
      BY <1>8
    <3>2. PICK k \in 1..(Len(s) - 1) : f = <<k, s[k + 1].n>> /\ <<k + 1, s[k + 1].n>> \in Numbered(s)
      BY <1>8
    <3>3. j + 1 < k + 1
      BY <2>1, <3>1, <3>2
    <3>. QED
      BY <1>10, <3>1, <3>2, <3>3 DEF Sorted
  <2>2. ASSUME NEW x \in Second(Numbered(t)) PROVE Head(s).n < x
    <3>1. PICK k \in 1..(Len(s) - 1) : x = t[k].n
      BY <1>1, <1>6
    <3>2. k + 1 \in DOMAIN s /\ 1 < k + 1 /\ x = s[k + 1].n
      BY <1>1, <3>1
    <3>3. <<1, s[1].n>> \in Numbered(s) /\ <<k + 1, s[k + 1].n>> \in Numbered(s)
      BY <1>2, <1>3, <3>2
    <3>. QED
      BY <1>1, <1>10, <3>2, <3>3 DEF Sorted
  <2>. QED
    BY <2>1, <2>2 DEF Sorted, Before
<1>. QED
  BY <1>0, <1>1, <1>2, <1>3, <1>5, <1>7, <1>9, <1>10

\* A message no entry has the number of is put at the end.
LEMMA NumberedAppend ==
  ASSUME NEW s \in Seq(Messages), NEW m \in Messages, Distinct(Numbered(s)),
         m.n \notin Second(Numbered(s))
  PROVE  /\ Second(Numbered(Append(s, m))) = Second(Numbered(s)) \union {m.n}
         /\ Distinct(Numbered(Append(s, m)))
         /\ Sorted(Numbered(s)) /\ Before(Second(Numbered(s)), {m.n}) =>
              Sorted(Numbered(Append(s, m)))
<1>0. PICK t : t = Append(s, m)
  OBVIOUS
<1>1. /\ Len(s) \in Nat /\ DOMAIN s = 1..Len(s) /\ DOMAIN t = 1..(Len(s) + 1)
      /\ t[Len(s) + 1] = m /\ \A k \in DOMAIN s : t[k] = s[k]
  BY <1>0
<1>2. Numbered(t) = Numbered(s) \union {<<Len(s) + 1, m.n>>}
  <2>1. \A k \in DOMAIN t : k \in DOMAIN s \/ k = Len(s) + 1
    BY <1>1
  <2>2. DOMAIN s \subseteq DOMAIN t /\ Len(s) + 1 \in DOMAIN t
    BY <1>1
  <2>. QED
    BY <1>1, <2>1, <2>2 DEF Numbered
<1>3. \A e \in Numbered(s) : e[2] \in Second(Numbered(s)) /\ e[1] < Len(s) + 1
  <2> SUFFICES ASSUME NEW e \in Numbered(s)
               PROVE  e[2] \in Second(Numbered(s)) /\ e[1] < Len(s) + 1
    OBVIOUS
  <2>1. e[2] \in Second(Numbered(s))
    BY DEF Second
  <2>2. PICK k \in DOMAIN s : e = <<k, s[k].n>>
    BY DEF Numbered
  <2>3. e[1] = k /\ k < Len(s) + 1
    BY <1>1, <2>2
  <2>. QED
    BY <2>1, <2>3
<1>4. Second(Numbered(t)) = Second(Numbered(s)) \union {m.n}
  <2>1. Second(Numbered(s) \union {<<Len(s) + 1, m.n>>}) = Second(Numbered(s)) \union {m.n}
    BY SecondOfUnion
  <2>. QED
    BY <1>2, <2>1
<1>5. Distinct(Numbered(t))
  BY <1>2, <1>3 DEF Distinct
<1>6. Sorted(Numbered(s)) /\ Before(Second(Numbered(s)), {m.n}) => Sorted(Numbered(t))
  <2> SUFFICES ASSUME Sorted(Numbered(s)), Before(Second(Numbered(s)), {m.n}),
                      NEW e \in Numbered(t), NEW f \in Numbered(t), e[1] < f[1]
               PROVE  e[2] < f[2]
    BY DEF Sorted
  <2>1. CASE e \in Numbered(s) /\ f \in Numbered(s)
    BY <2>1 DEF Sorted
  <2>2. CASE e \in Numbered(s) /\ f = <<Len(s) + 1, m.n>>
    BY <1>3, <2>2 DEF Before
  <2>3. CASE e = <<Len(s) + 1, m.n>>
    <3>1. f[1] <= Len(s) + 1 /\ f[1] \in Nat
      BY <1>1, <1>2 DEF Numbered
    <3>. QED
      BY <1>1, <2>3, <3>1
  <2>. QED
    BY <1>2, <2>1, <2>2, <2>3
<1>. QED
  BY <1>0, <1>4, <1>5, <1>6
------------------------------------------------------------------------------
(* Sequences of pieces.                                                      *)

LEMMA FrameIs ==
  ASSUME NEW m \in Routed
  PROVE  /\ Frame(m) \in Seq(Pieces) /\ Len(Frame(m)) = FrameLen
         /\ \A j \in 1..FrameLen : Frame(m)[j] = <<m, j>>
<1>1. FrameLen \in Nat /\ \A j \in 1..FrameLen : <<m, j>> \in Pieces
  BY GatewayAssumption DEF Pieces
<1>. QED
  BY <1>1 DEF Frame

\* A beginning of a frame.
LEMMA FramePart ==
  ASSUME NEW m \in Routed, NEW k \in 0..FrameLen
  PROVE  /\ SubSeq(Frame(m), 1, k) \in Seq(Pieces) /\ Len(SubSeq(Frame(m), 1, k)) = k
         /\ \A j \in 1..k : SubSeq(Frame(m), 1, k)[j] = <<m, j>>
<1>0. PICK f : f = Frame(m)
  OBVIOUS
<1>1. f \in Seq(Pieces) /\ Len(f) = FrameLen /\ \A j \in 1..FrameLen : f[j] = <<m, j>>
  BY <1>0, FrameIs
<1>2. FrameLen \in Nat
  BY GatewayAssumption
<1>3. SubSeq(f, 1, k) \in Seq(Pieces) /\ Len(SubSeq(f, 1, k)) = k
  BY <1>1, <1>2
<1>4. \A j \in 1..k : SubSeq(f, 1, k)[j] = f[j]
  BY <1>1, <1>2
<1>. QED
  BY <1>0, <1>1, <1>2, <1>3, <1>4

LEMMA PieceParts ==
  ASSUME NEW s \in Seq(Pieces), NEW p \in DOMAIN s
  PROVE  /\ s[p] \in Pieces /\ s[p][1] \in Routed /\ s[p][2] \in 1..FrameLen
         /\ s[p] = <<s[p][1], s[p][2]>> /\ p \in 1..Len(s) /\ Len(s) \in Nat
BY DEF Pieces

\* Appending the beginning of a frame to whole frames.
LEMMA FrameAppended ==
  ASSUME NEW s \in Seq(Pieces), Framed(s), Complete(s), NEW m \in Routed,
         NEW f \in Seq(Pieces), Len(f) <= FrameLen, \A j \in 1..Len(f) : f[j] = <<m, j>>
  PROVE  /\ Framed(s \o f) /\ (Len(f) = FrameLen => Complete(s \o f))
         /\ Len(f) < FrameLen => Lasts(s \o f) = Lasts(s)
         /\ Len(f) = FrameLen => Lasts(s \o f) = Lasts(s) \union {<<Len(s) + FrameLen, m.n>>}
<1>0. PICK t : t = s \o f
  OBVIOUS
<1>1. /\ Len(s) \in Nat /\ Len(f) \in Nat /\ FrameLen \in Nat /\ FrameLen > 1
      /\ DOMAIN s = 1..Len(s) /\ DOMAIN t = 1..(Len(s) + Len(f)) /\ Len(t) = Len(s) + Len(f)
      /\ t \in Seq(Pieces)
  BY <1>0, GatewayAssumption
<1>2. \A p \in 1..Len(s) : t[p] = s[p]
  BY <1>0, <1>1
<1>3. \A p \in DOMAIN t : p > Len(s) => t[p] = <<m, p - Len(s)>>
  <2> SUFFICES ASSUME NEW p \in DOMAIN t, p > Len(s) PROVE t[p] = <<m, p - Len(s)>>
    OBVIOUS
  <2>1. p - Len(s) \in 1..Len(f) /\ t[p] = f[p - Len(s)]
    BY <1>0, <1>1
  <2>. QED
    BY <2>1
<1>4. ASSUME NEW p \in 1..Len(s)
      PROVE  /\ s[p][2] \in 1..FrameLen /\ p - s[p][2] + FrameLen <= Len(s)
             /\ s[p][2] <= p
  <2>1. s[p][2] \in 1..FrameLen /\ s[Len(s)][2] = FrameLen /\ Len(s) \in DOMAIN s /\ p \in DOMAIN s
    BY <1>1, PieceParts DEF Complete
  <2>2. s[p][2] <= p
    BY <2>1 DEF Framed
  <2>3. ASSUME Len(s) < p - s[p][2] + FrameLen PROVE FALSE
    <3>1. p - s[p][2] < Len(s)
      BY <1>1, <2>1, <2>2
    <3>2. Len(s) <= p - s[p][2] + FrameLen
      BY <1>1, <2>1, <2>3
    <3>3. s[Len(s)] = <<s[p][1], Len(s) - p + s[p][2]>>
      BY <2>1, <3>1, <3>2 DEF Framed
    <3>. QED
      BY <1>1, <2>1, <2>3, <3>3
  <2>. QED
    BY <1>1, <2>1, <2>2, <2>3
<1>5. Framed(t)
  <2> SUFFICES ASSUME NEW p \in DOMAIN t, NEW q \in DOMAIN t
               PROVE  /\ t[p][2] <= p
                      /\ p - t[p][2] < q /\ q <= p - t[p][2] + FrameLen
                         => t[q] = <<t[p][1], q - p + t[p][2]>>
    BY DEF Framed
  <2>1. CASE p \in 1..Len(s) /\ q \in 1..Len(s)
    BY <1>1, <1>2, <2>1 DEF Framed
  <2>2. CASE p \in 1..Len(s) /\ q > Len(s)
    BY <1>1, <1>2, <1>4, <2>2
  <2>3. CASE p > Len(s) /\ q \in 1..Len(s)
    BY <1>1, <1>3, <2>3
  <2>4. CASE p > Len(s) /\ q > Len(s)
    BY <1>1, <1>3, <2>4
  <2>5. (p \in 1..Len(s) \/ p > Len(s)) /\ (q \in 1..Len(s) \/ q > Len(s))
    BY <1>1
  <2>. QED
    BY <2>1, <2>2, <2>3, <2>4, <2>5, Zenon
<1>6. Len(f) = FrameLen => Complete(t)
  <2> SUFFICES ASSUME Len(f) = FrameLen PROVE t[Len(t)][2] = FrameLen
    BY DEF Complete
  <2>1. Len(t) \in DOMAIN t /\ Len(t) > Len(s) /\ Len(t) - Len(s) = FrameLen
    BY <1>1
  <2>. QED
    BY <1>3, <2>1
<1>7. Len(f) < FrameLen => Lasts(t) = Lasts(s)
  <2> SUFFICES ASSUME Len(f) < FrameLen
               PROVE  {q \in DOMAIN t : t[q][2] = FrameLen} = {q \in DOMAIN s : s[q][2] = FrameLen}
    BY <1>1, <1>2 DEF Lasts
  <2>1. ASSUME NEW q \in DOMAIN t, q > Len(s) PROVE t[q][2] # FrameLen
    BY <1>1, <1>3, <2>1
  <2>. QED
    BY <1>1, <1>2, <2>1
<1>8. Len(f) = FrameLen => Lasts(t) = Lasts(s) \union {<<Len(s) + FrameLen, m.n>>}
  <2> SUFFICES ASSUME Len(f) = FrameLen
               PROVE  Lasts(t) = Lasts(s) \union {<<Len(s) + FrameLen, m.n>>}
    OBVIOUS
  <2>1. ASSUME NEW q \in DOMAIN t, q > Len(s)
        PROVE  t[q][2] = FrameLen <=> q = Len(s) + FrameLen
    BY <1>1, <1>3, <2>1
  <2>2. {q \in DOMAIN t : t[q][2] = FrameLen}
          = {q \in DOMAIN s : s[q][2] = FrameLen} \union {Len(s) + FrameLen}
    BY <1>1, <1>2, <2>1
  <2>3. t[Len(s) + FrameLen][1] = m
    BY <1>1, <1>3
  <2>. QED
    BY <1>1, <1>2, <2>2, <2>3 DEF Lasts
<1>. QED
  BY <1>0, <1>5, <1>6, <1>7, <1>8

LEMMA FrameAdded ==
  ASSUME NEW s \in Seq(Pieces), Framed(s), Complete(s), NEW m \in Routed
  PROVE  /\ Frame(m) \in Seq(Pieces) /\ Framed(s \o Frame(m)) /\ Complete(s \o Frame(m))
         /\ Lasts(s \o Frame(m)) = Lasts(s) \union {<<Len(s) + FrameLen, m.n>>}
<1>1. /\ Frame(m) \in Seq(Pieces) /\ Len(Frame(m)) = FrameLen /\ FrameLen \in Nat
      /\ Len(Frame(m)) <= FrameLen /\ \A j \in 1..Len(Frame(m)) : Frame(m)[j] = <<m, j>>
  BY FrameIs, GatewayAssumption
<1>2. PICK f \in Seq(Pieces) : f = Frame(m)
  BY <1>1
<1>3. /\ Framed(s \o f) /\ Complete(s \o f)
      /\ Lasts(s \o f) = Lasts(s) \union {<<Len(s) + FrameLen, m.n>>}
  BY <1>1, <1>2, FrameAppended
<1>. QED
  BY <1>2, <1>3

LEMMA PartAdded ==
  ASSUME NEW s \in Seq(Pieces), Framed(s), Complete(s), NEW m \in Routed,
         NEW k \in 0..(FrameLen - 1)
  PROVE  /\ SubSeq(Frame(m), 1, k) \in Seq(Pieces)
         /\ Framed(s \o SubSeq(Frame(m), 1, k))
         /\ Lasts(s \o SubSeq(Frame(m), 1, k)) = Lasts(s)
<1>1. FrameLen \in Nat /\ k \in 0..FrameLen /\ k < FrameLen
  BY GatewayAssumption
<1>2. PICK f : f = SubSeq(Frame(m), 1, k)
  OBVIOUS
<1>3. f \in Seq(Pieces) /\ Len(f) = k /\ \A j \in 1..k : f[j] = <<m, j>>
  BY <1>1, <1>2, FramePart
<1>4. Len(f) <= FrameLen /\ Len(f) < FrameLen /\ \A j \in 1..Len(f) : f[j] = <<m, j>>
  BY <1>1, <1>3
<1>5. Framed(s \o f) /\ Lasts(s \o f) = Lasts(s)
  BY <1>3, <1>4, FrameAppended
<1>. QED
  BY <1>2, <1>3, <1>5

\* What has arrived of a connection that breaks is framed too.
LEMMA FramedPrefix ==
  ASSUME NEW s \in Seq(Pieces), Framed(s), NEW k \in 0..Len(s)
  PROVE  Framed(SubSeq(s, 1, k))
<1>1. /\ DOMAIN SubSeq(s, 1, k) = 1..k /\ DOMAIN s = 1..Len(s) /\ Len(s) \in Nat
      /\ \A p \in 1..k : SubSeq(s, 1, k)[p] = s[p]
  OBVIOUS
<1>. QED
  BY <1>1 DEF Framed

LEMMA LastsIs ==
  ASSUME NEW s
  PROVE  /\ \A e \in Lasts(s) : \E k \in DOMAIN s : s[k][2] = FrameLen /\ e = <<k, s[k][1].n>>
         /\ \A k \in DOMAIN s :
              s[k][2] = FrameLen => <<k, s[k][1].n>> \in Lasts(s) /\ s[k][1].n \in Second(Lasts(s))
<1>1. ASSUME NEW k \in DOMAIN s, s[k][2] = FrameLen
      PROVE  <<k, s[k][1].n>> \in Lasts(s) /\ s[k][1].n \in Second(Lasts(s))
  <2>1. <<k, s[k][1].n>> \in Lasts(s) /\ <<k, s[k][1].n>>[2] = s[k][1].n
    BY <1>1 DEF Lasts
  <2>. QED
    BY <2>1 DEF Second
<1>2. \A e \in Lasts(s) : \E k \in DOMAIN s : s[k][2] = FrameLen /\ e = <<k, s[k][1].n>>
  BY DEF Lasts
<1>. QED
  BY <1>1, <1>2

LEMMA PartOfDistinct ==
  ASSUME NEW S, NEW T, S \subseteq T
  PROVE  (Distinct(T) => Distinct(S)) /\ (Sorted(T) => Sorted(S)) /\ Second(S) \subseteq Second(T)
BY DEF Distinct, Sorted, Second

\* The frame at the front of a connection's pieces is the one its header
\* announces; without it they are frames still.
LEMMA FrameDropped ==
  ASSUME NEW s \in Seq(Pieces), Framed(s), FrameLen <= Len(s)
  PROVE  LET m == s[1][1]
             t == SubSeq(s, FrameLen + 1, Len(s))
         IN /\ m \in Routed /\ s[1][2] = 1 /\ SubSeq(s, 1, FrameLen) = Frame(m)
            /\ t \in Seq(Pieces) /\ Framed(t) /\ (Complete(s) => Complete(t))
            /\ Distinct(Lasts(s)) =>
                 /\ Distinct(Lasts(t)) /\ m.n \in Second(Lasts(s))
                 /\ Second(Lasts(t)) = Second(Lasts(s)) \ {m.n}
                 /\ Sorted(Lasts(s)) =>
                      Sorted(Lasts(t)) /\ Before({m.n}, Second(Lasts(t)))
<1>0. PICK m, t : m = s[1][1] /\ t = SubSeq(s, FrameLen + 1, Len(s))
  OBVIOUS
<1>1. /\ Len(s) \in Nat /\ FrameLen \in Nat /\ FrameLen > 1
      /\ DOMAIN s = 1..Len(s) /\ 1 \in DOMAIN s /\ FrameLen \in DOMAIN s
  BY GatewayAssumption
<1>2. m \in Routed /\ s[1][2] = 1
  <2>1. s[1][2] \in 1..FrameLen /\ m \in Routed
    BY <1>0, <1>1, PieceParts
  <2>2. s[1][2] <= 1
    BY <1>1 DEF Framed
  <2>. QED
    BY <1>1, <2>1, <2>2
<1>3. \A q \in 1..FrameLen : q \in DOMAIN s /\ s[q] = <<m, q>>
  <2> SUFFICES ASSUME NEW q \in 1..FrameLen PROVE q \in DOMAIN s /\ s[q] = <<m, q>>
    OBVIOUS
  <2>1. q \in DOMAIN s /\ 1 - s[1][2] < q /\ q <= 1 - s[1][2] + FrameLen /\ q - 1 + s[1][2] = q
    BY <1>1, <1>2
  <2>2. s[q] = <<s[1][1], q - 1 + s[1][2]>>
    BY <1>1, <2>1 DEF Framed
  <2>. QED
    BY <1>0, <2>1, <2>2
<1>4. SubSeq(s, 1, FrameLen) = Frame(m)
  <2>1. /\ SubSeq(s, 1, FrameLen) \in Seq(Pieces) /\ Len(SubSeq(s, 1, FrameLen)) = FrameLen
        /\ \A j \in 1..FrameLen : SubSeq(s, 1, FrameLen)[j] = s[j]
    BY <1>1
  <2>2. /\ Frame(m) \in Seq(Pieces) /\ Len(Frame(m)) = FrameLen
        /\ \A j \in 1..FrameLen : Frame(m)[j] = <<m, j>>
    BY <1>2, FrameIs
  <2>3. \A j \in 1..FrameLen : SubSeq(s, 1, FrameLen)[j] = Frame(m)[j]
    BY <1>3, <2>1, <2>2
  <2>. QED
    BY <2>1, <2>2, <2>3, SeqEqual
<1>5. /\ t \in Seq(Pieces) /\ Len(t) = Len(s) - FrameLen /\ DOMAIN t = 1..(Len(s) - FrameLen)
      /\ \A k \in DOMAIN t : k + FrameLen \in DOMAIN s /\ t[k] = s[k + FrameLen]
  BY <1>0, <1>1
<1>6. \A p \in DOMAIN t : p - t[p][2] >= 0 /\ t[p][2] \in 1..FrameLen /\ p \in Nat
  <2> SUFFICES ASSUME NEW p \in DOMAIN t
               PROVE  p - t[p][2] >= 0 /\ t[p][2] \in 1..FrameLen /\ p \in Nat
    OBVIOUS
  <2>1. PICK i : i = t[p][2]
    OBVIOUS
  <2>2. p + FrameLen \in DOMAIN s /\ s[p + FrameLen][2] = i /\ i \in 1..FrameLen /\ p \in Nat
    BY <1>5, <2>1, PieceParts
  <2>3. ASSUME p < i PROVE FALSE
    <3>1. PICK q : q = p + FrameLen - i + 1
      OBVIOUS
    <3>2. q \in 1..FrameLen /\ q > 1
      BY <1>1, <1>5, <2>2, <2>3, <3>1
    <3>3. q \in DOMAIN s /\ s[q] = <<m, q>>
      BY <1>3, <3>2
    <3>4. (p + FrameLen) - i < q /\ q <= (p + FrameLen) - i + FrameLen /\ q - (p + FrameLen) + i = 1
      <4>1. p \in Int /\ FrameLen \in Int /\ i \in Int /\ q \in Int /\ FrameLen > 1
        BY <1>1, <2>2, <3>2
      <4>. QED
        BY <3>1, <4>1
    <3>5. s[q] = <<s[p + FrameLen][1], 1>>
      BY <2>2, <3>3, <3>4 DEF Framed
    <3>. QED
      BY <3>2, <3>3, <3>5
  <2>. QED
    BY <1>5, <2>1, <2>2, <2>3
<1>7. Framed(t)
  <2> SUFFICES ASSUME NEW p \in DOMAIN t, NEW q \in DOMAIN t
               PROVE  /\ t[p][2] <= p
                      /\ p - t[p][2] < q /\ q <= p - t[p][2] + FrameLen
                         => t[q] = <<t[p][1], q - p + t[p][2]>>
    BY DEF Framed
  <2>1. t[p][2] <= p
    BY <1>6
  <2>2. ASSUME p - t[p][2] < q, q <= p - t[p][2] + FrameLen
        PROVE  t[q] = <<t[p][1], q - p + t[p][2]>>
    <3>1. PICK i, x, y : i = t[p][2] /\ x = p + FrameLen /\ y = q + FrameLen
      OBVIOUS
    <3>2. x \in DOMAIN s /\ y \in DOMAIN s /\ s[x] = t[p] /\ s[y] = t[q] /\ s[x][2] = i
      BY <1>5, <3>1
    <3>3. x - i < y /\ y <= x - i + FrameLen /\ y - x + i = q - p + i
      <4>1. p \in Int /\ FrameLen \in Int /\ i \in Int /\ q \in Int
        BY <1>1, <1>5, <1>6, <3>1
      <4>2. p - i < q /\ q <= p - i + FrameLen
        BY <2>2, <3>1
      <4>3. x = p + FrameLen /\ y = q + FrameLen
        BY <3>1
      <4>4. x \in Int /\ y \in Int
        BY <4>1, <4>3
      <4>5. x - i < y /\ y <= x - i + FrameLen
        BY <4>1, <4>2, <4>3, <4>4
      <4>6. y - x + i = q - p + i
        BY <4>1, <4>3, <4>4
      <4>. QED
        BY <4>5, <4>6
    <3>4. s[y] = <<s[x][1], y - x + i>>
      BY <3>2, <3>3 DEF Framed
    <3>. QED
      BY <3>1, <3>2, <3>3, <3>4
  <2>. QED
    BY <2>1, <2>2
<1>8. Complete(s) => Complete(t)
  <2> SUFFICES ASSUME s[Len(s)][2] = FrameLen, t # <<>> PROVE t[Len(t)][2] = FrameLen
    BY <1>1 DEF Complete
  <2>1. Len(t) \in DOMAIN t /\ Len(t) + FrameLen = Len(s)
    BY <1>1, <1>5
  <2>. QED
    BY <1>5, <2>1
<1>9. \A e \in Lasts(t) : \E k \in DOMAIN s :
        /\ k > FrameLen /\ s[k][2] = FrameLen /\ e = <<k - FrameLen, s[k][1].n>>
        /\ <<k, s[k][1].n>> \in Lasts(s)
  <2> SUFFICES ASSUME NEW e \in Lasts(t)
               PROVE  \E k \in DOMAIN s :
                        /\ k > FrameLen /\ s[k][2] = FrameLen /\ e = <<k - FrameLen, s[k][1].n>>
                        /\ <<k, s[k][1].n>> \in Lasts(s)
    OBVIOUS
  <2>1. PICK k \in DOMAIN t : t[k][2] = FrameLen /\ e = <<k, t[k][1].n>>
    BY LastsIs
  <2>2. PICK x : x = k + FrameLen
    OBVIOUS
  <2>3. x \in DOMAIN s /\ s[x] = t[k] /\ x > FrameLen /\ k = x - FrameLen
    BY <1>1, <1>5, <2>2
  <2>. QED
    BY <2>1, <2>3, LastsIs
<1>10. \A k \in DOMAIN s : k > FrameLen /\ s[k][2] = FrameLen => s[k][1].n \in Second(Lasts(t))
  <2> SUFFICES ASSUME NEW k \in DOMAIN s, k > FrameLen, s[k][2] = FrameLen
               PROVE  s[k][1].n \in Second(Lasts(t))
    OBVIOUS
  <2>1. PICK x : x = k - FrameLen
    OBVIOUS
  <2>2. x \in DOMAIN t /\ t[x] = s[k]
    BY <1>1, <1>5, <2>1
  <2>. QED
    BY <2>2, LastsIs
<1>11. /\ <<FrameLen, m.n>> \in Lasts(s) /\ m.n \in Second(Lasts(s))
       /\ \A k \in DOMAIN s : s[k][2] = FrameLen => k >= FrameLen
       /\ s[FrameLen][1] = m /\ s[FrameLen][2] = FrameLen
  <2>1. s[FrameLen] = <<m, FrameLen>>
    BY <1>1, <1>3
  <2>2. \A k \in DOMAIN s : s[k][2] = FrameLen => k >= FrameLen
    BY <1>1, <1>3
  <2>3. s[FrameLen][1] = m /\ s[FrameLen][2] = FrameLen
    BY <2>1
  <2>. QED
    BY <1>1, <2>2, <2>3, LastsIs
<1>12. ASSUME Distinct(Lasts(s))
       PROVE  /\ Distinct(Lasts(t))
              /\ Second(Lasts(t)) = Second(Lasts(s)) \ {m.n}
              /\ Sorted(Lasts(s)) => Sorted(Lasts(t)) /\ Before({m.n}, Second(Lasts(t)))
  <2>1. Distinct(Lasts(t))
    <3> SUFFICES ASSUME NEW e \in Lasts(t), NEW f \in Lasts(t), e[2] = f[2] PROVE e = f
      BY DEF Distinct
    <3>1. PICK j \in DOMAIN s : e = <<j - FrameLen, s[j][1].n>> /\ <<j, s[j][1].n>> \in Lasts(s)
      BY <1>9
    <3>2. PICK k \in DOMAIN s : f = <<k - FrameLen, s[k][1].n>> /\ <<k, s[k][1].n>> \in Lasts(s)
      BY <1>9
    <3>3. <<j, s[j][1].n>> = <<k, s[k][1].n>>
      BY <1>12, <3>1, <3>2 DEF Distinct
    <3>. QED
      BY <3>1, <3>2, <3>3
  <2>2. ASSUME NEW x \in Second(Lasts(t)) PROVE x \in Second(Lasts(s)) /\ x # m.n
    <3>1. PICK e \in Lasts(t) : x = e[2]
      BY DEF Second
    <3>2. PICK k \in DOMAIN s : /\ k > FrameLen /\ s[k][2] = FrameLen /\ e = <<k - FrameLen, s[k][1].n>>
                                /\ <<k, s[k][1].n>> \in Lasts(s)
      BY <1>9
    <3>3. x = s[k][1].n /\ x \in Second(Lasts(s))
      BY <3>1, <3>2, LastsIs
    <3>4. ASSUME x = m.n PROVE FALSE
      <4>1. <<k, s[k][1].n>> = <<FrameLen, m.n>>
        BY <1>11, <1>12, <3>2, <3>3, <3>4 DEF Distinct
      <4>. QED
        BY <1>1, <3>2, <4>1
    <3>. QED
      BY <3>3, <3>4
  <2>3. ASSUME NEW x \in Second(Lasts(s)) \ {m.n} PROVE x \in Second(Lasts(t))
    <3>1. PICK e \in Lasts(s) : x = e[2]
      BY DEF Second
    <3>2. PICK k \in DOMAIN s : s[k][2] = FrameLen /\ e = <<k, s[k][1].n>>
      BY LastsIs
    <3>3. x = s[k][1].n
      BY <3>1, <3>2
    <3>4. k # FrameLen
      BY <1>11, <2>3, <3>3
    <3>5. k > FrameLen
      BY <1>1, <1>11, <3>2, <3>4
    <3>. QED
      BY <1>10, <3>2, <3>3, <3>5
  <2>4. ASSUME Sorted(Lasts(s)) PROVE Sorted(Lasts(t)) /\ Before({m.n}, Second(Lasts(t)))
    <3>1. ASSUME NEW e \in Lasts(t), NEW f \in Lasts(t), e[1] < f[1] PROVE e[2] < f[2]
      <4>1. PICK j \in DOMAIN s : e = <<j - FrameLen, s[j][1].n>> /\ <<j, s[j][1].n>> \in Lasts(s)
        BY <1>9
      <4>2. PICK k \in DOMAIN s : f = <<k - FrameLen, s[k][1].n>> /\ <<k, s[k][1].n>> \in Lasts(s)
        BY <1>9
      <4>3. j < k
        BY <1>1, <3>1, <4>1, <4>2
      <4>. QED
        BY <2>4, <4>1, <4>2, <4>3 DEF Sorted
    <3>2. ASSUME NEW x \in Second(Lasts(t)) PROVE m.n < x
      <4>1. PICK e \in Lasts(t) : x = e[2]
        BY DEF Second
      <4>2. PICK k \in DOMAIN s : /\ k > FrameLen /\ e = <<k - FrameLen, s[k][1].n>>
                                  /\ <<k, s[k][1].n>> \in Lasts(s)
        BY <1>9
      <4>3. x = s[k][1].n
        BY <4>1, <4>2
      <4>. QED
        BY <1>11, <2>4, <4>2, <4>3 DEF Sorted
    <3>. QED
      BY <3>1, <3>2 DEF Sorted, Before
  <2>. QED
    BY <2>1, <2>2, <2>3, <2>4
<1>. QED
  BY <1>0, <1>2, <1>4, <1>5, <1>7, <1>8, <1>11, <1>12
------------------------------------------------------------------------------
(* Type correctness.                                                         *)

\* Cutting a sequence keeps its elements.
LEMMA Cuts ==
  ASSUME NEW S, NEW s \in Seq(S), NEW k \in 0..Len(s)
  PROVE  /\ SubSeq(s, 1, k) \in Seq(S) /\ Len(SubSeq(s, 1, k)) = k
         /\ SubSeq(s, k + 1, Len(s)) \in Seq(S) /\ Len(SubSeq(s, k + 1, Len(s))) = Len(s) - k
OBVIOUS

LEMMA Unpacks ==
  ASSUME NEW b \in Seq(Pieces)
  PROVE  /\ UnpackOne(b)[1] \in Routed \union {None}
         /\ UnpackOne(b)[2] \in 0..Len(b)
<1>0. Len(b) \in Nat /\ FrameLen \in Nat /\ (b = <<>> <=> Len(b) = 0)
  BY GatewayAssumption
<1>1. CASE b = <<>>
  BY <1>0, <1>1 DEF UnpackOne
<1>2. CASE b # <<>> /\ b[1][2] # 1
  BY <1>0, <1>2 DEF UnpackOne
<1>3. CASE b # <<>> /\ b[1][2] = 1 /\ Len(b) < FrameLen
  BY <1>0, <1>3 DEF UnpackOne
<1>4. CASE b # <<>> /\ b[1][2] = 1 /\ ~(Len(b) < FrameLen)
  <2>1. UnpackOne(b) = <<IF SubSeq(b, 1, FrameLen) = Frame(b[1][1]) THEN b[1][1] ELSE None, FrameLen>>
    BY <1>4 DEF UnpackOne
  <2>2. 1 \in DOMAIN b
    BY <1>0, <1>4
  <2>3. b[1][1] \in Routed
    BY <2>2, PieceParts
  <2>4. FrameLen \in 0..Len(b)
    BY <1>0, <1>4
  <2>. QED
    BY <2>1, <2>3, <2>4
<1>. QED
  BY <1>1, <1>2, <1>3, <1>4

LEMMA Outgoes ==
  ASSUME TypeOK, Ready
  PROVE  Outgoing \in Routed /\ Remaining \in Seq(Routed) /\ conn \in Conns
<1>1. pending # None => Outgoing \in Routed /\ Remaining \in Seq(Routed)
  BY DEF TypeOK, Outgoing, Remaining
<1>2. pending = None => Outgoing \in Routed /\ Remaining \in Seq(Routed)
  BY DEF TypeOK, Ready, Outgoing, Remaining
<1>3. conn \in Conns
  BY GatewayAssumption DEF TypeOK, Ready, Conns
<1>. QED
  BY <1>1, <1>2, <1>3

LEMMA TypeInit == Init => TypeOK
<1> SUFFICES ASSUME Init PROVE TypeOK
  OBVIOUS
<1>1. /\ sent \in 0..MaxSends /\ calls \in 0..(MaxSends - sent) /\ met \in BOOLEAN
      /\ inbox \in Seq(Messages) /\ Len(inbox) <= Slots /\ stray \subseteq Messages
  <2>1. sent = 0 /\ calls = 0 /\ met = FALSE /\ inbox = <<>> /\ stray = {}
    BY DEF Init
  <2>2. 0 \in 0..MaxSends /\ 0 \in 0..(MaxSends - 0) /\ 0 <= Slots
    BY GatewayAssumption
  <2>3. <<>> \in Seq(Messages) /\ Len(<<>>) = 0
    OBVIOUS
  <2>. QED
    BY <2>1, <2>2, <2>3
<1>2. queue \in Seq(Routed) /\ pending \in Routed \union {None} /\ opened \in 0..MaxConns
  BY GatewayAssumption DEF Init
<1>3. conn \in 0..opened /\ cut \subseteq 1..opened
  BY DEF Init
<1>4. /\ wire \in [Conns -> Seq(Pieces)] /\ buf \in [Conns -> Seq(Pieces)]
      /\ draining \subseteq Conns /\ todo \in [Conns -> Seq(Routed)]
  BY DEF Init
<1>5. /\ inboxes \in [Agents -> Seq(Routed)] /\ taken \in [Agents -> Seq(Routed)]
      /\ lost \subseteq Messages /\ unrouted \subseteq Messages
      /\ delivering \subseteq {c \in Conns \ draining : todo[c] # <<>>}
      /\ upset \subseteq Agents /\ strays \in [Agents -> SUBSET Routed]
  BY DEF Init
<1>6. \A a \in Agents : Len(inboxes[a]) <= Slots
  BY GatewayAssumption DEF Init
<1>. QED
  BY <1>1, <1>2, <1>3, <1>4, <1>5, <1>6 DEF TypeOK

LEMMA TypeSendBegin == ASSUME TypeOK, SendBegin PROVE TypeOK'
<1>1. calls' \in 0..(MaxSends - sent) /\ met' \in BOOLEAN
  BY GatewayAssumption DEF TypeOK, SendBegin
<1>2. inbox' \in Seq(Messages) /\ Len(inbox') <= Slots
  BY GatewayAssumption DEF TypeOK, SendBegin
<1>3. stray' \subseteq Messages
  BY DEF TypeOK, SendBegin, ToSet
<1>. QED
  BY <1>1, <1>2, <1>3 DEF TypeOK, SendBegin, client, network, readers, receiver

LEMMA TypeSend == ASSUME TypeOK, NEW t \in Types, Send(t) PROVE TypeOK'
<1>1. sent + 1 \in 1..MaxSends /\ sent + 1 \in 0..MaxSends /\ calls - 1 \in 0..(MaxSends - (sent + 1))
  BY GatewayAssumption DEF TypeOK, Send
<1>2. PICK m \in Messages : m = [type |-> t, n |-> sent + 1]
  BY <1>1 DEF Messages
<1>3. sent' \in 0..MaxSends /\ calls' \in 0..(MaxSends - sent')
  BY <1>1, <1>2 DEF Send
<1>4. \/ lost' = lost \union {m} /\ inbox' = inbox /\ stray' = stray
      \/ HasRoom(inbox) /\ inbox' = Append(inbox, m) /\ stray' = stray /\ lost' = lost
      \/ stray' = stray \union {m} /\ inbox' = inbox /\ lost' = lost
  BY <1>2 DEF Send
<1>5. inbox' \in Seq(Messages) /\ Len(inbox') <= Slots
  <2>1. CASE inbox' = inbox
    BY <2>1 DEF TypeOK
  <2>2. CASE HasRoom(inbox) /\ inbox' = Append(inbox, m)
    <3>1. inbox \in Seq(Messages) /\ Slots \in Nat
      BY GatewayAssumption DEF TypeOK
    <3>2. Append(inbox, m) \in Seq(Messages) /\ Len(Append(inbox, m)) <= Slots
      BY <2>2, <3>1 DEF HasRoom
    <3>. QED
      BY <2>2, <3>2
  <2>. QED
    BY <1>4, <2>1, <2>2
<1>6. lost' \subseteq Messages /\ stray' \subseteq Messages
  BY <1>4 DEF TypeOK
<1>. QED
  BY <1>3, <1>5, <1>6 DEF TypeOK, Send, client, network, readers, receiver

LEMMA TypeRoute ==
  ASSUME TypeOK, NEW m \in Messages, Route(m)
  PROVE  queue' \in Seq(Routed) /\ unrouted' \subseteq Messages
<1>1. CASE m.type \in DOMAIN Routes
  <2>1. m \in Routed /\ queue' = Append(queue, m) /\ unrouted' = unrouted
    BY <1>1 DEF Route, Routed
  <2>. QED
    BY <2>1 DEF TypeOK
<1>2. CASE m.type \notin DOMAIN Routes
  BY <1>2 DEF Route, TypeOK
<1>. QED
  BY <1>1, <1>2

LEMMA TypeOnMessage == ASSUME TypeOK, OnMessage PROVE TypeOK'
<1>1. inbox' \in Seq(Messages) /\ Len(inbox') <= Slots
  BY GatewayAssumption DEF TypeOK, OnMessage
<1>2. Head(inbox) \in Messages /\ Route(Head(inbox))
  BY DEF TypeOK, OnMessage
<1>3. queue' \in Seq(Routed) /\ unrouted' \subseteq Messages
  BY <1>2, TypeRoute
<1>. QED
  BY <1>1, <1>3 DEF TypeOK, OnMessage, network, readers, receiver

LEMMA TypeOnStray == ASSUME TypeOK, OnStray PROVE TypeOK'
<1>1. PICK m \in Messages : stray' = stray \ {m} /\ Route(m)
  BY DEF TypeOK, OnStray
<1>2. queue' \in Seq(Routed) /\ unrouted' \subseteq Messages
  BY <1>1, TypeRoute
<1>. QED
  BY <1>1, <1>2 DEF TypeOK, OnStray, network, readers, receiver

LEMMA TypeConnect == ASSUME TypeOK, Connect PROVE TypeOK'
<1>1. opened' \in 0..MaxConns /\ conn' \in 0..opened' /\ cut' \subseteq 1..opened'
  BY GatewayAssumption DEF TypeOK, Connect, network
<1>. QED
  BY <1>1 DEF TypeOK, Connect, sender, network, readers, receiver

LEMMA TypeSendFrame == ASSUME TypeOK, SendFrame PROVE TypeOK'
<1>1. Ready /\ Outgoing \in Routed /\ Remaining \in Seq(Routed) /\ conn \in Conns
  BY Outgoes DEF SendFrame
<1>2. queue' \in Seq(Routed) /\ pending' \in Routed \union {None}
  BY <1>1 DEF SendFrame
<1>3. Outgoing \in Messages
  BY <1>1, MessageNumbers
<1>4. CASE conn \in cut
  <2>1. lost' \subseteq Messages /\ wire' = wire
    BY <1>3, <1>4 DEF TypeOK, SendFrame
  <2>. QED
    BY <1>2, <2>1 DEF TypeOK, SendFrame, sender, readers, receiver
<1>5. CASE conn \notin cut
  <2>1. PICK f \in Seq(Pieces) : f = Frame(Outgoing)
    BY <1>1, FrameIs
  <2>2. wire' = [wire EXCEPT ![conn] = @ \o f] /\ lost' = lost
    BY <1>5, <2>1 DEF SendFrame
  <2>3. wire' \in [Conns -> Seq(Pieces)]
    BY <1>1, <2>2 DEF TypeOK
  <2>. QED
    BY <1>2, <2>2, <2>3 DEF TypeOK, SendFrame, sender, readers, receiver
<1>. QED
  BY <1>4, <1>5

LEMMA TypeSendFails == ASSUME TypeOK, SendFails PROVE TypeOK'
<1>1. Ready /\ Outgoing \in Routed /\ Remaining \in Seq(Routed) /\ conn \in Conns
  BY Outgoes DEF SendFails
<1>2. queue' \in Seq(Routed) /\ pending' \in Routed \union {None} /\ conn' \in 0..opened
  BY <1>1 DEF SendFails, TypeOK
<1>3. cut' \subseteq 1..opened
  BY <1>1 DEF SendFails, TypeOK, Ready
<1>4. wire' \in [Conns -> Seq(Pieces)]
  <2>1. PICK k \in 0..(FrameLen - 1) :
          wire' = IF conn \in cut THEN wire
                  ELSE [wire EXCEPT ![conn] = @ \o SubSeq(Frame(Outgoing), 1, k)]
    BY DEF SendFails
  <2>2. k \in 0..FrameLen
    BY GatewayAssumption
  <2>3. PICK f \in Seq(Pieces) : f = SubSeq(Frame(Outgoing), 1, k)
    BY <1>1, <2>2, FramePart
  <2>. QED
    BY <1>1, <2>1, <2>3 DEF TypeOK
<1>. QED
  BY <1>2, <1>3, <1>4 DEF TypeOK, SendFails, sender, readers, receiver

\* The messages that end in these pieces.
LEMMA WholeAre ==
  ASSUME NEW s \in Seq(Pieces)
  PROVE  Whole(s) \subseteq Routed /\ Whole(s) \subseteq Messages
<1>1. \A q \in DOMAIN s : s[q][1] \in Routed
  BY PieceParts
<1>. QED
  BY <1>1, MessageNumbers DEF Whole

LEMMA TypeBreak == ASSUME TypeOK, NEW c \in Conns, Break(c) PROVE TypeOK'
<1>1. PICK k \in 0..Len(wire[c]) :
        /\ wire' = [wire EXCEPT ![c] = SubSeq(@, 1, k)]
        /\ lost' = lost \union Whole(SubSeq(wire[c], k + 1, Len(wire[c])))
  BY DEF Break
<1>2. wire[c] \in Seq(Pieces)
  BY DEF TypeOK
<1>3. /\ SubSeq(wire[c], 1, k) \in Seq(Pieces)
      /\ SubSeq(wire[c], k + 1, Len(wire[c])) \in Seq(Pieces)
  BY <1>2, Cuts
<1>4. wire' \in [Conns -> Seq(Pieces)]
  BY <1>1, <1>3 DEF TypeOK
<1>5. lost' \subseteq Messages
  BY <1>1, <1>3, WholeAre DEF TypeOK
<1>6. cut' \subseteq 1..opened
  BY DEF TypeOK, Break
<1>. QED
  BY <1>4, <1>5, <1>6 DEF TypeOK, Break, sender, client, readers, receiver

LEMMA TypeReceive == ASSUME TypeOK, NEW c \in Conns, Receive(c) PROVE TypeOK'
<1>1. PICK k \in 1..Len(wire[c]) :
        /\ wire' = [wire EXCEPT ![c] = SubSeq(@, k + 1, Len(@))]
        /\ buf' = [buf EXCEPT ![c] = @ \o SubSeq(wire[c], 1, k)]
  BY DEF Receive
<1>2. wire[c] \in Seq(Pieces) /\ buf[c] \in Seq(Pieces) /\ k \in 0..Len(wire[c])
  BY DEF TypeOK
<1>3. /\ SubSeq(wire[c], 1, k) \in Seq(Pieces)
      /\ SubSeq(wire[c], k + 1, Len(wire[c])) \in Seq(Pieces)
  BY <1>2, Cuts
<1>4. buf[c] \o SubSeq(wire[c], 1, k) \in Seq(Pieces)
  BY <1>2, <1>3
<1>5. wire' \in [Conns -> Seq(Pieces)] /\ buf' \in [Conns -> Seq(Pieces)]
  BY <1>1, <1>3, <1>4 DEF TypeOK
<1>6. draining' \subseteq Conns
  BY DEF TypeOK, Receive
<1>. QED
  BY <1>5, <1>6 DEF TypeOK, Receive, sender, client, receiver

LEMMA TypeDrain == ASSUME TypeOK, NEW c \in Conns, Drain(c) PROVE TypeOK'
<1>1. PICK x, y : x = UnpackOne(buf[c])[1] /\ y = UnpackOne(buf[c])[2]
  OBVIOUS
<1>2. buf[c] \in Seq(Pieces)
  BY DEF TypeOK
<1>3. x \in Routed \union {None} /\ y \in 0..Len(buf[c])
  BY <1>1, <1>2, Unpacks
<1>4. CASE y = 0
  <2>1. draining' = draining \ {c} /\ buf' = buf /\ todo' = todo
    BY <1>1, <1>4 DEF Drain
  <2>. QED
    BY <2>1 DEF TypeOK, Drain, sender, client, network, receiver
<1>5. CASE y # 0
  <2>1. /\ buf' = [buf EXCEPT ![c] = SubSeq(@, y + 1, Len(@))]
        /\ todo' = IF x = None THEN todo ELSE [todo EXCEPT ![c] = Append(@, x)]
        /\ draining' = draining
    BY <1>1, <1>5 DEF Drain
  <2>2. SubSeq(buf[c], y + 1, Len(buf[c])) \in Seq(Pieces)
    BY <1>2, <1>3, Cuts
  <2>3. buf' \in [Conns -> Seq(Pieces)] /\ todo' \in [Conns -> Seq(Routed)]
    BY <1>3, <2>1, <2>2 DEF TypeOK
  <2>. QED
    BY <2>1, <2>3 DEF TypeOK, Drain, sender, client, network, receiver
<1>. QED
  BY <1>4, <1>5

\* What the reader thread of c delivers, and where.
LEMMA Targets ==
  ASSUME TypeOK, NEW c \in Conns, todo[c] # <<>>
  PROVE  Head(todo[c]) \in Routed /\ Target(c) \in Agents
<1>1. Head(todo[c]) \in Routed
  BY DEF TypeOK
<1>. QED
  BY <1>1 DEF Target, Routed, Agents

LEMMA TypeMeet ==
  ASSUME TypeOK, NEW a \in Agents, Meet(a)
  PROVE  /\ inboxes' \in [Agents -> Seq(Routed)] /\ \A i \in Agents : Len(inboxes'[i]) <= Slots
         /\ upset' \subseteq Agents /\ strays' \in [Agents -> SUBSET Routed]
<1>1. inboxes' \in [Agents -> Seq(Routed)]
  BY DEF TypeOK, Meet
<1>2. \A i \in Agents : Len(inboxes'[i]) <= Slots
  BY GatewayAssumption DEF TypeOK, Meet
<1>3. ToSet(inboxes[a]) \subseteq Routed
  BY DEF TypeOK, ToSet
<1>. QED
  BY <1>1, <1>2, <1>3 DEF TypeOK, Meet

LEMMA TypeDeliverBegin == ASSUME TypeOK, NEW c \in Conns, DeliverBegin(c) PROVE TypeOK'
<1>1. Target(c) \in Agents
  BY Targets DEF DeliverBegin
<1>2. /\ inboxes' \in [Agents -> Seq(Routed)] /\ \A i \in Agents : Len(inboxes'[i]) <= Slots
      /\ upset' \subseteq Agents /\ strays' \in [Agents -> SUBSET Routed]
  <2>1. CASE Meet(Target(c))
    BY <1>1, <2>1, TypeMeet
  <2>2. CASE UNCHANGED <<inboxes, upset, strays>>
    BY <2>2 DEF TypeOK
  <2>. QED
    BY <2>1, <2>2 DEF DeliverBegin
<1>3. delivering' \subseteq {i \in Conns \ draining : todo[i] # <<>>}
  BY DEF TypeOK, DeliverBegin
<1>. QED
  BY <1>2, <1>3 DEF TypeOK, DeliverBegin, sender, client, network

LEMMA TypeMeetOther == ASSUME TypeOK, NEW a \in Agents, MeetOther(a) PROVE TypeOK'
<1>1. /\ inboxes' \in [Agents -> Seq(Routed)] /\ \A i \in Agents : Len(inboxes'[i]) <= Slots
      /\ upset' \subseteq Agents /\ strays' \in [Agents -> SUBSET Routed]
  BY TypeMeet DEF MeetOther
<1>. QED
  BY <1>1 DEF TypeOK, MeetOther, sender, client, network, readers

LEMMA TypeDeliver == ASSUME TypeOK, NEW c \in Conns, Deliver(c) PROVE TypeOK'
<1>1. todo[c] \in Seq(Routed) /\ todo[c] # <<>>
  BY DEF TypeOK, Deliver
<1>2. PICK m \in Routed, a \in Agents : m = Head(todo[c]) /\ a = Target(c)
  BY <1>1, Targets
<1>3. /\ todo' \in [Conns -> Seq(Routed)]
      /\ delivering' \subseteq {i \in Conns \ draining : todo'[i] # <<>>}
  BY <1>1 DEF TypeOK, Deliver
<1>4. \/ lost' = lost \union {m} /\ inboxes' = inboxes /\ strays' = strays
      \/ /\ HasRoom(inboxes[a]) /\ inboxes' = [inboxes EXCEPT ![a] = Append(@, m)]
         /\ strays' = strays /\ lost' = lost
      \/ strays' = [strays EXCEPT ![a] = @ \union {m}] /\ inboxes' = inboxes /\ lost' = lost
  BY <1>2 DEF Deliver
<1>5. inboxes' \in [Agents -> Seq(Routed)] /\ \A i \in Agents : Len(inboxes'[i]) <= Slots
  <2>1. CASE inboxes' = inboxes
    BY <2>1 DEF TypeOK
  <2>2. CASE HasRoom(inboxes[a]) /\ inboxes' = [inboxes EXCEPT ![a] = Append(@, m)]
    <3>1. inboxes[a] \in Seq(Routed) /\ Slots \in Nat
      BY GatewayAssumption DEF TypeOK
    <3>2. Append(inboxes[a], m) \in Seq(Routed) /\ Len(Append(inboxes[a], m)) <= Slots
      BY <2>2, <3>1 DEF HasRoom
    <3>. QED
      BY <2>2, <3>2 DEF TypeOK
  <2>. QED
    BY <1>4, <2>1, <2>2
<1>6. lost' \subseteq Messages /\ strays' \in [Agents -> SUBSET Routed]
  BY <1>4, MessageNumbers DEF TypeOK
<1>. QED
  BY <1>3, <1>5, <1>6 DEF TypeOK, Deliver, sender, client, network

LEMMA TypeConsume == ASSUME TypeOK, NEW a \in Agents, Consume(a) PROVE TypeOK'
<1>1. inboxes[a] \in Seq(Routed) /\ inboxes[a] # <<>> /\ taken[a] \in Seq(Routed)
  BY DEF TypeOK, Consume
<1>2. /\ Tail(inboxes[a]) \in Seq(Routed) /\ Len(Tail(inboxes[a])) <= Len(inboxes[a])
      /\ Append(taken[a], Head(inboxes[a])) \in Seq(Routed)
  BY <1>1
<1>3. inboxes' \in [Agents -> Seq(Routed)] /\ taken' \in [Agents -> Seq(Routed)]
  BY <1>2 DEF TypeOK, Consume
<1>4. Len(inboxes[a]) <= Slots /\ Len(inboxes[a]) \in Nat /\ Len(Tail(inboxes[a])) \in Nat
      /\ Slots \in Nat
  BY <1>1, GatewayAssumption DEF TypeOK
<1>5. Len(Tail(inboxes[a])) <= Slots
  BY <1>2, <1>4
<1>6. \A i \in Agents : Len(inboxes'[i]) <= Slots
  BY <1>5 DEF TypeOK, Consume
<1>. QED
  BY <1>3, <1>6 DEF TypeOK, Consume, sender, client, network, readers

LEMMA TypeConsumeStray == ASSUME TypeOK, NEW a \in Agents, ConsumeStray(a) PROVE TypeOK'
<1>1. PICK m \in Routed : /\ strays' = [strays EXCEPT ![a] = @ \ {m}]
                          /\ taken' = [taken EXCEPT ![a] = Append(@, m)]
  BY DEF TypeOK, ConsumeStray
<1>2. strays' \in [Agents -> SUBSET Routed] /\ taken' \in [Agents -> Seq(Routed)]
  BY <1>1 DEF TypeOK
<1>. QED
  BY <1>2 DEF TypeOK, ConsumeStray, sender, client, network, readers

LEMMA TypeNext == TypeOK /\ [Next]_vars => TypeOK'
<1> SUFFICES ASSUME TypeOK, [Next]_vars PROVE TypeOK'
  OBVIOUS
<1>1. CASE UNCHANGED vars
  BY <1>1 DEF vars, sender, client, network, readers, receiver, TypeOK
<1>2. CASE Next
  BY <1>2, TypeSendBegin, TypeSend, TypeOnMessage, TypeOnStray, TypeConnect, TypeSendFrame,
     TypeSendFails, TypeBreak, TypeReceive, TypeDrain, TypeDeliverBegin, TypeMeetOther,
     TypeDeliver, TypeConsume, TypeConsumeStray DEF Next
<1>. QED
  BY <1>1, <1>2

\* The gateways' data stay within their types, and no inbox exceeds its slots.
THEOREM Typing == Spec => []TypeOK
BY TypeInit, TypeNext, PTL DEF Spec
------------------------------------------------------------------------------
(* What a connection carries, as its pieces move from the wire to the buffer *)
(* and from there to the messages.                                           *)

LEMMA Halves ==
  ASSUME NEW u \in Seq(Pieces), NEW v \in Seq(Pieces)
  PROVE  /\ u \o v \in Seq(Pieces) /\ Len(u \o v) = Len(u) + Len(v)
         /\ SubSeq(u \o v, 1, Len(u)) = u /\ SubSeq(u \o v, Len(u) + 1, Len(u \o v)) = v
<1>1. PICK s, a, b : s = u \o v /\ a = Len(u) /\ b = Len(v)
  OBVIOUS
<1>2. /\ s \in Seq(Pieces) /\ Len(s) = a + b /\ a \in Nat /\ b \in Nat
      /\ \A i \in 1..(a + b) : s[i] = IF i <= a THEN u[i] ELSE v[i - a]
  BY <1>1, ConcatProperties
<1>3. a \in 0..Len(s)
  BY <1>2
<1>4. PICK x, y : x = SubSeq(s, 1, a) /\ y = SubSeq(s, a + 1, Len(s))
  OBVIOUS
<1>5. x \in Seq(Pieces) /\ Len(x) = a /\ y \in Seq(Pieces) /\ Len(y) = b
  BY <1>2, <1>3, <1>4, Cuts
<1>6. \A i \in 1..a : x[i] = u[i]
  BY <1>2, <1>4
<1>7. \A i \in 1..b : y[i] = v[i]
  <2> SUFFICES ASSUME NEW i \in 1..b PROVE y[i] = v[i]
    OBVIOUS
  <2>1. y[i] = s[i + a] /\ i + a \in 1..(a + b) /\ ~(i + a <= a) /\ i + a - a = i
    BY <1>2, <1>4
  <2>. QED
    BY <1>2, <2>1
<1>8. x = u /\ y = v
  BY <1>1, <1>5, <1>6, <1>7, SeqEqual
<1>. QED
  BY <1>1, <1>2, <1>4, <1>8

LEMMA Split ==
  ASSUME NEW S, NEW s \in Seq(S), NEW k \in 0..Len(s)
  PROVE  SubSeq(s, 1, k) \o SubSeq(s, k + 1, Len(s)) = s
<1>1. 1 \in 1..(Len(s) + 1) /\ k \in (1 - 1)..Len(s) /\ Len(s) \in k..Len(s)
  OBVIOUS
<1>2. SubSeq(s, 1, k) \o SubSeq(s, k + 1, Len(s)) = SubSeq(s, 1, Len(s))
  BY <1>1, ConcatAdjacentSubSeq
<1>3. SubSeq(s, 1, Len(s)) = s
  OBVIOUS
<1>. QED
  BY <1>2, <1>3

\* Sending.
LEMMA Appended ==
  ASSUME NEW b \in Seq(Pieces), NEW w \in Seq(Pieces), NEW f \in Seq(Pieces)
  PROVE  b \o (w \o f) = (b \o w) \o f
BY ConcatAssociative

\* Receiving.
LEMMA Joined ==
  ASSUME NEW b \in Seq(Pieces), NEW w \in Seq(Pieces), NEW k \in 0..Len(w)
  PROVE  (b \o SubSeq(w, 1, k)) \o SubSeq(w, k + 1, Len(w)) = b \o w
<1>1. PICK x, y : x = SubSeq(w, 1, k) /\ y = SubSeq(w, k + 1, Len(w))
  OBVIOUS
<1>2. x \in Seq(Pieces) /\ y \in Seq(Pieces) /\ x \o y = w
  BY <1>1, Cuts, Split
<1>3. (b \o x) \o y = b \o w
  <2>1. b \o (x \o y) = (b \o x) \o y
    BY <1>2, Appended
  <2>. QED
    BY <1>2, <2>1
<1>. QED
  BY <1>1, <1>3

\* Breaking.
LEMMA Broken ==
  ASSUME NEW b \in Seq(Pieces), NEW w \in Seq(Pieces), NEW k \in 0..Len(w)
  PROVE  /\ b \o SubSeq(w, 1, k) = SubSeq(b \o w, 1, Len(b) + k)
         /\ SubSeq(w, k + 1, Len(w)) = SubSeq(b \o w, Len(b) + k + 1, Len(b \o w))
         /\ b \o w \in Seq(Pieces) /\ Len(b) + k \in 0..Len(b \o w)
<1>1. PICK x, y, u : x = SubSeq(w, 1, k) /\ y = SubSeq(w, k + 1, Len(w)) /\ u = b \o x
  OBVIOUS
<1>2. x \in Seq(Pieces) /\ y \in Seq(Pieces) /\ x \o y = w /\ Len(x) = k
  BY <1>1, Cuts, Split
<1>3. u \o y = b \o w
  <2>1. b \o (x \o y) = (b \o x) \o y
    BY <1>2, Appended
  <2>. QED
    BY <1>1, <1>2, <2>1
<1>4. u \in Seq(Pieces) /\ Len(u) = Len(b) + k
  BY <1>1, <1>2, ConcatProperties
<1>5. /\ u \o y \in Seq(Pieces) /\ Len(u \o y) = Len(u) + Len(y)
      /\ SubSeq(u \o y, 1, Len(u)) = u /\ SubSeq(u \o y, Len(u) + 1, Len(u \o y)) = y
  BY <1>2, <1>4, Halves
<1>6. Len(u) \in 0..Len(u \o y)
  BY <1>2, <1>4, <1>5
<1>. QED
  BY <1>1, <1>3, <1>4, <1>5, <1>6

\* Unpacking.
LEMMA Dropped ==
  ASSUME NEW b \in Seq(Pieces), NEW w \in Seq(Pieces), NEW k \in 0..Len(b)
  PROVE  SubSeq(b, k + 1, Len(b)) \o w = SubSeq(b \o w, k + 1, Len(b \o w))
<1>1. PICK x, y : x = SubSeq(b, 1, k) /\ y = SubSeq(b, k + 1, Len(b))
  OBVIOUS
<1>2. x \in Seq(Pieces) /\ y \in Seq(Pieces) /\ x \o y = b /\ Len(x) = k
  BY <1>1, Cuts, Split
<1>3. PICK z : z = y \o w
  OBVIOUS
<1>4. z \in Seq(Pieces) /\ x \o z = b \o w
  <2>1. x \o (y \o w) = (x \o y) \o w
    BY <1>2, Appended
  <2>2. z \in Seq(Pieces)
    BY <1>2, <1>3
  <2>. QED
    BY <1>2, <1>3, <2>1, <2>2
<1>5. SubSeq(x \o z, Len(x) + 1, Len(x \o z)) = z
  BY <1>2, <1>4, Halves
<1>. QED
  BY <1>1, <1>2, <1>3, <1>4, <1>5

\* The reader unpacks the first frame when all of it has arrived: it is never
\* out of step with the frames.
LEMMA InStep ==
  ASSUME NEW b \in Seq(Pieces), NEW w \in Seq(Pieces), Framed(b \o w)
  PROVE  UnpackOne(b) = IF Len(b) < FrameLen THEN <<None, 0>> ELSE <<(b \o w)[1][1], FrameLen>>
<1>0. Len(b) \in Nat /\ Len(w) \in Nat /\ FrameLen \in Nat /\ FrameLen > 1 /\ (b = <<>> <=> Len(b) = 0)
  BY GatewayAssumption
<1>1. PICK s : s = b \o w
  OBVIOUS
<1>2. s \in Seq(Pieces) /\ Len(s) = Len(b) + Len(w) /\ Framed(s)
  BY <1>0, <1>1
<1>3. CASE b = <<>>
  BY <1>0, <1>3 DEF UnpackOne
<1>4. CASE b # <<>>
  <2>1. 1 \in DOMAIN b /\ 1 \in DOMAIN s /\ s[1] = b[1]
    BY <1>0, <1>1, <1>2, <1>4
  <2>2. s[1][2] <= 1 /\ s[1][2] \in 1..FrameLen
    BY <1>2, <2>1, PieceParts DEF Framed
  <2>3. b[1][2] = 1
    BY <1>0, <2>1, <2>2
  <2>4. CASE Len(b) < FrameLen
    BY <1>0, <1>4, <2>3, <2>4 DEF UnpackOne
  <2>5. CASE ~(Len(b) < FrameLen)
    <3>1. FrameLen <= Len(s)
      BY <1>0, <1>2, <2>5
    <3>2. SubSeq(s, 1, FrameLen) = Frame(s[1][1])
      BY <1>2, <3>1, FrameDropped
    <3>3. SubSeq(b, 1, FrameLen) = SubSeq(s, 1, FrameLen)
      <4>1. FrameLen \in 0..Len(b) /\ FrameLen \in 0..Len(s)
        BY <1>0, <1>2, <2>5
      <4>2. /\ SubSeq(b, 1, FrameLen) \in Seq(Pieces) /\ Len(SubSeq(b, 1, FrameLen)) = FrameLen
            /\ SubSeq(s, 1, FrameLen) \in Seq(Pieces) /\ Len(SubSeq(s, 1, FrameLen)) = FrameLen
        BY <1>2, <4>1, Cuts
      <4>3. ASSUME NEW i \in 1..FrameLen PROVE SubSeq(b, 1, FrameLen)[i] = SubSeq(s, 1, FrameLen)[i]
        <5>1. SubSeq(b, 1, FrameLen)[i] = b[i] /\ SubSeq(s, 1, FrameLen)[i] = s[i]
          BY <1>0, <1>2, <4>1
        <5>2. s[i] = b[i]
          BY <1>0, <1>1, <4>1
        <5>. QED
          BY <5>1, <5>2
      <4>. QED
        BY <4>2, <4>3, SeqEqual
    <3>4. SubSeq(b, 1, FrameLen) = Frame(b[1][1])
      BY <2>1, <3>2, <3>3
    <3>. QED
      BY <1>0, <1>1, <1>4, <2>1, <2>3, <2>5, <3>4 DEF UnpackOne
  <2>. QED
    BY <2>4, <2>5
<1>. QED
  BY <1>3, <1>4
------------------------------------------------------------------------------
(* Boxes, and what moves a message from one to another.                      *)

LEMMA SecondOfNamed ==
  ASSUME NEW S
  PROVE  Second(Named(S)) = {m.n : m \in S}
<1>1. ASSUME NEW x \in Second(Named(S)) PROVE x \in {m.n : m \in S}
  <2>1. PICK e \in Named(S) : x = e[2]
    BY DEF Second
  <2>2. PICK m \in S : e = <<m.type, m.n>>
    BY DEF Named
  <2>. QED
    BY <2>1, <2>2
<1>2. ASSUME NEW m \in S PROVE m.n \in Second(Named(S))
  <2>1. <<m.type, m.n>> \in Named(S) /\ <<m.type, m.n>>[2] = m.n
    BY DEF Named
  <2>. QED
    BY <2>1 DEF Second
<1>. QED
  BY <1>1, <1>2

LEMMA Joins ==
  ASSUME NEW S, NEW T, Distinct(Named(S)), Distinct(Named(T)),
         Second(Named(S)) \intersect Second(Named(T)) = {}
  PROVE  /\ Second(Named(S \union T)) = Second(Named(S)) \union Second(Named(T))
         /\ Distinct(Named(S \union T))
<1>1. PICK x, y : x = Named(S) /\ y = Named(T)
  OBVIOUS
<1>2. Named(S \union T) = x \union y
  BY <1>1 DEF Named
<1>3. Second(x \union y) = Second(x) \union Second(y)
  BY DEF Second
<1>4. (\A e \in x : e[2] \in Second(x)) /\ (\A e \in y : e[2] \in Second(y))
  BY DEF Second
<1>5. Distinct(x \union y)
  BY <1>1, <1>4 DEF Distinct
<1>. QED
  BY <1>1, <1>2, <1>3, <1>5

LEMMA NamedOne ==
  ASSUME NEW m
  PROVE  Named({m}) = {<<m.type, m.n>>} /\ Second(Named({m})) = {m.n} /\ Distinct(Named({m}))
<1>1. Named({m}) = {<<m.type, m.n>>}
  BY DEF Named
<1>2. Second(Named({m})) = {m.n}
  BY SecondOfNamed
<1>3. Distinct(Named({m}))
  BY <1>1 DEF Distinct
<1>. QED
  BY <1>1, <1>2, <1>3

\* The messages dropped with a connection: those whose frame has not arrived.
LEMMA Gone ==
  ASSUME NEW s \in Seq(Pieces), Distinct(Lasts(s)), NEW h \in 0..Len(s)
  PROVE  LET x == SubSeq(s, 1, h)
             G == Named(Whole(SubSeq(s, h + 1, Len(s))))
         IN /\ Lasts(x) \subseteq Lasts(s) /\ Distinct(Lasts(x)) /\ Distinct(G)
            /\ Second(G) \subseteq Second(Lasts(s))
            /\ Second(Lasts(x)) = Second(Lasts(s)) \ Second(G)
<1>1. PICK x, y, W : /\ x = SubSeq(s, 1, h) /\ y = SubSeq(s, h + 1, Len(s)) /\ W = Whole(y)
  OBVIOUS
<1>2. /\ Len(s) \in Nat /\ DOMAIN s = 1..Len(s) /\ DOMAIN x = 1..h /\ DOMAIN y = 1..(Len(s) - h)
      /\ h \in Nat /\ h <= Len(s)
  BY <1>1
<1>3. \A k \in 1..h : k \in DOMAIN s /\ x[k] = s[k]
  BY <1>1, <1>2
<1>4. \A k \in 1..(Len(s) - h) : k + h \in DOMAIN s /\ y[k] = s[k + h]
  BY <1>1, <1>2
<1>5. Lasts(x) \subseteq Lasts(s)
  BY <1>2, <1>3 DEF Lasts
<1>6. ASSUME NEW m \in W
      PROVE  \E k \in DOMAIN s : k > h /\ s[k][2] = FrameLen /\ s[k][1] = m
  <2>1. PICK q \in DOMAIN y : y[q][2] = FrameLen /\ m = y[q][1]
    BY <1>1 DEF Whole
  <2>2. q + h \in DOMAIN s /\ s[q + h] = y[q] /\ q + h > h
    BY <1>2, <1>4
  <2>. QED
    BY <2>1, <2>2
<1>7. ASSUME NEW k \in DOMAIN s, k > h, s[k][2] = FrameLen PROVE s[k][1] \in W
  <2>1. PICK q : q = k - h
    OBVIOUS
  <2>2. q \in 1..(Len(s) - h) /\ q + h = k
    BY <1>2, <1>7, <2>1
  <2>3. q \in DOMAIN y /\ y[q] = s[k]
    BY <1>2, <1>4, <2>2
  <2>. QED
    BY <1>1, <1>7, <2>3 DEF Whole
<1>8. Second(Named(W)) = {m.n : m \in W}
  BY SecondOfNamed
<1>9. Second(Named(W)) \subseteq Second(Lasts(s))
  <2> SUFFICES ASSUME NEW m \in W PROVE m.n \in Second(Lasts(s))
    BY <1>8
  <2>1. PICK k \in DOMAIN s : s[k][2] = FrameLen /\ s[k][1] = m
    BY <1>6
  <2>. QED
    BY <2>1, LastsIs
<1>10. ASSUME NEW j \in DOMAIN s, NEW k \in DOMAIN s, s[j][2] = FrameLen, s[k][2] = FrameLen,
              s[j][1].n = s[k][1].n
       PROVE  j = k
  <2>1. <<j, s[j][1].n>> \in Lasts(s) /\ <<k, s[k][1].n>> \in Lasts(s)
    BY <1>10, LastsIs
  <2>2. <<j, s[j][1].n>> = <<k, s[k][1].n>>
    BY <1>10, <2>1 DEF Distinct
  <2>. QED
    BY <2>2
<1>11. Distinct(Named(W))
  <2> SUFFICES ASSUME NEW l \in W, NEW m \in W, l.n = m.n PROVE l = m
    BY DEF Distinct, Named
  <2>1. PICK j \in DOMAIN s : s[j][2] = FrameLen /\ s[j][1] = l
    BY <1>6
  <2>2. PICK k \in DOMAIN s : s[k][2] = FrameLen /\ s[k][1] = m
    BY <1>6
  <2>3. j = k
    BY <1>10, <2>1, <2>2
  <2>. QED
    BY <2>1, <2>2, <2>3
<1>12. ASSUME NEW i \in Second(Lasts(x)) PROVE i \in Second(Lasts(s)) /\ i \notin Second(Named(W))
  <2>1. PICK e \in Lasts(x) : i = e[2]
    BY DEF Second
  <2>2. PICK j \in DOMAIN x : x[j][2] = FrameLen /\ e = <<j, x[j][1].n>>
    BY LastsIs
  <2>3. j \in DOMAIN s /\ s[j] = x[j] /\ j <= h /\ i = s[j][1].n /\ s[j][2] = FrameLen
    BY <1>2, <1>3, <2>1, <2>2
  <2>4. i \in Second(Lasts(s))
    BY <2>3, LastsIs
  <2>5. ASSUME i \in Second(Named(W)) PROVE FALSE
    <3>1. PICK m \in W : i = m.n
      BY <1>8, <2>5
    <3>2. PICK k \in DOMAIN s : k > h /\ s[k][2] = FrameLen /\ s[k][1] = m
      BY <1>6
    <3>3. j = k
      BY <1>10, <2>3, <3>1, <3>2
    <3>. QED
      BY <1>2, <2>3, <3>2, <3>3
  <2>. QED
    BY <2>4, <2>5
<1>13. ASSUME NEW i \in Second(Lasts(s)), i \notin Second(Named(W)) PROVE i \in Second(Lasts(x))
  <2>1. PICK e \in Lasts(s) : i = e[2]
    BY DEF Second
  <2>2. PICK j \in DOMAIN s : s[j][2] = FrameLen /\ e = <<j, s[j][1].n>>
    BY LastsIs
  <2>3. i = s[j][1].n
    BY <2>1, <2>2
  <2>4. ~(j > h)
    BY <1>7, <1>8, <1>13, <2>2, <2>3
  <2>5. j \in DOMAIN x /\ x[j] = s[j]
    BY <1>2, <1>3, <2>4
  <2>. QED
    BY <2>2, <2>3, <2>5, LastsIs
<1>. QED
  BY <1>1, <1>5, <1>9, <1>11, <1>12, <1>13, PartOfDistinct

\* The messages of a queue as a set, and a set less one message.
LEMMA SetOf ==
  ASSUME NEW s \in Seq(Messages), Distinct(Numbered(s))
  PROVE  Second(Named(ToSet(s))) = Second(Numbered(s)) /\ Distinct(Named(ToSet(s)))
<1>1. ToSet(s) = {s[k] : k \in DOMAIN s}
  BY DEF ToSet
<1>2. Second(Named(ToSet(s))) = {m.n : m \in ToSet(s)}
  BY SecondOfNamed
<1>3. Second(Numbered(s)) = {s[k].n : k \in DOMAIN s}
  BY SecondOfNumbered
<1>4. Distinct(Named(ToSet(s)))
  <2> SUFFICES ASSUME NEW l \in ToSet(s), NEW m \in ToSet(s), l.n = m.n PROVE l = m
    BY DEF Distinct, Named
  <2>1. PICK j \in DOMAIN s, k \in DOMAIN s : l = s[j] /\ m = s[k]
    BY <1>1
  <2>2. <<j, s[j].n>> \in Numbered(s) /\ <<k, s[k].n>> \in Numbered(s)
    BY DEF Numbered
  <2>3. <<j, s[j].n>> = <<k, s[k].n>>
    BY <2>1, <2>2 DEF Distinct
  <2>. QED
    BY <2>1, <2>3
<1>. QED
  BY <1>1, <1>2, <1>3, <1>4

LEMMA NamedLess ==
  ASSUME NEW S, S \subseteq Messages, NEW m \in S, Distinct(Named(S))
  PROVE  /\ m.n \in Second(Named(S)) /\ Distinct(Named(S \ {m}))
         /\ Second(Named(S \ {m})) = Second(Named(S)) \ {m.n}
<1>1. Second(Named(S)) = {l.n : l \in S}
  BY SecondOfNamed
<1>2. Second(Named(S \ {m})) = {l.n : l \in S \ {m}}
  BY SecondOfNamed
<1>3. Named(S \ {m}) \subseteq Named(S)
  BY DEF Named
<1>4. ASSUME NEW l \in S, l.n = m.n PROVE l = m
  <2>1. <<l.type, l.n>> \in Named(S) /\ <<m.type, m.n>> \in Named(S)
    BY DEF Named
  <2>2. <<l.type, l.n>> = <<m.type, m.n>>
    BY <1>4, <2>1 DEF Distinct
  <2>3. l \in [type : Types, n : 1..MaxSends] /\ m \in [type : Types, n : 1..MaxSends]
    BY DEF Messages
  <2>4. l = [type |-> l.type, n |-> l.n] /\ m = [type |-> m.type, n |-> m.n]
    BY <2>3
  <2>. QED
    BY <2>2, <2>4
<1>. QED
  BY <1>1, <1>2, <1>3, <1>4, PartOfDistinct

\* The messages W come to a set of messages.
LEMMA NamedMore ==
  ASSUME Apart, NEW b1 \in Boxes, NEW b2 \in Boxes, b1 # b2, NEW D, NEW W,
         Entries(b2) = Named(D), Entries(b2)' = Named(D \union W),
         Distinct(Named(W)), Second(Named(W)) \subseteq Held(b1)
  PROVE  Held(b2)' = Held(b2) \union Second(Named(W)) /\ Distinct(Entries(b2)')
<1>1. Distinct(Named(D)) /\ Second(Named(D)) \intersect Second(Named(W)) = {}
  BY DEF Apart, Held
<1>2. PICK x : x = Named(D \union W)
  OBVIOUS
<1>3. Second(x) = Second(Named(D)) \union Second(Named(W)) /\ Distinct(x)
  BY <1>1, <1>2, Joins
<1>4. Entries(b2)' = x
  BY <1>2
<1>. QED
  BY <1>3, <1>4 DEF Held

LEMMA BoxCases ==
  /\ <<"inbox", 0>> \in Boxes /\ <<"queue", 0>> \in Boxes /\ <<"pending", 0>> \in Boxes
  /\ <<"stray", 0>> \in Boxes /\ <<"lost", 0>> \in Boxes /\ <<"unrouted", 0>> \in Boxes
  /\ \A c \in Conns : <<"stream", c>> \in Boxes /\ <<"todo", c>> \in Boxes
  /\ \A a \in Agents : /\ <<"inboxes", a>> \in Boxes /\ <<"strays", a>> \in Boxes
                       /\ <<"taken", a>> \in Boxes
  /\ \A b \in Boxes :
       \/ b = <<"inbox", 0>> \/ b = <<"queue", 0>> \/ b = <<"pending", 0>>
       \/ b = <<"stray", 0>> \/ b = <<"lost", 0>> \/ b = <<"unrouted", 0>>
       \/ \E c \in Conns : b = <<"stream", c>> \/ b = <<"todo", c>>
       \/ \E a \in Agents : b = <<"inboxes", a>> \/ b = <<"strays", a>> \/ b = <<"taken", a>>
BY DEF Boxes

LEMMA EntriesOf ==
  /\ Entries(<<"inbox", 0>>) = Numbered(inbox)
  /\ Entries(<<"queue", 0>>) = Numbered(queue)
  /\ Entries(<<"pending", 0>>) = Named({pending} \ {None})
  /\ Entries(<<"stray", 0>>) = Named(stray)
  /\ Entries(<<"lost", 0>>) = Named(lost)
  /\ Entries(<<"unrouted", 0>>) = Named(unrouted)
  /\ \A c \in Conns : /\ Entries(<<"stream", c>>) = Lasts(Stream(c))
                      /\ Entries(<<"todo", c>>) = Numbered(todo[c])
  /\ \A a \in Agents : /\ Entries(<<"inboxes", a>>) = Numbered(inboxes[a])
                       /\ Entries(<<"strays", a>>) = Named(strays[a])
                       /\ Entries(<<"taken", a>>) = Numbered(taken[a])
BY DEF Entries

LEMMA EntriesNext ==
  /\ Entries(<<"inbox", 0>>)' = Numbered(inbox')
  /\ Entries(<<"queue", 0>>)' = Numbered(queue')
  /\ Entries(<<"pending", 0>>)' = Named({pending'} \ {None})
  /\ Entries(<<"stray", 0>>)' = Named(stray')
  /\ Entries(<<"lost", 0>>)' = Named(lost')
  /\ Entries(<<"unrouted", 0>>)' = Named(unrouted')
  /\ \A c \in Conns : /\ Entries(<<"stream", c>>)' = Lasts(Stream(c)')
                      /\ Entries(<<"todo", c>>)' = Numbered(todo'[c])
  /\ \A a \in Agents : /\ Entries(<<"inboxes", a>>)' = Numbered(inboxes'[a])
                       /\ Entries(<<"strays", a>>)' = Named(strays'[a])
                       /\ Entries(<<"taken", a>>)' = Numbered(taken'[a])
BY DEF Entries

LEMMA Ranks ==
  /\ Rank(<<"inbox", 0>>) = 6 /\ Rank(<<"queue", 0>>) = 5 /\ Rank(<<"pending", 0>>) = 4
  /\ Rank(<<"stray", 0>>) = 0 /\ Rank(<<"lost", 0>>) = 0 /\ Rank(<<"unrouted", 0>>) = 0
  /\ \A c \in Conns : Rank(<<"stream", c>>) = 3 /\ Rank(<<"todo", c>>) = 2
  /\ \A a \in Agents : /\ Rank(<<"inboxes", a>>) = 1 /\ Rank(<<"strays", a>>) = 0
                       /\ Rank(<<"taken", a>>) = 1
  /\ \A b \in Boxes : Rank(b) \in 0..6
BY DEF Rank

\* A step takes the messages S out of b1 and puts them into b2.
Moves(S, b1, b2) ==
  /\ b1 # b2 /\ S \subseteq Held(b1)
  /\ Held(b1)' = Held(b1) \ S /\ Held(b2)' = Held(b2) \union S
  /\ \A b \in Boxes : b # b1 /\ b # b2 => Entries(b)' = Entries(b)

LEMMA MoveApart ==
  ASSUME Apart, sent' = sent, NEW S, NEW b1 \in Boxes, NEW b2 \in Boxes, Moves(S, b1, b2),
         Distinct(Entries(b1)'), Distinct(Entries(b2)')
  PROVE  Apart'
<1>. b1 # b2 /\ S \subseteq Held(b1) /\ Held(b1)' = Held(b1) \ S /\ Held(b2)' = Held(b2) \union S
  BY DEF Moves
<1>0. \A b \in Boxes : b # b1 /\ b # b2 => Entries(b)' = Entries(b)
  BY DEF Moves
<1>1. \A b \in Boxes : b # b1 /\ b # b2 => Held(b)' = Held(b)
  BY <1>0 DEF Held
<1>2. \A n \in 1..sent : \E b \in Boxes : n \in Held(b)'
  <2> SUFFICES ASSUME NEW n \in 1..sent PROVE \E b \in Boxes : n \in Held(b)'
    OBVIOUS
  <2>1. PICK b \in Boxes : n \in Held(b)
    BY DEF Apart
  <2>2. CASE b = b1 \/ b = b2
    BY <2>1, <2>2
  <2>3. CASE b # b1 /\ b # b2
    BY <1>1, <2>1, <2>3
  <2>. QED
    BY <2>2, <2>3
<1>3. \A b \in Boxes : Held(b)' \subseteq 1..sent /\ Distinct(Entries(b)')
  <2> SUFFICES ASSUME NEW b \in Boxes PROVE Held(b)' \subseteq 1..sent /\ Distinct(Entries(b)')
    OBVIOUS
  <2>1. Held(b) \subseteq 1..sent /\ Distinct(Entries(b)) /\ Held(b1) \subseteq 1..sent
    BY DEF Apart
  <2>2. CASE b = b1 \/ b = b2
    BY <2>1, <2>2
  <2>3. CASE b # b1 /\ b # b2
    BY <1>0, <1>1, <2>1, <2>3
  <2>. QED
    BY <2>2, <2>3
<1>4. \A a, b \in Boxes : a # b => Held(a)' \intersect Held(b)' = {}
  <2> SUFFICES ASSUME NEW a \in Boxes, NEW b \in Boxes, a # b, NEW x, x \in Held(a)', x \in Held(b)'
               PROVE  FALSE
    OBVIOUS
  <2>1. \A i, j \in Boxes : x \in Held(i) /\ x \in Held(j) => i = j
    BY DEF Apart
  <2>2. \A i \in Boxes : x \in Held(i)' => IF x \in S THEN i = b2 ELSE x \in Held(i)
    <3> SUFFICES ASSUME NEW i \in Boxes, x \in Held(i)'
                 PROVE  IF x \in S THEN i = b2 ELSE x \in Held(i)
      OBVIOUS
    <3>1. CASE i = b1 \/ i = b2
      BY <3>1
    <3>2. CASE i # b1 /\ i # b2
      <4>1. x \in Held(i)
        BY <1>1, <3>2
      <4>. QED
        BY <2>1, <3>2, <4>1
    <3>. QED
      BY <3>1, <3>2
  <2>. QED
    BY <2>1, <2>2
<1>. QED
  BY <1>2, <1>3, <1>4 DEF Apart

\* The rest of InLine.
Arriving ==
  cut = {} /\ ~met =>
    \A a \in Agents \ upset : Before(Held(<<"taken", a>>), Held(<<"inboxes", a>>))

\* Connections stay broken, and sends that met have met.
Onward == cut \subseteq cut' /\ (met => met') /\ upset \subseteq upset'

\* Such a step keeps the order if the messages overtake none.
LEMMA MoveLine ==
  ASSUME Apart, InLine, Onward, NEW S, NEW b1 \in Boxes, NEW b2 \in Boxes, Moves(S, b1, b2),
         Rank(b2) <= Rank(b1) \/ (Rank(b2) <= 1 /\ ~Minded(b2)'),
         Rank(b1) = 1 /\ Minded(b2)' => Minded(b1),
         Minded(b2)' /\ Rank(b2) < Rank(b1) =>
           /\ Before(S, Held(b1) \ S)
           /\ \A b \in Boxes : b # b1 /\ Rank(b2) < Rank(b) /\ Rank(b) <= Rank(b1) => Held(b) = {},
         Minded(b1)' /\ Rank(b1) # 4 => Sorted(Entries(b1)'),
         Minded(b2)' /\ Rank(b2) # 4 => Sorted(Entries(b2)'),
         Arriving'
  PROVE  InLine'
<1>. b1 # b2 /\ S \subseteq Held(b1) /\ Held(b1)' = Held(b1) \ S /\ Held(b2)' = Held(b2) \union S
  BY DEF Moves
<1>0. \A b \in Boxes : b # b1 /\ b # b2 => Entries(b)' = Entries(b)
  BY DEF Moves
<1>1. \A b \in Boxes : b # b1 /\ b # b2 => Held(b)' = Held(b)
  BY <1>0 DEF Held
<1>2. \A b \in Boxes : Rank(b) \in Int
  BY Ranks
<1>3. \A b \in Boxes : (Minded(b)' => Minded(b)) /\ (Minded(b)' => Rank(b) > 0)
  BY DEF Minded, Onward
<1>4. \A a, b \in Boxes : Minded(a) /\ Rank(a) < Rank(b) => Before(Held(a), Held(b))
  BY DEF InLine
<1>5. ASSUME NEW a \in Boxes, NEW b \in Boxes, Minded(a)', Rank(a) < Rank(b)
      PROVE  Before(Held(a)', Held(b)')
  <2>0. a # b
    BY <1>2, <1>5
  <2>1. Minded(a) /\ Before(Held(a), Held(b))
    BY <1>3, <1>4, <1>5
  <2>2. CASE a = b1 /\ b # b2
    <3>1. Held(a)' \subseteq Held(a) /\ Held(b)' = Held(b)
      BY <1>1, <2>0, <2>2
    <3>. QED
      BY <2>1, <3>1 DEF Before
  <2>3. CASE a = b1 /\ b = b2
    BY <1>2, <1>3, <1>5, <2>3
  <2>4. CASE a = b2 /\ b = b1
    <3>1. Held(a)' = Held(a) \union S /\ Held(b)' = Held(b) \ S /\ Before(S, Held(b) \ S)
      BY <1>5, <2>4
    <3>. QED
      BY <2>1, <3>1 DEF Before
  <2>5. CASE a = b2 /\ b # b1
    <3>1. Held(a)' = Held(a) \union S /\ Held(b)' = Held(b)
      BY <1>1, <2>0, <2>5
    <3>2. CASE Rank(b) <= Rank(b1)
      <4>1. Rank(b2) < Rank(b1)
        BY <1>2, <1>5, <2>5, <3>2
      <4>2. Held(b) = {}
        BY <1>5, <2>5, <3>2, <4>1
      <4>. QED
        BY <3>1, <4>2 DEF Before
    <3>3. CASE Rank(b1) < Rank(b)
      <4>1. Minded(b1)
        <5>1. Rank(b1) >= Rank(a) /\ Rank(a) > 0 /\ Minded(b2)' /\ Rank(b1) > 0
          BY <1>2, <1>3, <1>5, <2>5
        <5>2. CASE Rank(b1) = 1
          BY <5>1, <5>2
        <5>3. CASE Rank(b1) # 1
          BY <1>2, <2>1, <5>1, <5>3 DEF Minded
        <5>. QED
          BY <5>2, <5>3
      <4>2. Before(Held(b1), Held(b))
        BY <1>4, <3>3, <4>1
      <4>. QED
        BY <2>1, <3>1, <4>2 DEF Before
    <3>. QED
      BY <1>2, <3>2, <3>3
  <2>6. CASE a # b1 /\ a # b2 /\ b = b2
    <3>1. Held(a)' = Held(a) /\ Held(b)' = Held(b) \union S
      BY <1>1, <2>6
    <3>2. Rank(a) < Rank(b1)
      BY <1>2, <1>3, <1>5, <2>6
    <3>3. Before(Held(a), Held(b1))
      BY <1>4, <2>1, <3>2
    <3>. QED
      BY <2>1, <3>1, <3>3 DEF Before
  <2>7. CASE a # b1 /\ a # b2 /\ b # b2
    <3>1. Held(a)' = Held(a) /\ Held(b)' \subseteq Held(b)
      BY <1>1, <2>7
    <3>. QED
      BY <2>1, <3>1 DEF Before
  <2>. QED
    BY <2>2, <2>3, <2>4, <2>5, <2>6, <2>7
<1>6. ASSUME NEW b \in Boxes, Minded(b)', Rank(b) # 4 PROVE Sorted(Entries(b)')
  <2>1. CASE b = b1 \/ b = b2
    BY <1>6, <2>1
  <2>2. CASE b # b1 /\ b # b2
    <3>1. Entries(b)' = Entries(b) /\ Minded(b)
      BY <1>0, <1>3, <1>6, <2>2
    <3>. QED
      BY <1>6, <3>1 DEF InLine
  <2>. QED
    BY <2>1, <2>2
<1>. QED
  BY <1>5, <1>6 DEF InLine, Arriving

\* The same for a step that takes the messages out of a box before the agents'.
LEMMA MoveOn ==
  ASSUME Apart, InLine, Onward, NEW S, NEW b1 \in Boxes, NEW b2 \in Boxes, Moves(S, b1, b2),
         Rank(b2) < Rank(b1), Rank(b1) # 1,
         Minded(b2)' =>
           /\ Before(S, Held(b1) \ S)
           /\ \A b \in Boxes : b # b1 /\ Rank(b2) < Rank(b) /\ Rank(b) <= Rank(b1) => Held(b) = {},
         Minded(b1)' => Rank(b1) = 4 \/ Sorted(Entries(b1)'),
         Minded(b2)' => Rank(b2) = 4 \/ Sorted(Entries(b2)'),
         Arriving'
  PROVE  InLine'
<1>1. Rank(b2) <= Rank(b1)
  BY Ranks
<1>2. Rank(b1) = 1 /\ Minded(b2)' => Minded(b1)
  OBVIOUS
<1>3. /\ Minded(b1)' /\ Rank(b1) # 4 => Sorted(Entries(b1)')
      /\ Minded(b2)' /\ Rank(b2) # 4 => Sorted(Entries(b2)')
  OBVIOUS
<1>. QED
  BY <1>1, <1>2, <1>3, MoveLine

\* A step that moves nothing, though a connection may break in it.
LEMMA StayApart ==
  ASSUME Apart, sent' = sent, \A b \in Boxes : Entries(b)' = Entries(b)
  PROVE  Apart'
<1>1. \A b \in Boxes : Held(b)' = Held(b)
  BY DEF Held
<1>. QED
  BY <1>1 DEF Apart

LEMMA StayLine ==
  ASSUME InLine, Onward, \A b \in Boxes : Entries(b)' = Entries(b)
  PROVE  InLine'
<1>1. \A b \in Boxes : Held(b)' = Held(b)
  BY DEF Held
<1>2. \A b \in Boxes : Minded(b)' => Minded(b)
  BY DEF Minded, Onward
<1>3. /\ cut' = {} /\ ~met' => cut = {} /\ ~met
      /\ \A a \in Agents : a \notin upset' => a \notin upset
  BY DEF Onward
<1>4. \A a \in Agents : <<"inboxes", a>> \in Boxes /\ <<"taken", a>> \in Boxes
  BY BoxCases
<1>. QED
  BY <1>1, <1>2, <1>3, <1>4 DEF InLine

\* Where no agent's messages move, except where sends have met.
LEMMA StayArriving ==
  ASSUME InLine, Onward,
         \A a \in Agents \ upset' :
           /\ Entries(<<"inboxes", a>>)' = Entries(<<"inboxes", a>>)
           /\ Entries(<<"taken", a>>)' = Entries(<<"taken", a>>)
  PROVE  Arriving'
<1>1. \A a \in Agents \ upset' : /\ Held(<<"inboxes", a>>)' = Held(<<"inboxes", a>>)
                                 /\ Held(<<"taken", a>>)' = Held(<<"taken", a>>)
  BY DEF Held
<1>2. /\ cut' = {} /\ ~met' => cut = {} /\ ~met
      /\ \A a \in Agents : a \notin upset' => a \notin upset
  BY DEF Onward
<1>. QED
  BY <1>1, <1>2 DEF InLine, Arriving

\* Where sends have met in the gateway's inbox there is no order to keep.
LEMMA MetLine == ASSUME met' PROVE InLine'
<1>1. \A b \in Boxes : ~Minded(b)'
  BY DEF Minded
<1>. QED
  BY <1>1 DEF InLine

\* A new message in the gateway's inbox, or dropped there.
LEMMA AddApart ==
  ASSUME Apart, sent \in Nat, sent' = sent + 1, NEW b2 \in Boxes,
         Held(b2)' = Held(b2) \union {sent + 1}, Distinct(Entries(b2)'),
         \A b \in Boxes : b # b2 => Entries(b)' = Entries(b)
  PROVE  Apart'
<1>1. \A b \in Boxes : b # b2 => Held(b)' = Held(b)
  BY DEF Held
<1>2. \A n \in 1..(sent + 1) : \E b \in Boxes : n \in Held(b)'
  <2> SUFFICES ASSUME NEW n \in 1..(sent + 1) PROVE \E b \in Boxes : n \in Held(b)'
    OBVIOUS
  <2>1. CASE n = sent + 1
    BY <2>1
  <2>2. CASE n # sent + 1
    <3>1. n \in 1..sent
      BY <2>2
    <3>2. PICK b \in Boxes : n \in Held(b)
      BY <3>1 DEF Apart
    <3>3. n \in Held(b)'
      BY <1>1, <3>2
    <3>. QED
      BY <3>3
  <2>. QED
    BY <2>1, <2>2
<1>3. \A b \in Boxes : Held(b)' \subseteq 1..(sent + 1) /\ Distinct(Entries(b)')
  <2> SUFFICES ASSUME NEW b \in Boxes
               PROVE  Held(b)' \subseteq 1..(sent + 1) /\ Distinct(Entries(b)')
    OBVIOUS
  <2>1. Held(b) \subseteq 1..sent /\ Distinct(Entries(b))
    BY DEF Apart
  <2>2. Held(b) \subseteq 1..(sent + 1)
    BY <2>1
  <2>3. CASE b = b2
    BY <2>2, <2>3
  <2>4. CASE b # b2
    BY <1>1, <2>1, <2>2, <2>4
  <2>. QED
    BY <2>3, <2>4
<1>4. \A a, b \in Boxes : a # b => Held(a)' \intersect Held(b)' = {}
  <2>1. \A b \in Boxes : sent + 1 \notin Held(b)
    BY DEF Apart
  <2>2. \A a, b \in Boxes : a # b => Held(a) \intersect Held(b) = {}
    BY DEF Apart
  <2>. QED
    BY <1>1, <2>1, <2>2
<1>. QED
  BY <1>2, <1>3, <1>4 DEF Apart

LEMMA AddLine ==
  ASSUME Apart, InLine, sent \in Nat, cut' = cut, met' = met, upset' = upset, NEW b2 \in Boxes,
         Rank(b2) = 6 \/ Rank(b2) = 0,
         Held(b2)' = Held(b2) \union {sent + 1}, Rank(b2) = 6 => Sorted(Entries(b2)'),
         \A b \in Boxes : b # b2 => Entries(b)' = Entries(b), Arriving'
  PROVE  InLine'
<1>1. \A b \in Boxes : b # b2 => Held(b)' = Held(b)
  BY DEF Held
<1>2. \A b \in Boxes : Minded(b)' <=> Minded(b)
  BY DEF Minded
<1>3. ASSUME NEW a \in Boxes, NEW b \in Boxes, Minded(a)', Rank(a) < Rank(b)
      PROVE  Before(Held(a)', Held(b)')
  <2>1. Before(Held(a), Held(b)) /\ Rank(a) \in 0..6 /\ Rank(b) \in 0..6 /\ Rank(a) > 0
    BY <1>2, <1>3, Ranks DEF InLine, Minded
  <2>2. a # b2 /\ Held(a)' = Held(a)
    BY <1>1, <1>3, <2>1
  <2>3. Before(Held(a), {sent + 1})
    <3>1. Held(a) \subseteq 1..sent
      BY DEF Apart
    <3>. QED
      BY <3>1 DEF Before
  <2>4. Held(b)' \subseteq Held(b) \union {sent + 1}
    BY <1>1
  <2>. QED
    BY <2>1, <2>2, <2>3, <2>4 DEF Before
<1>4. ASSUME NEW b \in Boxes, Minded(b)', Rank(b) # 4 PROVE Sorted(Entries(b)')
  <2>1. CASE b = b2
    BY <1>4, <2>1 DEF Minded
  <2>2. CASE b # b2
    BY <1>2, <1>4, <2>2 DEF InLine
  <2>. QED
    BY <2>1, <2>2
<1>. QED
  BY <1>3, <1>4 DEF InLine, Arriving
------------------------------------------------------------------------------
(* The steps of the sending swarm.                                           *)

LEMMA RankCases ==
  ASSUME NEW b \in Boxes
  PROVE  /\ Rank(b) = 6 => b = <<"inbox", 0>>
         /\ Rank(b) = 5 => b = <<"queue", 0>>
         /\ Rank(b) = 4 => b = <<"pending", 0>>
         /\ Rank(b) = 3 => \E c \in Conns : b = <<"stream", c>>
         /\ Rank(b) = 2 => \E c \in Conns : b = <<"todo", c>>
<1>1. ASSUME NEW c \in Conns, b = <<"stream", c>>
      PROVE  Rank(b) = 3 /\ \E i \in Conns : b = <<"stream", i>>
  BY <1>1, Ranks
<1>2. ASSUME NEW c \in Conns, b = <<"todo", c>>
      PROVE  Rank(b) = 2 /\ \E i \in Conns : b = <<"todo", i>>
  BY <1>2, Ranks
<1>3. CASE \E a \in Agents : b = <<"inboxes", a>> \/ b = <<"strays", a>> \/ b = <<"taken", a>>
  <2>1. Rank(b) = 1 \/ Rank(b) = 0
    BY <1>3, Ranks
  <2>. QED
    BY <2>1
<1>4. CASE b = <<"inbox", 0>> \/ b = <<"queue", 0>> \/ b = <<"pending", 0>>
           \/ b = <<"stray", 0>> \/ b = <<"lost", 0>> \/ b = <<"unrouted", 0>>
  BY <1>4, Ranks
<1>. QED
  BY <1>1, <1>2, <1>3, <1>4, BoxCases

\* The box holds the same unless what it is made of changes.
LEMMA Same ==
  ASSUME NEW b \in Boxes, Entries(b)' # Entries(b)
  PROVE  \/ b = <<"inbox", 0>> /\ inbox' # inbox
         \/ b = <<"queue", 0>> /\ queue' # queue
         \/ b = <<"pending", 0>> /\ pending' # pending
         \/ b = <<"stray", 0>> /\ stray' # stray
         \/ b = <<"lost", 0>> /\ lost' # lost
         \/ b = <<"unrouted", 0>> /\ unrouted' # unrouted
         \/ \E c \in Conns : b = <<"stream", c>> /\ Stream(c)' # Stream(c)
         \/ \E c \in Conns : b = <<"todo", c>> /\ todo'[c] # todo[c]
         \/ \E a \in Agents : b = <<"inboxes", a>> /\ inboxes'[a] # inboxes[a]
         \/ \E a \in Agents : b = <<"strays", a>> /\ strays'[a] # strays[a]
         \/ \E a \in Agents : b = <<"taken", a>> /\ taken'[a] # taken[a]
<1>1. CASE b = <<"inbox", 0>>
  BY <1>1, EntriesOf, EntriesNext
<1>2. CASE b = <<"queue", 0>>
  BY <1>2, EntriesOf, EntriesNext
<1>3. CASE b = <<"pending", 0>>
  BY <1>3, EntriesOf, EntriesNext
<1>4. CASE b = <<"lost", 0>>
  BY <1>4, EntriesOf, EntriesNext
<1>5. CASE b = <<"unrouted", 0>>
  BY <1>5, EntriesOf, EntriesNext
<1>6. ASSUME NEW c \in Conns, b = <<"stream", c>> PROVE Stream(c)' # Stream(c)
  <2>1. Entries(b) = Lasts(Stream(c)) /\ Entries(b)' = Lasts(Stream(c)')
    BY <1>6, EntriesOf, EntriesNext
  <2>. QED
    BY <2>1
<1>7. ASSUME NEW c \in Conns, b = <<"todo", c>> PROVE todo'[c] # todo[c]
  <2>1. Entries(b) = Numbered(todo[c]) /\ Entries(b)' = Numbered(todo'[c])
    BY <1>7, EntriesOf, EntriesNext
  <2>. QED
    BY <2>1
<1>8. ASSUME NEW a \in Agents, b = <<"inboxes", a>> PROVE inboxes'[a] # inboxes[a]
  <2>1. Entries(b) = Numbered(inboxes[a]) /\ Entries(b)' = Numbered(inboxes'[a])
    BY <1>8, EntriesOf, EntriesNext
  <2>. QED
    BY <2>1
<1>9. ASSUME NEW a \in Agents, b = <<"taken", a>> PROVE taken'[a] # taken[a]
  <2>1. Entries(b) = Numbered(taken[a]) /\ Entries(b)' = Numbered(taken'[a])
    BY <1>9, EntriesOf, EntriesNext
  <2>. QED
    BY <2>1
<1>10. CASE b = <<"stray", 0>>
  BY <1>10, EntriesOf, EntriesNext
<1>11. ASSUME NEW a \in Agents, b = <<"strays", a>> PROVE strays'[a] # strays[a]
  <2>1. Entries(b) = Named(strays[a]) /\ Entries(b)' = Named(strays'[a])
    BY <1>11, EntriesOf, EntriesNext
  <2>. QED
    BY <2>1
<1>. QED
  BY <1>10, <1>11, <1>1, <1>2, <1>3, <1>4, <1>5, <1>6, <1>7, <1>8, <1>9, BoxCases, Zenon

\* What is minded whether or not a connection has broken, and what never is.
LEMMA AlwaysMinded ==
  /\ ~met => Minded(<<"inbox", 0>>) /\ Minded(<<"queue", 0>>) /\ Minded(<<"pending", 0>>)
  /\ ~met' => Minded(<<"inbox", 0>>)' /\ Minded(<<"queue", 0>>)' /\ Minded(<<"pending", 0>>)'
BY Ranks DEF Minded

LEMMA NeverMinded ==
  ASSUME NEW b, Rank(b) = 0
  PROVE  ~Minded(b) /\ ~Minded(b)'
BY DEF Minded

LEMMA FramingStays ==
  ASSUME Framing, \A c \in Conns : Stream(c)' = Stream(c), cut \subseteq cut'
  PROVE  Framing'
BY DEF Framing

LEMMA OpeningStays ==
  ASSUME Opening, \A c \in Conns : Stream(c)' = Stream(c),
         cut' = cut, conn' = conn, opened' = opened, todo' = todo
  PROVE  Opening'
BY DEF Opening

LEMMA SendBeginKeeps ==
  ASSUME TypeOK, Inv, SendBegin
  PROVE  Apart' /\ Framing' /\ Opening' /\ InLine'
<1>1. /\ \A c \in Conns : Stream(c)' = Stream(c)
      /\ cut' = cut /\ conn' = conn /\ opened' = opened /\ todo' = todo /\ queue' = queue
      /\ pending' = pending /\ inboxes' = inboxes /\ taken' = taken /\ unrouted' = unrouted
      /\ lost' = lost /\ sent' = sent /\ upset' = upset /\ strays' = strays
      /\ (met => met')
  BY DEF SendBegin, client, network, readers, receiver, Stream
<1>2. Framing' /\ Opening'
  BY <1>1, FramingStays, OpeningStays DEF Inv
<1>3. CASE ~met'
  <2>1. inbox' = inbox /\ stray' = stray
    BY <1>3 DEF SendBegin
  <2>2. \A b \in Boxes : Entries(b)' = Entries(b)
    BY <1>1, <2>1, Same
  <2>3. Onward
    BY <1>1 DEF Onward
  <2>4. Apart' /\ InLine'
    BY <1>1, <2>2, <2>3, StayApart, StayLine DEF Inv
  <2>. QED
    BY <1>2, <2>4
<1>4. CASE met'
  <2>1. inbox' = <<>> /\ stray' = stray \union ToSet(inbox) /\ inbox \in Seq(Messages)
    BY <1>4 DEF SendBegin, TypeOK
  <2>2. PICK b1, b2 : b1 = <<"inbox", 0>> /\ b2 = <<"stray", 0>>
    OBVIOUS
  <2>3. b1 \in Boxes /\ b2 \in Boxes /\ Rank(b1) = 6 /\ Rank(b2) = 0 /\ b1 # b2
    BY <2>2, BoxCases, Ranks
  <2>4. /\ Entries(b1) = Numbered(inbox) /\ Entries(b1)' = {}
        /\ Entries(b2) = Named(stray) /\ Entries(b2)' = Named(stray \union ToSet(inbox))
    BY <2>1, <2>2, EntriesOf, EntriesNext, NumberedEmpty
  <2>5. PICK S : S = Held(b1)
    OBVIOUS
  <2>6. Held(b1)' = {} /\ Distinct(Entries(b1)')
    BY <2>4, NumberedEmpty DEF Held, Distinct
  <2>7. Distinct(Numbered(inbox)) /\ Second(Numbered(inbox)) = S
    BY <2>3, <2>4, <2>5 DEF Inv, Apart, Held
  <2>8. Second(Named(ToSet(inbox))) = S /\ Distinct(Named(ToSet(inbox)))
    BY <2>1, <2>7, SetOf
  <2>9. Held(b2)' = Held(b2) \union S /\ Distinct(Entries(b2)')
    <3>1. Apart /\ Second(Named(ToSet(inbox))) \subseteq Held(b1)
      BY <2>5, <2>8 DEF Inv
    <3>2. Held(b2)' = Held(b2) \union Second(Named(ToSet(inbox))) /\ Distinct(Entries(b2)')
      BY <2>3, <2>4, <2>8, <3>1, NamedMore
    <3>. QED
      BY <2>8, <3>2
  <2>10. \A b \in Boxes : b # b1 /\ b # b2 => Entries(b)' = Entries(b)
    BY <1>1, <2>2, Same
  <2>11. Moves(S, b1, b2)
    BY <2>3, <2>5, <2>6, <2>9, <2>10 DEF Moves
  <2>12. Apart'
    BY <1>1, <2>3, <2>6, <2>9, <2>11, MoveApart DEF Inv
  <2>. QED
    BY <1>2, <1>4, <2>12, MetLine
<1>. QED
  BY <1>3, <1>4

LEMMA SendKeeps ==
  ASSUME TypeOK, Inv, NEW t \in Types, Send(t)
  PROVE  Apart' /\ Framing' /\ Opening' /\ InLine'
<1>1. /\ \A c \in Conns : Stream(c)' = Stream(c)
      /\ cut' = cut /\ conn' = conn /\ opened' = opened /\ todo' = todo /\ queue' = queue
      /\ pending' = pending /\ inboxes' = inboxes /\ taken' = taken /\ unrouted' = unrouted
      /\ strays' = strays /\ met' = met /\ upset' = upset /\ sent \in Nat
  BY GatewayAssumption DEF Send, client, network, readers, receiver, Stream, TypeOK
<1>2. Framing' /\ Opening'
  BY <1>1, FramingStays, OpeningStays DEF Inv
<1>3. Arriving'
  BY <1>1, StayArriving, EntriesOf, EntriesNext DEF Inv, Onward
<1>4. PICK m \in Messages : m = [type |-> t, n |-> sent + 1]
  <2>1. sent + 1 \in 1..MaxSends
    BY GatewayAssumption DEF TypeOK, Send
  <2>. QED
    BY <2>1 DEF Messages
<1>5. m.n = sent + 1 /\ sent' = sent + 1
  BY <1>4 DEF Send
<1>6. \A b \in Boxes : Held(b) \subseteq 1..sent /\ sent + 1 \notin Held(b) /\ Distinct(Entries(b))
  BY <1>1 DEF Inv, Apart
<1>7. CASE ~met /\ inbox' = Append(inbox, m) /\ lost' = lost /\ stray' = stray
  <2>1. inbox' = Append(inbox, m) /\ lost' = lost /\ stray' = stray
    BY <1>7
  <2>2. <<"inbox", 0>> \in Boxes /\ Rank(<<"inbox", 0>>) = 6 /\ inbox \in Seq(Messages)
    BY BoxCases, Ranks DEF TypeOK
  <2>3. Entries(<<"inbox", 0>>) = Numbered(inbox) /\ Entries(<<"inbox", 0>>)' = Numbered(inbox')
    BY EntriesOf, EntriesNext
  <2>4. Sorted(Numbered(inbox))
    BY <1>7, <2>2, <2>3, AlwaysMinded DEF Inv, InLine
  <2>5. /\ Distinct(Numbered(inbox)) /\ m.n \notin Second(Numbered(inbox))
        /\ Before(Second(Numbered(inbox)), {m.n})
    <3>1. Held(<<"inbox", 0>>) \subseteq 1..sent
      BY <1>6, <2>2
    <3>2. Before(Held(<<"inbox", 0>>), {m.n})
      BY <1>1, <1>5, <3>1 DEF Before
    <3>. QED
      BY <1>5, <1>6, <2>2, <2>3, <3>2 DEF Held
  <2>6. /\ Second(Numbered(inbox')) = Second(Numbered(inbox)) \union {m.n}
        /\ Distinct(Numbered(inbox')) /\ Sorted(Numbered(inbox'))
    BY <2>1, <2>2, <2>4, <2>5, NumberedAppend
  <2>7. Held(<<"inbox", 0>>)' = Held(<<"inbox", 0>>) \union {sent + 1}
    BY <1>5, <2>3, <2>6 DEF Held
  <2>8. \A b \in Boxes : b # <<"inbox", 0>> => Entries(b)' = Entries(b)
    BY <1>1, <2>1, Same
  <2>9. Distinct(Entries(<<"inbox", 0>>)') /\ Sorted(Entries(<<"inbox", 0>>)')
    BY <2>3, <2>6
  <2>10. Apart'
    BY <1>1, <1>5, <2>2, <2>7, <2>8, <2>9, AddApart DEF Inv
  <2>11. InLine'
    BY <1>1, <1>3, <1>5, <2>2, <2>7, <2>8, <2>9, AddLine DEF Inv
  <2>. QED
    BY <1>2, <2>10, <2>11
<1>8. ASSUME NEW D, NEW b2 \in Boxes, Rank(b2) = 0,
             Entries(b2) = Named(D), Entries(b2)' = Named(D \union {m}),
             \A b \in Boxes : b # b2 => Entries(b)' = Entries(b)
      PROVE  Apart' /\ InLine'
  <2>1. PICK x : x = Named(D \union {m})
    OBVIOUS
  <2>2. Second(Named({m})) = {m.n} /\ Distinct(Named({m}))
    BY NamedOne
  <2>3. Distinct(Named(D)) /\ Second(Named(D)) \intersect Second(Named({m})) = {}
    BY <1>5, <1>6, <1>8, <2>2 DEF Held
  <2>4. Second(x) = Second(Named(D)) \union {m.n} /\ Distinct(x)
    BY <2>1, <2>2, <2>3, Joins
  <2>5. Entries(b2)' = x
    BY <1>8, <2>1
  <2>6. Held(b2)' = Held(b2) \union {sent + 1} /\ Distinct(Entries(b2)')
    BY <1>5, <1>8, <2>4, <2>5 DEF Held
  <2>7. Apart'
    BY <1>1, <1>5, <1>8, <2>6, AddApart DEF Inv
  <2>8. InLine'
    BY <1>1, <1>3, <1>5, <1>8, <2>6, AddLine DEF Inv
  <2>. QED
    BY <2>7, <2>8
<1>9. CASE lost' = lost \union {m} /\ inbox' = inbox /\ stray' = stray
  <2>1. <<"lost", 0>> \in Boxes /\ Rank(<<"lost", 0>>) = 0
    BY BoxCases, Ranks
  <2>2. Entries(<<"lost", 0>>) = Named(lost) /\ Entries(<<"lost", 0>>)' = Named(lost \union {m})
    BY <1>9, EntriesOf, EntriesNext
  <2>3. \A b \in Boxes : b # <<"lost", 0>> => Entries(b)' = Entries(b)
    BY <1>1, <1>9, Same
  <2>. QED
    BY <1>2, <1>8, <2>1, <2>2, <2>3
<1>10. CASE stray' = stray \union {m} /\ inbox' = inbox /\ lost' = lost
  <2>1. <<"stray", 0>> \in Boxes /\ Rank(<<"stray", 0>>) = 0
    BY BoxCases, Ranks
  <2>2. /\ Entries(<<"stray", 0>>) = Named(stray)
        /\ Entries(<<"stray", 0>>)' = Named(stray \union {m})
    BY <1>10, EntriesOf, EntriesNext
  <2>3. \A b \in Boxes : b # <<"stray", 0>> => Entries(b)' = Entries(b)
    BY <1>1, <1>10, Same
  <2>. QED
    BY <1>2, <1>8, <2>1, <2>2, <2>3
<1>11. \/ ~met /\ inbox' = Append(inbox, m) /\ lost' = lost /\ stray' = stray
       \/ lost' = lost \union {m} /\ inbox' = inbox /\ stray' = stray
       \/ stray' = stray \union {m} /\ inbox' = inbox /\ lost' = lost
  BY <1>4 DEF Send
<1>. QED
  BY <1>7, <1>9, <1>10, <1>11

LEMMA OnMessageKeeps ==
  ASSUME TypeOK, Inv, OnMessage
  PROVE  Apart' /\ Framing' /\ Opening' /\ InLine'
<1>1. /\ \A c \in Conns : Stream(c)' = Stream(c)
      /\ cut' = cut /\ conn' = conn /\ opened' = opened /\ todo' = todo /\ sent' = sent
      /\ pending' = pending /\ inboxes' = inboxes /\ taken' = taken /\ lost' = lost
      /\ stray' = stray /\ strays' = strays /\ met' = met /\ upset' = upset /\ ~met
  BY DEF OnMessage, Inv, MetFirst, network, readers, receiver, Stream
<1>2. Framing' /\ Opening'
  BY <1>1, FramingStays, OpeningStays DEF Inv
<1>3. Arriving' /\ Onward
  BY <1>1, StayArriving, EntriesOf, EntriesNext DEF Inv, Onward
<1>4. /\ <<"inbox", 0>> \in Boxes /\ <<"queue", 0>> \in Boxes /\ <<"unrouted", 0>> \in Boxes
      /\ Rank(<<"inbox", 0>>) = 6 /\ Rank(<<"queue", 0>>) = 5 /\ Rank(<<"unrouted", 0>>) = 0
  BY BoxCases, Ranks
<1>5. /\ Entries(<<"inbox", 0>>) = Numbered(inbox) /\ Entries(<<"inbox", 0>>)' = Numbered(inbox')
      /\ Entries(<<"queue", 0>>) = Numbered(queue) /\ Entries(<<"queue", 0>>)' = Numbered(queue')
      /\ Entries(<<"unrouted", 0>>) = Named(unrouted)
      /\ Entries(<<"unrouted", 0>>)' = Named(unrouted')
  BY EntriesOf, EntriesNext
<1>6. /\ inbox \in Seq(Messages) /\ inbox # <<>> /\ inbox' = Tail(inbox)
      /\ queue \in Seq(Messages)
  BY MessageNumbers DEF TypeOK, OnMessage
<1>7. /\ Distinct(Numbered(inbox)) /\ Sorted(Numbered(inbox))
      /\ Distinct(Numbered(queue)) /\ Sorted(Numbered(queue))
  BY <1>1, <1>4, <1>5, AlwaysMinded DEF Inv, InLine, Apart
<1>8. PICK m \in Messages : m = Head(inbox)
  BY <1>6
<1>9. /\ m.n \in Second(Numbered(inbox))
      /\ Second(Numbered(inbox')) = Second(Numbered(inbox)) \ {m.n}
      /\ Distinct(Numbered(inbox')) /\ Sorted(Numbered(inbox'))
      /\ Before({m.n}, Second(Numbered(inbox')))
  BY <1>6, <1>7, <1>8, NumberedTail
<1>10. /\ {m.n} \subseteq Held(<<"inbox", 0>>)
       /\ Held(<<"inbox", 0>>)' = Held(<<"inbox", 0>>) \ {m.n}
       /\ Distinct(Entries(<<"inbox", 0>>)') /\ Sorted(Entries(<<"inbox", 0>>)')
       /\ Before({m.n}, Held(<<"inbox", 0>>) \ {m.n})
  BY <1>5, <1>9 DEF Held
<1>11. CASE m.type \in DOMAIN Routes
  <2>1. queue' = Append(queue, m) /\ unrouted' = unrouted
    BY <1>8, <1>11 DEF OnMessage, Route
  <2>2. m.n \notin Held(<<"queue", 0>>)
    BY <1>4, <1>10 DEF Inv, Apart
  <2>3. Before(Held(<<"queue", 0>>), {m.n})
    <3>1. Before(Held(<<"queue", 0>>), Held(<<"inbox", 0>>))
      BY <1>1, <1>4, AlwaysMinded DEF Inv, InLine
    <3>. QED
      BY <1>10, <3>1 DEF Before
  <2>4. /\ Second(Numbered(queue')) = Second(Numbered(queue)) \union {m.n}
        /\ Distinct(Numbered(queue')) /\ Sorted(Numbered(queue'))
    BY <1>5, <1>6, <1>7, <2>1, <2>2, <2>3, NumberedAppend DEF Held
  <2>5. /\ Held(<<"queue", 0>>)' = Held(<<"queue", 0>>) \union {m.n}
        /\ Distinct(Entries(<<"queue", 0>>)') /\ Sorted(Entries(<<"queue", 0>>)')
    BY <1>5, <2>4 DEF Held
  <2>6. \A b \in Boxes : b # <<"inbox", 0>> /\ b # <<"queue", 0>> => Entries(b)' = Entries(b)
    BY <1>1, <2>1, Same
  <2>7. \A b \in Boxes : b # <<"inbox", 0>> /\ 5 < Rank(b) /\ Rank(b) <= 6 => Held(b) = {}
    BY Ranks, RankCases
  <2>8. Moves({m.n}, <<"inbox", 0>>, <<"queue", 0>>)
    BY <1>4, <1>10, <2>5, <2>6 DEF Moves
  <2>9. Apart'
    BY <1>1, <1>4, <1>10, <2>5, <2>8, MoveApart DEF Inv
  <2>10. InLine'
    <3>1. Apart /\ InLine
      BY DEF Inv
    <3>. QED
      BY <1>3, <1>4, <1>10, <2>5, <2>7, <2>8, <3>1, MoveOn
  <2>. QED
    BY <1>2, <2>9, <2>10
<1>12. CASE m.type \notin DOMAIN Routes
  <2>1. unrouted' = unrouted \union {m} /\ queue' = queue
    BY <1>8, <1>12 DEF OnMessage, Route
  <2>2. Second(Named({m})) = {m.n} /\ Distinct(Named({m}))
    BY NamedOne
  <2>3. Distinct(Named(unrouted)) /\ Second(Named(unrouted)) \intersect Second(Named({m})) = {}
    <3>1. Distinct(Entries(<<"unrouted", 0>>)) /\ m.n \notin Held(<<"unrouted", 0>>)
      BY <1>4, <1>10 DEF Inv, Apart
    <3>. QED
      BY <1>5, <2>2, <3>1 DEF Held
  <2>4. /\ Second(Named(unrouted')) = Second(Named(unrouted)) \union Second(Named({m}))
        /\ Distinct(Named(unrouted'))
    BY <2>1, <2>2, <2>3, Joins
  <2>5. /\ Held(<<"unrouted", 0>>)' = Held(<<"unrouted", 0>>) \union {m.n}
        /\ Distinct(Entries(<<"unrouted", 0>>)')
    BY <1>5, <2>2, <2>4 DEF Held
  <2>6. \A b \in Boxes : b # <<"inbox", 0>> /\ b # <<"unrouted", 0>> => Entries(b)' = Entries(b)
    BY <1>1, <2>1, Same
  <2>7. Moves({m.n}, <<"inbox", 0>>, <<"unrouted", 0>>)
    BY <1>4, <1>10, <2>5, <2>6 DEF Moves
  <2>8. Apart'
    BY <1>1, <1>4, <1>10, <2>5, <2>7, MoveApart DEF Inv
  <2>9. InLine'
    <3>1. Apart /\ InLine
      BY DEF Inv
    <3>2. ~Minded(<<"unrouted", 0>>)'
      BY <1>4, NeverMinded
    <3>. QED
      BY <1>3, <1>4, <1>10, <2>7, <3>1, <3>2, MoveOn
  <2>. QED
    BY <1>2, <2>8, <2>9
<1>. QED
  BY <1>11, <1>12

LEMMA OnStrayKeeps ==
  ASSUME TypeOK, Inv, OnStray
  PROVE  Apart' /\ Framing' /\ Opening' /\ InLine'
<1>1. /\ \A c \in Conns : Stream(c)' = Stream(c)
      /\ cut' = cut /\ conn' = conn /\ opened' = opened /\ todo' = todo /\ sent' = sent
      /\ pending' = pending /\ inboxes' = inboxes /\ taken' = taken /\ lost' = lost
      /\ inbox' = inbox /\ strays' = strays /\ met' = met
  BY DEF OnStray, network, readers, receiver, Stream
<1>2. Framing' /\ Opening'
  BY <1>1, FramingStays, OpeningStays DEF Inv
<1>3. PICK m \in stray : stray' = stray \ {m} /\ Route(m)
  BY DEF OnStray
<1>4. m \in Messages /\ stray \subseteq Messages /\ queue \in Seq(Messages)
  BY <1>3, MessageNumbers DEF TypeOK
<1>5. InLine'
  <2>1. met
    BY <1>3 DEF Inv, MetFirst
  <2>. QED
    BY <1>1, <2>1, MetLine
<1>6. PICK b1, b2, b3 : b1 = <<"stray", 0>> /\ b2 = <<"queue", 0>> /\ b3 = <<"unrouted", 0>>
  OBVIOUS
<1>7. /\ b1 \in Boxes /\ b2 \in Boxes /\ b3 \in Boxes
      /\ b1 # b2 /\ b1 # b3
  BY <1>6, BoxCases
<1>8. /\ Entries(b1) = Named(stray) /\ Entries(b1)' = Named(stray \ {m})
      /\ Entries(b2) = Numbered(queue) /\ Entries(b2)' = Numbered(queue')
      /\ Entries(b3) = Named(unrouted) /\ Entries(b3)' = Named(unrouted')
  BY <1>3, <1>6, EntriesOf, EntriesNext
<1>9. /\ m.n \in Second(Named(stray)) /\ Distinct(Named(stray \ {m}))
      /\ Second(Named(stray \ {m})) = Second(Named(stray)) \ {m.n}
  <2>1. Distinct(Named(stray))
    BY <1>7, <1>8 DEF Inv, Apart
  <2>. QED
    BY <1>4, <2>1, NamedLess
<1>10. m.n \in Held(b1) /\ Held(b1)' = Held(b1) \ {m.n} /\ Distinct(Entries(b1)')
  BY <1>8, <1>9 DEF Held
<1>11. CASE m.type \in DOMAIN Routes
  <2>1. queue' = Append(queue, m) /\ unrouted' = unrouted
    BY <1>3, <1>11 DEF Route
  <2>2. Distinct(Numbered(queue)) /\ m.n \notin Second(Numbered(queue))
    BY <1>7, <1>8, <1>10 DEF Inv, Apart, Held
  <2>3. /\ Second(Numbered(queue')) = Second(Numbered(queue)) \union {m.n}
        /\ Distinct(Numbered(queue'))
    BY <1>4, <2>1, <2>2, NumberedAppend
  <2>4. Held(b2)' = Held(b2) \union {m.n} /\ Distinct(Entries(b2)')
    BY <1>8, <2>3 DEF Held
  <2>5. \A b \in Boxes : b # b1 /\ b # b2 => Entries(b)' = Entries(b)
    BY <1>1, <1>6, <2>1, Same
  <2>6. Moves({m.n}, b1, b2)
    BY <1>7, <1>10, <2>4, <2>5 DEF Moves
  <2>7. Apart'
    BY <1>1, <1>7, <1>10, <2>4, <2>6, MoveApart DEF Inv
  <2>. QED
    BY <1>2, <1>5, <2>7
<1>12. CASE m.type \notin DOMAIN Routes
  <2>1. unrouted' = unrouted \union {m} /\ queue' = queue
    BY <1>3, <1>12 DEF Route
  <2>2. Second(Named({m})) = {m.n} /\ Distinct(Named({m}))
    BY NamedOne
  <2>3. Held(b3)' = Held(b3) \union {m.n} /\ Distinct(Entries(b3)')
    <3>1. Apart /\ Second(Named({m})) \subseteq Held(b1) /\ Entries(b3)' = Named(unrouted \union {m})
      BY <1>8, <1>10, <2>1, <2>2 DEF Inv
    <3>2. Held(b3)' = Held(b3) \union Second(Named({m})) /\ Distinct(Entries(b3)')
      BY <1>7, <1>8, <2>2, <3>1, NamedMore
    <3>. QED
      BY <2>2, <3>2
  <2>4. \A b \in Boxes : b # b1 /\ b # b3 => Entries(b)' = Entries(b)
    BY <1>1, <1>6, <2>1, Same
  <2>5. Moves({m.n}, b1, b3)
    BY <1>7, <1>10, <2>3, <2>4 DEF Moves
  <2>6. Apart'
    BY <1>1, <1>7, <1>10, <2>3, <2>5, MoveApart DEF Inv
  <2>. QED
    BY <1>2, <1>5, <2>6
<1>. QED
  BY <1>11, <1>12

LEMMA ConnectKeeps ==
  ASSUME TypeOK, Inv, Connect
  PROVE  Apart' /\ Framing' /\ Opening' /\ InLine'
<1>1. /\ \A c \in Conns : Stream(c)' = Stream(c)
      /\ cut' = cut /\ todo' = todo /\ sent' = sent /\ inbox' = inbox /\ queue' = queue
      /\ pending' = pending /\ inboxes' = inboxes /\ taken' = taken /\ lost' = lost
      /\ unrouted' = unrouted /\ stray' = stray /\ strays' = strays /\ met' = met
      /\ upset' = upset
  BY DEF Connect, sender, network, readers, receiver, Stream
<1>2. \A b \in Boxes : Entries(b)' = Entries(b)
  BY <1>1, Same
<1>3. Apart' /\ InLine' /\ Framing'
  BY <1>1, <1>2, StayApart, StayLine, FramingStays DEF Inv, Onward
<1>4. Opening'
  <2>1. conn = 0 /\ opened' = opened + 1 /\ conn' = opened + 1 /\ opened \in Nat
    BY GatewayAssumption DEF Connect, TypeOK
  <2>2. cut = {} => opened = 0
    BY <2>1 DEF Inv, Opening
  <2>3. \A c \in Conns : c > opened' => c > opened
    BY <2>1 DEF Conns
  <2>. QED
    BY <1>1, <2>1, <2>2, <2>3 DEF Inv, Opening
<1>. QED
  BY <1>3, <1>4

\* What a minded stream or drained message waits for: nothing, as there is one
\* connection.
LEMMA OneConnection ==
  ASSUME Opening, opened \in Nat, cut = {}, NEW c \in Conns, NEW i \in Conns, c <= opened, i # c
  PROVE  Stream(i) = <<>> /\ todo[i] = <<>>
<1>1. i > opened
  BY DEF Opening, Conns
<1>. QED
  BY <1>1 DEF Opening

\* Appending to what a connection carries.
LEMMA StreamGrows ==
  ASSUME TypeOK, NEW f \in Seq(Pieces), NEW c \in Conns, buf' = buf,
         wire' = [wire EXCEPT ![c] = @ \o f]
  PROVE  /\ Stream(c)' = Stream(c) \o f /\ Stream(c) \in Seq(Pieces)
         /\ \A i \in Conns : i # c => Stream(i)' = Stream(i)
<1>1. /\ buf[c] \in Seq(Pieces) /\ wire[c] \in Seq(Pieces)
      /\ wire'[c] = wire[c] \o f /\ \A i \in Conns : i # c => wire'[i] = wire[i]
  BY DEF TypeOK
<1>2. buf[c] \o (wire[c] \o f) = (buf[c] \o wire[c]) \o f
  BY <1>1, Appended
<1>3. buf[c] \o wire[c] \in Seq(Pieces)
  BY <1>1
<1>. QED
  BY <1>1, <1>2, <1>3 DEF Stream

\* The message the client thread sends leaves the queue or the place it was
\* held at, before all others there.
LEMMA Departs ==
  ASSUME TypeOK, Apart, InLine, Ready, pending' = None, queue' = Remaining
  PROVE  \E b1 \in {<<"queue", 0>>, <<"pending", 0>>} :
           /\ Outgoing.n \in Held(b1) /\ Held(b1)' = Held(b1) \ {Outgoing.n}
           /\ Distinct(Entries(b1)')
           /\ ~met => /\ Rank(b1) # 4 => Sorted(Entries(b1)')
                      /\ Before({Outgoing.n}, Held(b1) \ {Outgoing.n})
           /\ \A b \in {<<"queue", 0>>, <<"pending", 0>>} : b # b1 => Entries(b)' = Entries(b)
           /\ b1 = <<"queue", 0>> => Held(<<"pending", 0>>) = {}
<1>1. PICK m \in Routed : m = Outgoing
  BY Outgoes
<1>2. /\ Entries(<<"queue", 0>>) = Numbered(queue) /\ Entries(<<"queue", 0>>)' = Numbered(queue')
      /\ Entries(<<"pending", 0>>) = Named({pending} \ {None})
      /\ Entries(<<"pending", 0>>)' = Named({pending'} \ {None})
  BY EntriesOf, EntriesNext
<1>3. Named({}) = {} /\ Second({}) = {} /\ Distinct({}) /\ {None} \ {None} = {}
  BY DEF Named, Second, Distinct
<1>4. CASE pending # None
  <2>1. m = pending /\ queue' = queue
    BY <1>1, <1>4 DEF Outgoing, Remaining
  <2>2. {pending} \ {None} = {m} /\ {pending'} \ {None} = {}
    BY <1>4, <2>1
  <2>3. Second(Named({m})) = {m.n}
    BY NamedOne
  <2>4. Held(<<"pending", 0>>) = {m.n} /\ Held(<<"pending", 0>>)' = {}
    BY <1>2, <1>3, <2>2, <2>3 DEF Held
  <2>5. Distinct(Entries(<<"pending", 0>>)') /\ Rank(<<"pending", 0>>) = 4
    BY <1>2, <1>3, <2>2, Ranks
  <2>6. Entries(<<"queue", 0>>)' = Entries(<<"queue", 0>>)
    BY <1>2, <2>1
  <2>7. Before({m.n}, {m.n} \ {m.n})
    BY DEF Before
  <2>8. <<"pending", 0>> # <<"queue", 0>>
    OBVIOUS
  <2>. QED
    BY <1>1, <2>4, <2>5, <2>6, <2>7, <2>8
<1>5. CASE pending = None
  <2>1. m = Head(queue) /\ queue' = Tail(queue) /\ pending' = pending /\ queue # <<>>
    BY <1>1, <1>5 DEF Outgoing, Remaining, Ready
  <2>2. queue \in Seq(Messages)
    BY MessageNumbers DEF TypeOK
  <2>3. Distinct(Numbered(queue)) /\ (~met => Sorted(Numbered(queue)))
    <3>1. <<"queue", 0>> \in Boxes /\ Rank(<<"queue", 0>>) = 5
      BY BoxCases, Ranks
    <3>. QED
      BY <1>2, <3>1, AlwaysMinded DEF InLine, Apart
  <2>4. /\ m.n \in Second(Numbered(queue))
        /\ Second(Numbered(queue')) = Second(Numbered(queue)) \ {m.n}
        /\ Distinct(Numbered(queue'))
        /\ ~met => Sorted(Numbered(queue')) /\ Before({m.n}, Second(Numbered(queue')))
    BY <2>1, <2>2, <2>3, NumberedTail
  <2>5. /\ m.n \in Held(<<"queue", 0>>) /\ Held(<<"queue", 0>>)' = Held(<<"queue", 0>>) \ {m.n}
        /\ Distinct(Entries(<<"queue", 0>>)')
        /\ ~met => /\ Sorted(Entries(<<"queue", 0>>)')
                   /\ Before({m.n}, Held(<<"queue", 0>>) \ {m.n})
    BY <1>2, <2>4 DEF Held
  <2>6. Entries(<<"pending", 0>>)' = Entries(<<"pending", 0>>)
    BY <1>2, <2>1
  <2>7. Held(<<"pending", 0>>) = {}
    BY <1>2, <1>3, <1>5 DEF Held
  <2>. QED
    BY <1>1, <2>5, <2>6, <2>7
<1>. QED
  BY <1>4, <1>5

\* Into the stream of a connection.
LEMMA FrameGoes ==
  ASSUME TypeOK, Inv, SendFrame, conn \notin cut
  PROVE  Apart' /\ Framing' /\ Opening' /\ InLine'
<1>1. PICK m \in Routed, h \in Conns : m = Outgoing /\ h = conn
  BY Outgoes DEF SendFrame
<1>2. /\ Ready /\ pending' = None /\ queue' = Remaining /\ h # 0
      /\ h \in Nat /\ h <= opened /\ opened \in Nat /\ h \notin cut
      /\ conn' = conn /\ opened' = opened /\ cut' = cut /\ todo' = todo /\ sent' = sent
      /\ inbox' = inbox /\ inboxes' = inboxes /\ taken' = taken /\ unrouted' = unrouted
      /\ buf' = buf /\ lost' = lost
      /\ stray' = stray /\ strays' = strays /\ met' = met /\ upset' = upset
  BY <1>1, GatewayAssumption
  DEF SendFrame, Ready, sender, readers, receiver, TypeOK
<1>3. PICK f \in Seq(Pieces) : f = Frame(m)
  BY FrameIs
<1>5. FrameLen \in Nat /\ FrameLen > 1
  BY GatewayAssumption
<1>6. wire' = [wire EXCEPT ![h] = @ \o f]
  BY <1>1, <1>2, <1>3 DEF SendFrame
<1>7. PICK s, t : /\ s \in Seq(Pieces) /\ s = Stream(h) /\ t = s \o f
                  /\ Stream(h)' = t
  BY <1>2, <1>6, StreamGrows
<1>8. \A i \in Conns : i # h => Stream(i)' = Stream(i)
  BY <1>2, <1>6, StreamGrows
<1>9. Framed(s) /\ Complete(s)
  BY <1>2, <1>7 DEF Inv, Framing
<1>10. Framed(t) /\ Complete(t) /\ Lasts(t) = Lasts(s) \union {<<Len(s) + FrameLen, m.n>>}
  BY <1>3, <1>7, <1>9, FrameAdded
<1>11. Framing'
  <2> SUFFICES ASSUME NEW c \in Conns
               PROVE  Framed(Stream(c)') /\ (c \notin cut' => Complete(Stream(c)'))
    BY DEF Framing
  <2>1. CASE c = h
    <3>1. Stream(c)' = t
      BY <1>7, <2>1
    <3>. QED
      BY <1>10, <3>1
  <2>2. CASE c # h
    BY <1>2, <1>8, <2>2 DEF Inv, Framing
  <2>. QED
    BY <2>1, <2>2
<1>12. Opening'
  <2>1. \A c \in Conns : c > opened' => Stream(c)' = <<>> /\ todo'[c] = <<>>
    BY <1>2, <1>8 DEF Inv, Opening
  <2>. QED
    BY <1>2, <2>1 DEF Inv, Opening
<1>13. PICK b1 \in {<<"queue", 0>>, <<"pending", 0>>} :
         /\ m.n \in Held(b1) /\ Held(b1)' = Held(b1) \ {m.n}
         /\ Distinct(Entries(b1)')
         /\ ~met => (Rank(b1) # 4 => Sorted(Entries(b1)')) /\ Before({m.n}, Held(b1) \ {m.n})
         /\ \A b \in {<<"queue", 0>>, <<"pending", 0>>} : b # b1 => Entries(b)' = Entries(b)
         /\ b1 = <<"queue", 0>> => Held(<<"pending", 0>>) = {}
  BY <1>1, <1>2, Departs DEF Inv
<1>14. PICK b2 : b2 = <<"stream", h>>
  OBVIOUS
<1>15. /\ b1 \in Boxes /\ Rank(b1) \in {4, 5} /\ b2 \in Boxes /\ Rank(b2) = 3 /\ b1 # b2
       /\ (~met => Minded(b1)) /\ (Minded(b2) => ~met)
  <2>1. b1 \in Boxes /\ Rank(b1) \in {4, 5} /\ (~met => Minded(b1))
    BY BoxCases, Ranks, AlwaysMinded
  <2>2. b2 \in Boxes /\ Rank(b2) = 3
    BY <1>2, <1>14, BoxCases, Ranks
  <2>3. b1 # b2
    BY <2>1, <2>2
  <2>. QED
    BY <2>1, <2>2, <2>3 DEF Minded
<1>16. Entries(b2) = Lasts(s) /\ Entries(b2)' = Lasts(t)
  BY <1>2, <1>7, <1>14, EntriesOf, EntriesNext
<1>17. Held(b2)' = Held(b2) \union {m.n}
  <2>1. Second(Lasts(s) \union {<<Len(s) + FrameLen, m.n>>}) = Second(Lasts(s)) \union {m.n}
    BY SecondOfUnion
  <2>. QED
    BY <1>10, <1>16, <2>1 DEF Held
<1>18. m.n \notin Held(b2) /\ Distinct(Entries(b2))
  BY <1>13, <1>15 DEF Inv, Apart
<1>19. Before(Held(b2), {m.n}) \/ ~Minded(b2)
  <2> SUFFICES ASSUME Minded(b2) PROVE Before(Held(b2), {m.n})
    OBVIOUS
  <2>1. Before(Held(b2), Held(b1))
    BY <1>15 DEF Inv, InLine
  <2>. QED
    BY <1>13, <2>1 DEF Before
<1>20. \A e \in Lasts(s) : e[2] \in Held(b2) /\ e[1] \in Nat /\ e[1] < Len(s) + FrameLen
  <2> SUFFICES ASSUME NEW e \in Lasts(s)
               PROVE  e[2] \in Held(b2) /\ e[1] \in Nat /\ e[1] < Len(s) + FrameLen
    OBVIOUS
  <2>1. e[2] \in Held(b2)
    BY <1>16 DEF Held, Second
  <2>2. PICK k \in DOMAIN s : e = <<k, s[k][1].n>>
    BY LastsIs
  <2>3. e[1] = k /\ k \in Nat /\ k <= Len(s) /\ Len(s) \in Nat
    BY <2>2
  <2>4. FrameLen > 1
    BY GatewayAssumption
  <2>. QED
    BY <1>5, <2>1, <2>3, <2>4
<1>21. Distinct(Entries(b2)')
  BY <1>10, <1>16, <1>18, <1>20 DEF Distinct
<1>22. Minded(b2) => Sorted(Entries(b2)')
  <2> SUFFICES ASSUME Minded(b2), NEW d \in Lasts(t), NEW e \in Lasts(t), d[1] < e[1]
               PROVE  d[2] < e[2]
    BY <1>16 DEF Sorted
  <2>1. CASE d \in Lasts(s) /\ e \in Lasts(s)
    <3>1. Sorted(Lasts(s))
      BY <1>15, <1>16 DEF Inv, InLine
    <3>. QED
      BY <2>1, <3>1 DEF Sorted
  <2>2. CASE d \in Lasts(s) /\ e = <<Len(s) + FrameLen, m.n>>
    <3>1. d[2] \in Held(b2) /\ e[2] = m.n
      BY <1>20, <2>2
    <3>. QED
      BY <1>19, <3>1 DEF Before
  <2>3. CASE d = <<Len(s) + FrameLen, m.n>> /\ e \in Lasts(s)
    <3>1. e[1] < Len(s) + FrameLen /\ e[1] \in Nat /\ Len(s) \in Nat
      BY <1>20, <2>3
    <3>. QED
      BY <1>5, <2>3, <3>1
  <2>4. CASE d = <<Len(s) + FrameLen, m.n>> /\ e = <<Len(s) + FrameLen, m.n>>
    BY <1>5, <2>4
  <2>. QED
    BY <1>10, <2>1, <2>2, <2>3, <2>4
<1>23. \A b \in Boxes : b # b1 /\ b # b2 => Entries(b)' = Entries(b)
  <2> SUFFICES ASSUME NEW b \in Boxes, b # b1, b # b2, Entries(b)' # Entries(b) PROVE FALSE
    OBVIOUS
  <2>1. b \notin {<<"queue", 0>>, <<"pending", 0>>}
    BY <1>13
  <2>2. \A c \in Conns : b = <<"stream", c>> => c # h
    BY <1>14
  <2>. QED
    BY <1>2, <1>8, <2>1, <2>2, Same
<1>24. Arriving' /\ Onward
  BY <1>2, StayArriving, EntriesOf, EntriesNext DEF Inv, Onward
<1>25. (Minded(b2)' => Minded(b2) /\ cut = {} /\ ~met) /\ (Minded(b1)' => ~met)
  BY <1>2, <1>15 DEF Minded
<1>26. ASSUME Minded(b2)', NEW b \in Boxes, b # b1, 3 < Rank(b), Rank(b) <= Rank(b1)
       PROVE  Held(b) = {}
  <2>1. Rank(b) \in 0..6
    BY Ranks
  <2>2. Rank(b) = 4 \/ Rank(b) = 5
    BY <1>15, <1>26, <2>1
  <2>3. b = <<"pending", 0>> \/ b = <<"queue", 0>>
    BY <2>2, RankCases
  <2>4. CASE b1 = <<"pending", 0>>
    <3>1. Rank(b1) = 4 /\ Rank(b) <= 4
      BY <1>26, <2>4, Ranks
    <3>2. b = <<"pending", 0>>
      BY <2>2, <3>1, RankCases
    <3>. QED
      BY <1>26, <2>4, <3>2
  <2>5. CASE b1 = <<"queue", 0>>
    BY <1>13, <1>26, <2>3, <2>5
  <2>. QED
    BY <2>4, <2>5
<1>27. Moves({m.n}, b1, b2)
  BY <1>13, <1>15, <1>17, <1>23 DEF Moves
<1>28. Apart'
  BY <1>2, <1>13, <1>15, <1>21, <1>27, MoveApart DEF Inv
<1>29. InLine'
  <2>1. Apart /\ InLine /\ Rank(b2) < Rank(b1) /\ Rank(b1) # 1
    BY <1>15 DEF Inv
  <2>2. Minded(b2)' =>
          /\ Before({m.n}, Held(b1) \ {m.n})
          /\ \A b \in Boxes : b # b1 /\ Rank(b2) < Rank(b) /\ Rank(b) <= Rank(b1) => Held(b) = {}
    BY <1>13, <1>15, <1>25, <1>26
  <2>3. /\ Minded(b1)' => Rank(b1) = 4 \/ Sorted(Entries(b1)')
        /\ Minded(b2)' => Rank(b2) = 4 \/ Sorted(Entries(b2)')
    BY <1>13, <1>22, <1>25
  <2>. QED
    BY <1>15, <1>24, <1>27, <2>1, <2>2, <2>3, MoveOn
<1>. QED
  BY <1>11, <1>12, <1>28, <1>29

\* With a connection nobody has noticed to be dead.
LEMMA FrameLost ==
  ASSUME TypeOK, Inv, SendFrame, conn \in cut
  PROVE  Apart' /\ Framing' /\ Opening' /\ InLine'
<1>1. PICK m \in Routed : m = Outgoing
  BY Outgoes DEF SendFrame
<1>2. /\ Ready /\ pending' = None /\ queue' = Remaining /\ lost' = lost \union {m}
      /\ conn' = conn /\ opened' = opened /\ cut' = cut /\ todo' = todo /\ sent' = sent
      /\ inbox' = inbox /\ inboxes' = inboxes /\ taken' = taken /\ unrouted' = unrouted
      /\ \A c \in Conns : Stream(c)' = Stream(c)
      /\ stray' = stray /\ strays' = strays /\ met' = met /\ upset' = upset
  BY <1>1 DEF SendFrame, sender, readers, receiver, Stream
<1>3. Framing' /\ Opening'
  BY <1>2, FramingStays, OpeningStays DEF Inv
<1>4. PICK b1 \in {<<"queue", 0>>, <<"pending", 0>>} :
         /\ m.n \in Held(b1) /\ Held(b1)' = Held(b1) \ {m.n}
         /\ Distinct(Entries(b1)')
         /\ ~met => (Rank(b1) # 4 => Sorted(Entries(b1)')) /\ Before({m.n}, Held(b1) \ {m.n})
         /\ \A b \in {<<"queue", 0>>, <<"pending", 0>>} : b # b1 => Entries(b)' = Entries(b)
         /\ b1 = <<"queue", 0>> => Held(<<"pending", 0>>) = {}
  BY <1>1, <1>2, Departs DEF Inv
<1>5. PICK b2 : b2 = <<"lost", 0>>
  OBVIOUS
<1>6. b1 \in Boxes /\ Rank(b1) \in {4, 5} /\ b2 \in Boxes /\ Rank(b2) = 0
  BY <1>5, BoxCases, Ranks
<1>7. b1 # b2
  BY <1>6
<1>8. Second(Named({m})) = {m.n} /\ Distinct(Named({m}))
  BY NamedOne
<1>9. Second(Named({m})) \subseteq Held(b1)
  BY <1>4, <1>8
<1>10. Held(b2)' = Held(b2) \union {m.n} /\ Distinct(Entries(b2)')
  <2>1. Apart /\ Entries(b2) = Named(lost) /\ Entries(b2)' = Named(lost \union {m})
    BY <1>2, <1>5, EntriesOf, EntriesNext DEF Inv
  <2>2. Held(b2)' = Held(b2) \union Second(Named({m})) /\ Distinct(Entries(b2)')
    BY <1>6, <1>7, <1>8, <1>9, <2>1, NamedMore
  <2>. QED
    BY <1>8, <2>2
<1>11. \A b \in Boxes : b # b1 /\ b # b2 => Entries(b)' = Entries(b)
  <2> SUFFICES ASSUME NEW b \in Boxes, b # b1, b # b2, Entries(b)' # Entries(b) PROVE FALSE
    OBVIOUS
  <2>1. b \notin {<<"queue", 0>>, <<"pending", 0>>}
    BY <1>4
  <2>. QED
    BY <1>2, <1>5, <2>1, Same
<1>12. Moves({m.n}, b1, b2)
  BY <1>4, <1>7, <1>10, <1>11 DEF Moves
<1>13. Arriving' /\ Onward
  BY <1>2, StayArriving, EntriesOf, EntriesNext DEF Inv, Onward
<1>14. ~Minded(b2)' /\ (Minded(b1)' => ~met)
  BY <1>2, <1>6 DEF Minded
<1>15. Apart'
  BY <1>2, <1>4, <1>6, <1>10, <1>12, MoveApart DEF Inv
<1>16. InLine'
  <2>1. Apart /\ InLine /\ Rank(b2) < Rank(b1) /\ Rank(b1) # 1
    BY <1>6 DEF Inv
  <2>2. Minded(b1)' => Rank(b1) = 4 \/ Sorted(Entries(b1)')
    BY <1>4, <1>14
  <2>. QED
    BY <1>6, <1>12, <1>13, <1>14, <2>1, <2>2, MoveOn
<1>. QED
  BY <1>3, <1>15, <1>16

\* The connection is given up, with some of a frame on it.
LEMMA SendFailsKeeps ==
  ASSUME TypeOK, Inv, SendFails
  PROVE  Apart' /\ Framing' /\ Opening' /\ InLine'
<1>1. PICK m \in Routed, h \in Conns : m = Outgoing /\ h = conn
  BY Outgoes DEF SendFails
<1>2. /\ Ready /\ pending' = m /\ queue' = Remaining /\ h # 0
      /\ h \in Nat /\ h <= opened /\ opened \in Nat
      /\ opened' = opened /\ cut' = cut \union {h} /\ todo' = todo /\ sent' = sent
      /\ inbox' = inbox /\ inboxes' = inboxes /\ taken' = taken /\ unrouted' = unrouted
      /\ buf' = buf /\ lost' = lost
      /\ stray' = stray /\ strays' = strays /\ met' = met /\ upset' = upset
  BY <1>1, GatewayAssumption
  DEF SendFails, Ready, sender, readers, receiver, TypeOK
<1>3. PICK k \in 0..(FrameLen - 1) :
        wire' = IF h \in cut THEN wire
                ELSE [wire EXCEPT ![h] = @ \o SubSeq(Frame(m), 1, k)]
  BY <1>1 DEF SendFails
<1>4. \A c \in Conns : /\ Lasts(Stream(c)') = Lasts(Stream(c)) /\ Framed(Stream(c)')
                       /\ c # h => Stream(c)' = Stream(c)
  <2>1. CASE h \in cut
    BY <1>2, <1>3, <2>1 DEF Stream, Inv, Framing
  <2>2. CASE h \notin cut
    <3>1. Stream(h) \in Seq(Pieces) /\ Framed(Stream(h)) /\ Complete(Stream(h))
      BY <2>2 DEF Inv, Framing, Stream, TypeOK
    <3>2. PICK f : f = SubSeq(Frame(m), 1, k)
      OBVIOUS
    <3>3. /\ f \in Seq(Pieces) /\ Framed(Stream(h) \o f)
          /\ Lasts(Stream(h) \o f) = Lasts(Stream(h))
      BY <3>1, <3>2, PartAdded
    <3>4. wire' = [wire EXCEPT ![h] = @ \o f]
      BY <1>3, <2>2, <3>2
    <3>5. Stream(h)' = Stream(h) \o f /\ \A i \in Conns : i # h => Stream(i)' = Stream(i)
      BY <1>2, <3>3, <3>4, StreamGrows
    <3>6. \A i \in Conns : Framed(Stream(i))
      BY DEF Inv, Framing
    <3>. QED
      BY <3>3, <3>5, <3>6
  <2>. QED
    BY <2>1, <2>2
<1>5. Framing'
  <2> SUFFICES ASSUME NEW c \in Conns, c \notin cut' PROVE Complete(Stream(c)')
    BY <1>4 DEF Framing
  <2>1. c # h /\ c \notin cut /\ Stream(c)' = Stream(c)
    BY <1>2, <1>4
  <2>. QED
    BY <2>1 DEF Inv, Framing
<1>6. Opening'
  <2>1. \A c \in Conns : c > opened' => Stream(c)' = <<>> /\ todo'[c] = <<>>
    BY <1>2, <1>4 DEF Inv, Opening
  <2>2. cut' # {}
    BY <1>2
  <2>. QED
    BY <2>1, <2>2 DEF Opening
<1>7. \A c \in Conns : Entries(<<"stream", c>>)' = Entries(<<"stream", c>>)
  <2> SUFFICES ASSUME NEW c \in Conns PROVE Entries(<<"stream", c>>)' = Entries(<<"stream", c>>)
    OBVIOUS
  <2>1. /\ Entries(<<"stream", c>>) = Lasts(Stream(c))
        /\ Entries(<<"stream", c>>)' = Lasts(Stream(c)')
    BY EntriesOf, EntriesNext
  <2>. QED
    BY <1>4, <2>1
<1>8. Onward /\ Arriving'
  <2>1. Onward
    BY <1>2 DEF Onward
  <2>. QED
    BY <1>2, <2>1, StayArriving, EntriesOf, EntriesNext DEF Inv
<1>9. ASSUME NEW b \in Boxes, Entries(b)' # Entries(b)
      PROVE  \/ b = <<"queue", 0>> /\ queue' # queue
             \/ b = <<"pending", 0>> /\ pending' # pending
  BY <1>2, <1>7, <1>9, Same
<1>10. CASE pending # None
  <2>1. pending' = pending /\ queue' = queue
    BY <1>1, <1>2, <1>10 DEF Outgoing, Remaining
  <2>2. \A b \in Boxes : Entries(b)' = Entries(b)
    BY <1>9, <2>1
  <2>3. Apart' /\ InLine'
    BY <1>2, <1>8, <2>2, StayApart, StayLine DEF Inv
  <2>. QED
    BY <1>5, <1>6, <2>3
<1>11. CASE pending = None
  <2>1. m = Head(queue) /\ queue' = Tail(queue) /\ queue # <<>> /\ queue \in Seq(Messages)
    BY <1>1, <1>2, <1>11, MessageNumbers DEF Outgoing, Remaining, Ready, TypeOK
  <2>2. /\ Entries(<<"queue", 0>>) = Numbered(queue)
        /\ Entries(<<"queue", 0>>)' = Numbered(queue')
        /\ Entries(<<"pending", 0>>) = Named({pending} \ {None})
        /\ Entries(<<"pending", 0>>)' = Named({pending'} \ {None})
    BY EntriesOf, EntriesNext
  <2>3. /\ <<"queue", 0>> \in Boxes /\ Rank(<<"queue", 0>>) = 5
        /\ <<"pending", 0>> \in Boxes /\ Rank(<<"pending", 0>>) = 4
    BY BoxCases, Ranks
  <2>4. Distinct(Numbered(queue)) /\ (~met => Sorted(Numbered(queue)))
    BY <2>2, <2>3, AlwaysMinded DEF Inv, InLine, Apart
  <2>5. /\ m.n \in Second(Numbered(queue))
        /\ Second(Numbered(queue')) = Second(Numbered(queue)) \ {m.n}
        /\ Distinct(Numbered(queue'))
        /\ ~met => Sorted(Numbered(queue')) /\ Before({m.n}, Second(Numbered(queue')))
    BY <2>1, <2>4, NumberedTail
  <2>6. /\ m.n \in Held(<<"queue", 0>>) /\ Held(<<"queue", 0>>)' = Held(<<"queue", 0>>) \ {m.n}
        /\ Distinct(Entries(<<"queue", 0>>)')
        /\ ~met => /\ Sorted(Entries(<<"queue", 0>>)')
                   /\ Before({m.n}, Held(<<"queue", 0>>) \ {m.n})
    BY <2>2, <2>5 DEF Held
  <2>7. Held(<<"pending", 0>>) = {}
    <3>1. {pending} \ {None} = {} /\ Named({}) = {} /\ Second({}) = {}
      BY <1>11 DEF Named, Second
    <3>. QED
      BY <2>2, <3>1 DEF Held
  <2>8. Held(<<"pending", 0>>)' = Held(<<"pending", 0>>) \union {m.n}
        /\ Distinct(Entries(<<"pending", 0>>)')
    <3>1. m # None
      BY MessageNumbers
    <3>2. {pending'} \ {None} = {m}
      BY <1>2, <3>1
    <3>3. Second(Named({m})) = {m.n} /\ Distinct(Named({m}))
      BY NamedOne
    <3>. QED
      BY <2>2, <2>7, <3>2, <3>3 DEF Held
  <2>9. \A b \in Boxes : b # <<"queue", 0>> /\ b # <<"pending", 0>> => Entries(b)' = Entries(b)
    BY <1>9
  <2>10. <<"queue", 0>> # <<"pending", 0>>
    OBVIOUS
  <2>11. Moves({m.n}, <<"queue", 0>>, <<"pending", 0>>)
    BY <2>6, <2>8, <2>9, <2>10 DEF Moves
  <2>12. \A b \in Boxes : b # <<"queue", 0>> /\ 4 < Rank(b) /\ Rank(b) <= 5 => Held(b) = {}
    BY Ranks, RankCases
  <2>13. Apart'
    BY <1>2, <2>3, <2>6, <2>8, <2>11, MoveApart DEF Inv
  <2>14. InLine'
    <3>1. (Minded(<<"queue", 0>>)' => ~met) /\ (Minded(<<"pending", 0>>)' => ~met)
      BY <1>2 DEF Minded
    <3>2. Apart /\ InLine
      BY DEF Inv
    <3>. QED
      <4>1. PICK b1, b2 : b1 = <<"queue", 0>> /\ b2 = <<"pending", 0>>
        OBVIOUS
      <4>2. b1 \in Boxes /\ b2 \in Boxes /\ Rank(b1) = 5 /\ Rank(b2) = 4 /\ Moves({m.n}, b1, b2)
        BY <2>3, <2>11, <4>1
      <4>3. /\ Minded(b2)' =>
                 /\ Before({m.n}, Held(b1) \ {m.n})
                 /\ \A b \in Boxes : b # b1 /\ Rank(b2) < Rank(b) /\ Rank(b) <= Rank(b1) => Held(b) = {}
            /\ Minded(b1)' => Rank(b1) = 4 \/ Sorted(Entries(b1)')
        BY <2>6, <2>12, <3>1, <4>1, <4>2
      <4>4. /\ Minded(b2)' => Rank(b2) = 4 \/ Sorted(Entries(b2)')
            /\ Rank(b2) < Rank(b1) /\ Rank(b1) # 1
        BY <4>2
      <4>5. PICK S : S = {m.n}
        OBVIOUS
      <4>6. /\ Moves(S, b1, b2)
            /\ Minded(b2)' =>
                 /\ Before(S, Held(b1) \ S)
                 /\ \A b \in Boxes : b # b1 /\ Rank(b2) < Rank(b) /\ Rank(b) <= Rank(b1) => Held(b) = {}
        BY <4>2, <4>3, <4>5
      <4>. QED
        BY <1>8, <3>2, <4>2, <4>3, <4>4, <4>6, MoveOn
  <2>. QED
    BY <1>5, <1>6, <2>13, <2>14
<1>. QED
  BY <1>10, <1>11
------------------------------------------------------------------------------
(* The steps of the network and of the receiving swarm.                      *)

LEMMA BreakKeeps ==
  ASSUME TypeOK, Inv, NEW c \in Conns, Break(c)
  PROVE  Apart' /\ Framing' /\ Opening' /\ InLine'
<1>1. PICK k \in 0..Len(wire[c]) :
        /\ wire' = [wire EXCEPT ![c] = SubSeq(@, 1, k)]
        /\ lost' = lost \union Whole(SubSeq(wire[c], k + 1, Len(wire[c])))
  BY DEF Break
<1>2. /\ c <= opened /\ opened \in Nat /\ conn' = conn /\ opened' = opened /\ cut' = cut \union {c}
      /\ todo' = todo /\ sent' = sent /\ inbox' = inbox /\ queue' = queue /\ pending' = pending
      /\ inboxes' = inboxes /\ taken' = taken /\ unrouted' = unrouted /\ buf' = buf
      /\ stray' = stray /\ strays' = strays /\ met' = met /\ upset' = upset
  BY GatewayAssumption DEF Break, sender, client, readers, receiver, TypeOK
<1>3. PICK b, w : b = buf[c] /\ w = wire[c] /\ b \in Seq(Pieces) /\ w \in Seq(Pieces)
  BY DEF TypeOK
<1>4. PICK s, h, W : /\ s = b \o w /\ h = Len(b) + k
                     /\ W = Whole(SubSeq(w, k + 1, Len(w)))
  OBVIOUS
<1>5. /\ b \o SubSeq(w, 1, k) = SubSeq(s, 1, h) /\ s \in Seq(Pieces) /\ h \in 0..Len(s)
      /\ W = Whole(SubSeq(s, h + 1, Len(s)))
  <2>1. k \in 0..Len(w)
    BY <1>1, <1>3
  <2>2. /\ b \o SubSeq(w, 1, k) = SubSeq(b \o w, 1, Len(b) + k)
        /\ SubSeq(w, k + 1, Len(w)) = SubSeq(b \o w, Len(b) + k + 1, Len(b \o w))
        /\ b \o w \in Seq(Pieces) /\ Len(b) + k \in 0..Len(b \o w)
    <3>1. b \in Seq(Pieces) /\ w \in Seq(Pieces)
      BY <1>3
    <3>. QED
      BY <2>1, <3>1, Broken
  <2>. QED
    BY <1>4, <2>2
<1>6. Stream(c) = s /\ Stream(c)' = SubSeq(s, 1, h) /\ \A i \in Conns : i # c => Stream(i)' = Stream(i)
  <2>1. wire'[c] = SubSeq(w, 1, k) /\ \A i \in Conns : i # c => wire'[i] = wire[i]
    BY <1>1, <1>3 DEF TypeOK
  <2>. QED
    BY <1>2, <1>3, <1>4, <1>5, <2>1 DEF Stream
<1>7. /\ Entries(<<"stream", c>>) = Lasts(s)
      /\ Entries(<<"stream", c>>)' = Lasts(SubSeq(s, 1, h))
  BY <1>6, EntriesOf, EntriesNext
<1>8. PICK b1, b2 : b1 = <<"stream", c>> /\ b2 = <<"lost", 0>>
  OBVIOUS
<1>9. b1 \in Boxes /\ b2 \in Boxes /\ Rank(b1) = 3 /\ Rank(b2) = 0 /\ b1 # b2
  BY <1>8, BoxCases, Ranks
<1>10. Distinct(Lasts(s))
  BY <1>7, <1>8, <1>9 DEF Inv, Apart
<1>11. PICK S : S = Second(Named(W))
  OBVIOUS
<1>12. /\ Distinct(Lasts(SubSeq(s, 1, h))) /\ Distinct(Named(W)) /\ S \subseteq Second(Lasts(s))
       /\ Second(Lasts(SubSeq(s, 1, h))) = Second(Lasts(s)) \ S
  BY <1>5, <1>10, <1>11, Gone
<1>13. /\ S \subseteq Held(b1) /\ Held(b1)' = Held(b1) \ S /\ Distinct(Entries(b1)')
  BY <1>7, <1>8, <1>12 DEF Held
<1>14. lost' = lost \union W
  BY <1>1, <1>3, <1>4
<1>15. Held(b2)' = Held(b2) \union S /\ Distinct(Entries(b2)')
  <2>1. Apart /\ Entries(b2) = Named(lost) /\ Entries(b2)' = Named(lost \union W)
    BY <1>8, <1>14, EntriesOf, EntriesNext DEF Inv
  <2>2. Second(Named(W)) \subseteq Held(b1) /\ Distinct(Named(W))
    BY <1>11, <1>12, <1>13
  <2>3. Held(b2)' = Held(b2) \union Second(Named(W)) /\ Distinct(Entries(b2)')
    BY <1>9, <2>1, <2>2, NamedMore
  <2>. QED
    BY <1>11, <2>3
<1>16. \A i \in Boxes : i # b1 /\ i # b2 => Entries(i)' = Entries(i)
  <2> SUFFICES ASSUME NEW i \in Boxes, i # b1, i # b2, Entries(i)' # Entries(i) PROVE FALSE
    OBVIOUS
  <2>1. \A j \in Conns : i = <<"stream", j>> => j # c
    BY <1>8
  <2>. QED
    BY <1>2, <1>6, <1>8, <2>1, Same
<1>17. Moves(S, b1, b2)
  BY <1>9, <1>13, <1>15, <1>16 DEF Moves
<1>18. cut' # {} /\ Onward
  BY <1>2 DEF Onward
<1>19. ~Minded(b1)' /\ ~Minded(b2)' /\ Arriving'
  BY <1>9, <1>18 DEF Minded, Arriving
<1>20. Apart'
  BY <1>2, <1>9, <1>13, <1>15, <1>17, MoveApart DEF Inv
<1>21. InLine'
  <2>1. InLine /\ Apart /\ Rank(b2) <= Rank(b1) /\ b1 \in Boxes /\ b2 \in Boxes
    BY <1>9 DEF Inv
  <2>. QED
    BY <1>17, <1>18, <1>19, <2>1, MoveLine
<1>22. Framing'
  <2> SUFFICES ASSUME NEW i \in Conns
               PROVE  Framed(Stream(i)') /\ (i \notin cut' => Complete(Stream(i)'))
    BY DEF Framing
  <2>1. CASE i = c
    <3>1. Framed(s)
      BY <1>6 DEF Inv, Framing
    <3>2. Framed(SubSeq(s, 1, h))
      BY <1>5, <3>1, FramedPrefix
    <3>. QED
      BY <1>2, <1>6, <2>1, <3>2
  <2>2. CASE i # c
    BY <1>2, <1>6, <2>2 DEF Inv, Framing
  <2>. QED
    BY <2>1, <2>2
<1>23. Opening'
  <2>1. \A i \in Conns : i > opened' => i # c
    BY <1>2 DEF Conns
  <2>2. \A i \in Conns : i > opened' => Stream(i)' = <<>> /\ todo'[i] = <<>>
    BY <1>2, <1>6, <2>1 DEF Inv, Opening
  <2>. QED
    BY <1>18, <2>2 DEF Opening
<1>. QED
  BY <1>20, <1>21, <1>22, <1>23

LEMMA ReceiveKeeps ==
  ASSUME TypeOK, Inv, NEW c \in Conns, Receive(c)
  PROVE  Apart' /\ Framing' /\ Opening' /\ InLine'
<1>1. PICK k \in 1..Len(wire[c]) :
        /\ wire' = [wire EXCEPT ![c] = SubSeq(@, k + 1, Len(@))]
        /\ buf' = [buf EXCEPT ![c] = @ \o SubSeq(wire[c], 1, k)]
  BY DEF Receive
<1>2. /\ conn' = conn /\ opened' = opened /\ cut' = cut
      /\ todo' = todo /\ sent' = sent /\ inbox' = inbox /\ queue' = queue /\ pending' = pending
      /\ inboxes' = inboxes /\ taken' = taken /\ unrouted' = unrouted /\ lost' = lost
      /\ stray' = stray /\ strays' = strays /\ met' = met /\ upset' = upset
  BY DEF Receive, sender, client, receiver
<1>3. \A i \in Conns : Stream(i)' = Stream(i)
  <2>1. wire[c] \in Seq(Pieces) /\ buf[c] \in Seq(Pieces) /\ k \in 0..Len(wire[c])
    BY DEF TypeOK
  <2>2. /\ wire'[c] = SubSeq(wire[c], k + 1, Len(wire[c])) /\ buf'[c] = buf[c] \o SubSeq(wire[c], 1, k)
        /\ \A i \in Conns : i # c => wire'[i] = wire[i] /\ buf'[i] = buf[i]
    BY <1>1 DEF TypeOK
  <2>3. (buf[c] \o SubSeq(wire[c], 1, k)) \o SubSeq(wire[c], k + 1, Len(wire[c])) = buf[c] \o wire[c]
    BY <2>1, Joined
  <2>4. Stream(c)' = Stream(c)
    BY <2>2, <2>3 DEF Stream
  <2>5. ASSUME NEW i \in Conns, i # c PROVE Stream(i)' = Stream(i)
    BY <2>2, <2>5 DEF Stream
  <2>. QED
    BY <2>4, <2>5
<1>4. \A b \in Boxes : Entries(b)' = Entries(b)
  BY <1>2, <1>3, Same
<1>5. Apart' /\ InLine' /\ Framing' /\ Opening'
  BY <1>2, <1>3, <1>4, StayApart, StayLine, FramingStays, OpeningStays DEF Inv, Onward
<1>. QED
  BY <1>5

\* A message put at the end of a box it came to in order.
LEMMA Arrives ==
  ASSUME Apart, InLine, NEW b1 \in Boxes, NEW b2 \in Boxes, b1 # b2, NEW s \in Seq(Messages),
         Entries(b2) = Numbered(s), NEW m \in Messages, m.n \in Held(b1),
         Entries(b2)' = Numbered(Append(s, m)), Rank(b2) # 4, Onward,
         Minded(b2) => Before(Held(b2), {m.n})
  PROVE  /\ Held(b2)' = Held(b2) \union {m.n}
         /\ Distinct(Entries(b2)') /\ (Minded(b2)' => Sorted(Entries(b2)'))
<1>1. Distinct(Numbered(s)) /\ (Minded(b2) => Sorted(Numbered(s)))
  BY DEF Apart, InLine
<1>2. m.n \notin Second(Numbered(s))
  BY DEF Apart, Held
<1>3. Minded(b2) => Before(Second(Numbered(s)), {m.n})
  BY DEF Held
<1>4. PICK t : t = Numbered(Append(s, m))
  OBVIOUS
<1>5. /\ Second(t) = Second(Numbered(s)) \union {m.n} /\ Distinct(t)
      /\ (Sorted(Numbered(s)) /\ Before(Second(Numbered(s)), {m.n}) => Sorted(t))
  BY <1>1, <1>2, <1>4, NumberedAppend
<1>6. Minded(b2)' => Minded(b2)
  BY DEF Minded, Onward
<1>7. Entries(b2)' = t
  BY <1>4
<1>. QED
  BY <1>1, <1>3, <1>5, <1>6, <1>7 DEF Held

LEMMA DrainKeeps ==
  ASSUME TypeOK, Inv, NEW c \in Conns, Drain(c)
  PROVE  Apart' /\ Framing' /\ Opening' /\ InLine'
<1>1. /\ conn' = conn /\ opened' = opened /\ cut' = cut /\ wire' = wire /\ opened \in Nat
      /\ sent' = sent /\ inbox' = inbox /\ queue' = queue /\ pending' = pending
      /\ inboxes' = inboxes /\ taken' = taken /\ unrouted' = unrouted /\ lost' = lost
      /\ stray' = stray /\ strays' = strays /\ met' = met /\ upset' = upset /\ Onward
  BY GatewayAssumption DEF Drain, sender, client, network, receiver, TypeOK, Onward
<1>2. PICK b, w, s : /\ b = buf[c] /\ w = wire[c] /\ s = b \o w /\ s = Stream(c)
                     /\ b \in Seq(Pieces) /\ w \in Seq(Pieces)
  BY DEF TypeOK, Stream
<1>3. s \in Seq(Pieces) /\ Framed(s) /\ Len(s) = Len(b) + Len(w) /\ Len(b) \in Nat /\ Len(w) \in Nat
  <2>1. s \in Seq(Pieces) /\ Len(s) = Len(b) + Len(w) /\ Len(b) \in Nat /\ Len(w) \in Nat
    <3>1. b \in Seq(Pieces) /\ w \in Seq(Pieces)
      BY <1>2
    <3>2. b \o w \in Seq(Pieces) /\ Len(b \o w) = Len(b) + Len(w)
      BY <3>1, Halves
    <3>3. Len(b) \in Nat /\ Len(w) \in Nat
      BY <3>1
    <3>4. s = b \o w
      BY <1>2
    <3>. QED
      BY <3>2, <3>3, <3>4
  <2>2. Framed(s)
    BY <1>2 DEF Inv, Framing
  <2>. QED
    BY <2>1, <2>2
<1>4. UnpackOne(b) = IF Len(b) < FrameLen THEN <<None, 0>> ELSE <<s[1][1], FrameLen>>
  <2>1. b \in Seq(Pieces) /\ w \in Seq(Pieces) /\ Framed(b \o w)
    BY <1>2, <1>3
  <2>2. UnpackOne(b) = IF Len(b) < FrameLen THEN <<None, 0>> ELSE <<(b \o w)[1][1], FrameLen>>
    BY <2>1, InStep
  <2>. QED
    BY <1>2, <2>2
<1>5. FrameLen \in Nat /\ FrameLen > 1
  BY GatewayAssumption
<1>6. CASE Len(b) < FrameLen
  <2>1. UnpackOne(buf[c])[2] = 0
    BY <1>2, <1>4, <1>6
  <2>2. buf' = buf /\ todo' = todo
    BY <2>1 DEF Drain
  <2>3. \A i \in Conns : Stream(i)' = Stream(i)
    BY <1>1, <2>2 DEF Stream
  <2>4. \A i \in Boxes : Entries(i)' = Entries(i)
    BY <1>1, <2>2, <2>3, Same
  <2>. QED
    BY <1>1, <2>2, <2>3, <2>4, StayApart, StayLine, FramingStays, OpeningStays DEF Inv
<1>7. CASE ~(Len(b) < FrameLen)
  <2>1. FrameLen <= Len(s) /\ FrameLen \in 0..Len(b)
    BY <1>3, <1>5, <1>7
  <2>2. PICK m, t : m = s[1][1] /\ t = SubSeq(s, FrameLen + 1, Len(s))
    OBVIOUS
  <2>3. /\ m \in Routed /\ t \in Seq(Pieces) /\ Framed(t) /\ (Complete(s) => Complete(t))
        /\ Distinct(Lasts(s)) =>
             /\ Distinct(Lasts(t)) /\ m.n \in Second(Lasts(s))
             /\ Second(Lasts(t)) = Second(Lasts(s)) \ {m.n}
             /\ Sorted(Lasts(s)) => Sorted(Lasts(t)) /\ Before({m.n}, Second(Lasts(t)))
    BY <1>3, <2>1, <2>2, FrameDropped
  <2>4. m \in Messages /\ m # None
    BY <2>3, MessageNumbers
  <2>5. UnpackOne(buf[c])[1] = m /\ UnpackOne(buf[c])[2] = FrameLen
    BY <1>2, <1>4, <1>7, <2>2
  <2>6. /\ buf' = [buf EXCEPT ![c] = SubSeq(@, FrameLen + 1, Len(@))]
        /\ todo' = [todo EXCEPT ![c] = Append(@, m)]
    BY <1>5, <2>4, <2>5 DEF Drain
  <2>7. /\ buf'[c] = SubSeq(b, FrameLen + 1, Len(b)) /\ todo'[c] = Append(todo[c], m)
        /\ todo[c] \in Seq(Routed)
        /\ \A i \in Conns : i # c => buf'[i] = buf[i] /\ todo'[i] = todo[i]
    BY <1>2, <2>6 DEF TypeOK
  <2>8. Stream(c)' = t
    <3>1. SubSeq(b, FrameLen + 1, Len(b)) \o w = SubSeq(b \o w, FrameLen + 1, Len(b \o w))
      BY <1>2, <2>1, Dropped
    <3>2. Stream(c)' = SubSeq(b, FrameLen + 1, Len(b)) \o w
      BY <1>1, <1>2, <2>7 DEF Stream
    <3>. QED
      BY <1>2, <2>2, <3>1, <3>2
  <2>9. \A i \in Conns : i # c => Stream(i)' = Stream(i)
    BY <1>1, <2>7 DEF Stream
  <2>10. PICK b1, b2 : b1 = <<"stream", c>> /\ b2 = <<"todo", c>>
    OBVIOUS
  <2>11. b1 \in Boxes /\ b2 \in Boxes /\ Rank(b1) = 3 /\ Rank(b2) = 2
    BY <2>10, BoxCases, Ranks
  <2>12. b1 # b2
    BY <2>11
  <2>13. /\ Entries(b1) = Lasts(s) /\ Entries(b1)' = Lasts(t)
         /\ Entries(b2) = Numbered(todo[c]) /\ Entries(b2)' = Numbered(Append(todo[c], m))
    BY <1>2, <2>7, <2>8, <2>10, EntriesOf, EntriesNext
  <2>14. Distinct(Lasts(s)) /\ (Minded(b1) => Sorted(Lasts(s)))
    BY <2>11, <2>13 DEF Inv, Apart, InLine
  <2>15. /\ m.n \in Held(b1) /\ Held(b1)' = Held(b1) \ {m.n} /\ Distinct(Entries(b1)')
         /\ Minded(b1) => Sorted(Entries(b1)') /\ Before({m.n}, Held(b1) \ {m.n})
    BY <2>3, <2>13, <2>14 DEF Held
  <2>16. /\ (Minded(b1)' => Minded(b1)) /\ (Minded(b2)' => Minded(b1) /\ Minded(b2) /\ cut = {})
         /\ (Minded(b2) => cut = {})
    BY <1>1, <2>11 DEF Minded
  <2>17. Minded(b2) => Before(Held(b2), {m.n})
    <3>1. Minded(b2) => Before(Held(b2), Held(b1))
      BY <2>11 DEF Inv, InLine
    <3>. QED
      BY <2>15, <3>1 DEF Before
  <2>18. /\ Held(b2)' = Held(b2) \union {m.n}
         /\ Distinct(Entries(b2)') /\ (Minded(b2)' => Sorted(Entries(b2)'))
    <3>1. todo[c] \in Seq(Messages) /\ Rank(b2) # 4
      BY <2>7, <2>11, MessageNumbers
    <3>. QED
      BY <1>1, <2>4, <2>11, <2>12, <2>13, <2>15, <2>17, <3>1, Arrives DEF Inv
  <2>19. \A i \in Boxes : i # b1 /\ i # b2 => Entries(i)' = Entries(i)
    <3> SUFFICES ASSUME NEW i \in Boxes, i # b1, i # b2, Entries(i)' # Entries(i) PROVE FALSE
      OBVIOUS
    <3>1. \A j \in Conns : i = <<"stream", j>> \/ i = <<"todo", j>> => j # c
      BY <2>10
    <3>. QED
      BY <1>1, <2>7, <2>9, <3>1, Same
  <2>20. Moves({m.n}, b1, b2)
    BY <2>12, <2>15, <2>18, <2>19 DEF Moves
  <2>21. c <= opened
    <3>1. s # <<>>
      BY <1>3, <1>5, <2>1
    <3>. QED
      BY <1>1, <1>2, <3>1 DEF Inv, Opening, Conns
  <2>22. ASSUME Minded(b2)', NEW i \in Boxes, i # b1, 2 < Rank(i), Rank(i) <= 3
         PROVE  Held(i) = {}
    <3>1. Rank(i) = 3
      BY <2>22, Ranks
    <3>2. PICK j \in Conns : i = <<"stream", j>>
      BY <3>1, RankCases
    <3>3. j # c
      BY <2>10, <2>22, <3>2
    <3>4. Stream(j) = <<>>
      BY <1>1, <2>16, <2>21, <2>22, <3>3, OneConnection DEF Inv
    <3>5. Entries(i) = Lasts(<<>>)
      BY <3>2, <3>4, EntriesOf
    <3>. QED
      BY <3>5 DEF Lasts, Held, Second
  <2>23. Arriving'
    BY <1>1, StayArriving, EntriesOf, EntriesNext DEF Inv
  <2>24. Apart'
    BY <1>1, <2>11, <2>15, <2>18, <2>20, MoveApart DEF Inv
  <2>25. InLine'
    <3>1. /\ InLine /\ Apart /\ Rank(b2) < Rank(b1) /\ Rank(b1) # 1 /\ b1 \in Boxes /\ b2 \in Boxes
          /\ Onward
      BY <1>1, <2>11 DEF Inv
    <3>2. Minded(b2)' =>
            /\ Before({m.n}, Held(b1) \ {m.n})
            /\ \A i \in Boxes : i # b1 /\ Rank(b2) < Rank(i) /\ Rank(i) <= Rank(b1) => Held(i) = {}
      BY <2>11, <2>15, <2>16, <2>22
    <3>3. /\ Minded(b1)' => Sorted(Entries(b1)')
          /\ Minded(b2)' => Sorted(Entries(b2)')
      BY <2>15, <2>16, <2>18
    <3>. QED
      BY <2>20, <2>23, <3>1, <3>2, <3>3, MoveOn
  <2>26. Framing'
    <3> SUFFICES ASSUME NEW i \in Conns
                 PROVE  Framed(Stream(i)') /\ (i \notin cut' => Complete(Stream(i)'))
      BY DEF Framing
    <3>1. CASE i = c
      <4>1. c \notin cut => Complete(s)
        BY <1>2 DEF Inv, Framing
      <4>. QED
        BY <1>1, <2>3, <2>8, <3>1, <4>1
    <3>2. CASE i # c
      BY <1>1, <2>9, <3>2 DEF Inv, Framing
    <3>. QED
      BY <3>1, <3>2
  <2>27. Opening'
    <3>1. \A i \in Conns : i > opened' => i # c
      BY <1>1, <2>21 DEF Conns
    <3>2. \A i \in Conns : i > opened' => Stream(i)' = <<>> /\ todo'[i] = <<>>
      BY <1>1, <2>7, <2>9, <3>1 DEF Inv, Opening
    <3>. QED
      BY <1>1, <3>2 DEF Inv, Opening
  <2>. QED
    BY <2>24, <2>25, <2>26, <2>27
<1>. QED
  BY <1>6, <1>7

\* Where sends meet, what waits in the agent's inbox goes astray.
LEMMA MeetKeeps ==
  ASSUME TypeOK, Inv, NEW a \in Agents, Meet(a), \A i \in Conns : Stream(i)' = Stream(i),
         cut' = cut, todo' = todo, sent' = sent, inbox' = inbox, stray' = stray, met' = met,
         queue' = queue, pending' = pending, taken' = taken, unrouted' = unrouted, lost' = lost
  PROVE  Apart' /\ InLine'
<1>1. /\ inboxes'[a] = <<>> /\ \A i \in Agents : i # a => inboxes'[i] = inboxes[i]
      /\ strays'[a] = strays[a] \union ToSet(inboxes[a])
      /\ \A i \in Agents : i # a => strays'[i] = strays[i]
      /\ a \in upset' /\ upset \subseteq upset' /\ inboxes[a] \in Seq(Messages)
  BY MessageNumbers DEF Meet, TypeOK
<1>2. PICK b1, b2 : b1 = <<"inboxes", a>> /\ b2 = <<"strays", a>>
  OBVIOUS
<1>3. b1 \in Boxes /\ b2 \in Boxes /\ Rank(b1) = 1 /\ Rank(b2) = 0 /\ b1 # b2
  BY <1>2, BoxCases, Ranks
<1>4. PICK s \in Seq(Messages) : s = inboxes[a]
  BY <1>1
<1>5. /\ Entries(b1) = Numbered(s) /\ Entries(b1)' = {}
      /\ Entries(b2) = Named(strays[a]) /\ Entries(b2)' = Named(strays[a] \union ToSet(s))
  BY <1>1, <1>2, <1>4, EntriesOf, EntriesNext, NumberedEmpty
<1>6. PICK S : S = Held(b1)
  OBVIOUS
<1>7. Held(b1)' = {} /\ Distinct(Entries(b1)') /\ Sorted(Entries(b1)')
  BY <1>5, NumberedEmpty DEF Held, Distinct, Sorted
<1>8. Distinct(Numbered(s)) /\ Second(Numbered(s)) = S
  BY <1>3, <1>5, <1>6 DEF Inv, Apart, Held
<1>9. Second(Named(ToSet(s))) = S /\ Distinct(Named(ToSet(s)))
  BY <1>8, SetOf
<1>10. Held(b2)' = Held(b2) \union S /\ Distinct(Entries(b2)')
  <2>1. Apart /\ Second(Named(ToSet(s))) \subseteq Held(b1)
    BY <1>6, <1>9 DEF Inv
  <2>2. Held(b2)' = Held(b2) \union Second(Named(ToSet(s))) /\ Distinct(Entries(b2)')
    BY <1>3, <1>5, <1>9, <2>1, NamedMore
  <2>. QED
    BY <1>9, <2>2
<1>11. \A i \in Boxes : i # b1 /\ i # b2 => Entries(i)' = Entries(i)
  <2> SUFFICES ASSUME NEW i \in Boxes, i # b1, i # b2, Entries(i)' # Entries(i) PROVE FALSE
    OBVIOUS
  <2>1. \A j \in Agents : i = <<"inboxes", j>> \/ i = <<"strays", j>> => j # a
    BY <1>2
  <2>. QED
    BY <1>1, <2>1, Same
<1>12. Moves(S, b1, b2)
  BY <1>3, <1>6, <1>7, <1>10, <1>11 DEF Moves
<1>13. Onward
  BY <1>1 DEF Onward
<1>14. Arriving'
  <2> SUFFICES ASSUME NEW i \in Agents \ upset'
               PROVE  /\ Entries(<<"inboxes", i>>)' = Entries(<<"inboxes", i>>)
                      /\ Entries(<<"taken", i>>)' = Entries(<<"taken", i>>)
    BY <1>13, StayArriving DEF Inv
  <2>1. inboxes'[i] = inboxes[i] /\ taken'[i] = taken[i]
    BY <1>1
  <2>. QED
    BY <2>1, EntriesOf, EntriesNext
<1>15. Apart'
  BY <1>3, <1>7, <1>10, <1>12, MoveApart DEF Inv
<1>16. InLine'
  <2>1. InLine /\ Apart /\ Rank(b2) <= Rank(b1) /\ ~Minded(b2)'
    BY <1>3, NeverMinded DEF Inv
  <2>2. ~Minded(b1)'
    BY <1>1, <1>2, <1>3 DEF Minded
  <2>3. Minded(b2)' => Minded(b1)
    BY <2>1
  <2>. QED
    BY <1>3, <1>7, <1>12, <1>13, <1>14, <2>1, <2>2, <2>3, MoveLine
<1>. QED
  BY <1>15, <1>16

LEMMA DeliverBeginKeeps ==
  ASSUME TypeOK, Inv, NEW c \in Conns, DeliverBegin(c)
  PROVE  Apart' /\ Framing' /\ Opening' /\ InLine'
<1>1. /\ \A i \in Conns : Stream(i)' = Stream(i)
      /\ conn' = conn /\ opened' = opened /\ cut' = cut /\ todo' = todo /\ sent' = sent
      /\ inbox' = inbox /\ stray' = stray /\ met' = met /\ queue' = queue /\ pending' = pending
      /\ taken' = taken /\ unrouted' = unrouted /\ lost' = lost
  BY DEF DeliverBegin, sender, client, network, Stream
<1>2. Framing' /\ Opening'
  BY <1>1, FramingStays, OpeningStays DEF Inv
<1>3. CASE Meet(Target(c))
  <2>1. PICK a \in Agents : a = Target(c)
    BY Targets DEF DeliverBegin
  <2>2. Meet(a)
    BY <1>3, <2>1
  <2>. QED
    BY <1>1, <1>2, <2>2, MeetKeeps
<1>4. CASE UNCHANGED <<inboxes, upset, strays>>
  <2>1. \A b \in Boxes : Entries(b)' = Entries(b)
    BY <1>1, <1>4, Same
  <2>2. Apart' /\ InLine'
    BY <1>1, <1>4, <2>1, StayApart, StayLine DEF Inv, Onward
  <2>. QED
    BY <1>2, <2>2
<1>. QED
  BY <1>3, <1>4 DEF DeliverBegin

LEMMA MeetOtherKeeps ==
  ASSUME TypeOK, Inv, NEW a \in Agents, MeetOther(a)
  PROVE  Apart' /\ Framing' /\ Opening' /\ InLine'
<1>1. /\ \A i \in Conns : Stream(i)' = Stream(i)
      /\ conn' = conn /\ opened' = opened /\ cut' = cut /\ todo' = todo /\ sent' = sent
      /\ inbox' = inbox /\ stray' = stray /\ met' = met /\ queue' = queue /\ pending' = pending
      /\ taken' = taken /\ unrouted' = unrouted /\ lost' = lost /\ Meet(a)
  BY DEF MeetOther, sender, client, network, readers, Stream
<1>2. Framing' /\ Opening'
  BY <1>1, FramingStays, OpeningStays DEF Inv
<1>. QED
  BY <1>1, <1>2, MeetKeeps

LEMMA DeliverKeeps ==
  ASSUME TypeOK, Inv, NEW c \in Conns, Deliver(c)
  PROVE  Apart' /\ Framing' /\ Opening' /\ InLine'
<1>1. /\ \A i \in Conns : Stream(i)' = Stream(i)
      /\ conn' = conn /\ opened' = opened /\ cut' = cut /\ opened \in Nat
      /\ sent' = sent /\ inbox' = inbox /\ queue' = queue /\ pending' = pending
      /\ taken' = taken /\ unrouted' = unrouted /\ stray' = stray /\ met' = met
      /\ upset' = upset /\ Onward
  BY GatewayAssumption DEF Deliver, sender, client, network, TypeOK, Stream, Onward
<1>2. /\ todo[c] \in Seq(Routed) /\ todo[c] # <<>>
      /\ todo'[c] = Tail(todo[c]) /\ \A i \in Conns : i # c => todo'[i] = todo[i]
  BY DEF Deliver, TypeOK
<1>3. PICK m \in Routed : m = Head(todo[c])
  BY <1>2
<1>4. PICK a \in Agents : a = Target(c)
  BY <1>2, Targets
<1>5. m \in Messages /\ todo[c] \in Seq(Messages)
  BY <1>2, MessageNumbers
<1>6. PICK b1 : b1 = <<"todo", c>>
  OBVIOUS
<1>7. b1 \in Boxes /\ Rank(b1) = 2
  BY <1>6, BoxCases, Ranks
<1>8. Entries(b1) = Numbered(todo[c]) /\ Entries(b1)' = Numbered(Tail(todo[c]))
  BY <1>2, <1>6, EntriesOf, EntriesNext
<1>9. Distinct(Numbered(todo[c])) /\ (Minded(b1) => Sorted(Numbered(todo[c])))
  BY <1>7, <1>8 DEF Inv, Apart, InLine
<1>10. /\ m.n \in Second(Numbered(todo[c]))
       /\ Second(Numbered(Tail(todo[c]))) = Second(Numbered(todo[c])) \ {m.n}
       /\ Distinct(Numbered(Tail(todo[c])))
       /\ Sorted(Numbered(todo[c])) =>
            Sorted(Numbered(Tail(todo[c]))) /\ Before({m.n}, Second(Numbered(Tail(todo[c]))))
  BY <1>2, <1>3, <1>5, <1>9, NumberedTail
<1>11. /\ m.n \in Held(b1) /\ Held(b1)' = Held(b1) \ {m.n} /\ Distinct(Entries(b1)')
       /\ Minded(b1) => Sorted(Entries(b1)') /\ Before({m.n}, Held(b1) \ {m.n})
  BY <1>8, <1>9, <1>10 DEF Held
<1>12. (Minded(b1)' => Minded(b1)) /\ (Minded(b1) <=> cut = {} /\ ~met)
  BY <1>1, <1>7 DEF Minded
<1>13. c <= opened
  BY <1>1, <1>2 DEF Inv, Opening, Conns
<1>14. Framing' /\ Opening'
  <2>1. \A i \in Conns : i > opened => i # c
    BY <1>1, <1>13 DEF Conns
  <2>2. \A i \in Conns : i > opened' => Stream(i)' = <<>> /\ todo'[i] = <<>>
    BY <1>1, <1>2, <2>1 DEF Inv, Opening
  <2>3. Opening'
    BY <1>1, <2>2 DEF Inv, Opening
  <2>. QED
    BY <1>1, <2>3, FramingStays DEF Inv
<1>15. CASE /\ a \notin upset /\ inboxes' = [inboxes EXCEPT ![a] = Append(@, m)]
            /\ lost' = lost /\ strays' = strays
  <2>1. inboxes' = [inboxes EXCEPT ![a] = Append(@, m)] /\ lost' = lost /\ strays' = strays
    BY <1>15
  <2>2. /\ inboxes'[a] = Append(inboxes[a], m) /\ inboxes[a] \in Seq(Routed)
        /\ \A i \in Agents : i # a => inboxes'[i] = inboxes[i]
    BY <2>1 DEF TypeOK
  <2>3. PICK b2 : b2 = <<"inboxes", a>>
    OBVIOUS
  <2>4. b2 \in Boxes /\ Rank(b2) = 1
    BY <2>3, BoxCases, Ranks
  <2>5. b1 # b2
    BY <1>7, <2>4
  <2>6. Entries(b2) = Numbered(inboxes[a]) /\ Entries(b2)' = Numbered(Append(inboxes[a], m))
    BY <2>2, <2>3, EntriesOf, EntriesNext
  <2>7. (Minded(b2) <=> cut = {} /\ ~met) /\ (Minded(b2)' <=> cut = {} /\ ~met)
    BY <1>1, <1>15, <2>3, <2>4 DEF Minded
  <2>8. ASSUME NEW b \in Boxes, Rank(b) = 1, Minded(b) PROVE Before(Held(b), {m.n})
    <3>1. Minded(b) /\ Rank(b) < Rank(b1)
      BY <1>7, <2>8
    <3>2. Before(Held(b), Held(b1))
      BY <1>7, <3>1 DEF Inv, InLine
    <3>. QED
      BY <1>11, <3>2 DEF Before
  <2>9. /\ Held(b2)' = Held(b2) \union {m.n}
        /\ Distinct(Entries(b2)') /\ (Minded(b2)' => Sorted(Entries(b2)'))
    <3>1. inboxes[a] \in Seq(Messages)
      BY <2>2, MessageNumbers
    <3>2. Rank(b2) # 4 /\ (Minded(b2) => Before(Held(b2), {m.n}))
      BY <2>4, <2>7, <2>8
    <3>3. Apart /\ InLine
      BY DEF Inv
    <3>. QED
      BY <1>1, <1>5, <1>7, <1>11, <2>4, <2>5, <2>6, <3>1, <3>2, <3>3, Arrives
  <2>10. \A i \in Boxes : i # b1 /\ i # b2 => Entries(i)' = Entries(i)
    <3> SUFFICES ASSUME NEW i \in Boxes, i # b1, i # b2, Entries(i)' # Entries(i) PROVE FALSE
      OBVIOUS
    <3>1. \A j \in Conns : i = <<"todo", j>> => j # c
      BY <1>6
    <3>2. \A j \in Agents : i = <<"inboxes", j>> => j # a
      BY <2>3
    <3>. QED
      BY <1>1, <1>2, <2>1, <2>2, <3>1, <3>2, Same
  <2>11. Moves({m.n}, b1, b2)
    BY <1>11, <2>5, <2>9, <2>10 DEF Moves
  <2>12. ASSUME cut = {}, NEW i \in Boxes, i # b1, 1 < Rank(i), Rank(i) <= 2
         PROVE  Held(i) = {}
    <3>1. Rank(i) = 2
      BY <2>12, Ranks
    <3>2. PICK j \in Conns : i = <<"todo", j>>
      BY <3>1, RankCases
    <3>3. j # c
      BY <1>6, <2>12, <3>2
    <3>4. todo[j] = <<>>
      BY <1>1, <1>13, <2>12, <3>3, OneConnection DEF Inv
    <3>5. Entries(i) = Numbered(<<>>)
      BY <3>2, <3>4, EntriesOf
    <3>. QED
      BY <3>5, NumberedEmpty DEF Held
  <2>13. Arriving'
    <3> SUFFICES ASSUME cut = {}, ~met, NEW i \in Agents \ upset
                 PROVE  Before(Held(<<"taken", i>>)', Held(<<"inboxes", i>>)')
      BY <1>1 DEF Arriving
    <3>1. PICK x, y : x = <<"taken", i>> /\ y = <<"inboxes", i>>
      OBVIOUS
    <3>2. x \in Boxes /\ y \in Boxes /\ Rank(x) = 1 /\ x[2] = i
      BY <3>1, BoxCases, Ranks
    <3>8. Minded(x)
      BY <3>2 DEF Minded
    <3>3. Before(Held(x), Held(y)) /\ Before(Held(x), {m.n})
      BY <2>8, <3>1, <3>2, <3>8 DEF Inv, InLine
    <3>4. x # b1 /\ x # b2 /\ y # b1
      BY <1>6, <2>3, <3>1
    <3>5. Held(x)' = Held(x)
      BY <2>10, <3>2, <3>4 DEF Held
    <3>6. Held(y)' \subseteq Held(y) \union {m.n}
      <4>1. CASE y = b2
        BY <2>9, <4>1
      <4>2. CASE y # b2
        BY <2>10, <3>2, <3>4, <4>2 DEF Held
      <4>. QED
        BY <4>1, <4>2
    <3>7. Before(Held(x)', Held(y)')
      BY <3>3, <3>5, <3>6 DEF Before
    <3>. QED
      BY <3>1, <3>7
  <2>14. Apart'
    BY <1>1, <1>7, <1>11, <2>4, <2>9, <2>11, MoveApart DEF Inv
  <2>15. InLine'
    <3>1. /\ InLine /\ Apart /\ Rank(b2) < Rank(b1) /\ Rank(b1) # 1 /\ Onward
      BY <1>1, <1>7, <2>4 DEF Inv
    <3>2. Minded(b2)' =>
            /\ Before({m.n}, Held(b1) \ {m.n})
            /\ \A i \in Boxes : i # b1 /\ Rank(b2) < Rank(i) /\ Rank(i) <= Rank(b1) => Held(i) = {}
      BY <1>7, <1>11, <1>12, <2>4, <2>7, <2>12
    <3>3. /\ Minded(b1)' => Sorted(Entries(b1)')
          /\ Minded(b2)' => Sorted(Entries(b2)')
      BY <1>11, <1>12, <2>9
    <3>. QED
      BY <1>7, <2>4, <2>11, <2>13, <3>1, <3>2, <3>3, MoveOn
  <2>. QED
    BY <1>14, <2>14, <2>15
<1>16. ASSUME NEW D, NEW b2 \in Boxes, b1 # b2, Rank(b2) = 0,
              Entries(b2) = Named(D), Entries(b2)' = Named(D \union {m}), inboxes' = inboxes,
              \A i \in Boxes : i # b1 /\ i # b2 => Entries(i)' = Entries(i)
       PROVE  Apart' /\ InLine'
  <2>1. Second(Named({m})) = {m.n} /\ Distinct(Named({m}))
    BY NamedOne
  <2>2. Held(b2)' = Held(b2) \union {m.n} /\ Distinct(Entries(b2)')
    <3>1. Apart /\ Second(Named({m})) \subseteq Held(b1)
      BY <1>11, <2>1 DEF Inv
    <3>2. Held(b2)' = Held(b2) \union Second(Named({m})) /\ Distinct(Entries(b2)')
      BY <1>7, <1>16, <2>1, <3>1, NamedMore
    <3>. QED
      BY <2>1, <3>2
  <2>3. Moves({m.n}, b1, b2)
    BY <1>11, <1>16, <2>2 DEF Moves
  <2>4. ~Minded(b2)'
    BY <1>16, NeverMinded
  <2>5. Arriving'
    BY <1>1, <1>16, StayArriving, EntriesOf, EntriesNext DEF Inv
  <2>6. Apart'
    BY <1>1, <1>7, <1>11, <1>16, <2>2, <2>3, MoveApart DEF Inv
  <2>7. InLine'
    <3>1. InLine /\ Apart /\ Rank(b2) < Rank(b1) /\ Rank(b1) # 1 /\ Onward
      BY <1>1, <1>7, <1>16 DEF Inv
    <3>2. Minded(b1)' => Sorted(Entries(b1)')
      BY <1>11, <1>12
    <3>. QED
      BY <1>7, <1>16, <2>3, <2>4, <2>5, <3>1, <3>2, MoveOn
  <2>. QED
    BY <2>6, <2>7
<1>17. CASE lost' = lost \union {m} /\ inboxes' = inboxes /\ strays' = strays
  <2>1. PICK b2 : b2 = <<"lost", 0>>
    OBVIOUS
  <2>2. b2 \in Boxes /\ Rank(b2) = 0 /\ b1 # b2
    BY <1>6, <2>1, BoxCases, Ranks
  <2>3. Entries(b2) = Named(lost) /\ Entries(b2)' = Named(lost \union {m})
    BY <1>17, <2>1, EntriesOf, EntriesNext
  <2>4. \A i \in Boxes : i # b1 /\ i # b2 => Entries(i)' = Entries(i)
    <3> SUFFICES ASSUME NEW i \in Boxes, i # b1, i # b2, Entries(i)' # Entries(i) PROVE FALSE
      OBVIOUS
    <3>1. \A j \in Conns : i = <<"todo", j>> => j # c
      BY <1>6
    <3>. QED
      BY <1>1, <1>2, <1>17, <2>1, <3>1, Same
  <2>. QED
    BY <1>14, <1>16, <1>17, <2>2, <2>3, <2>4
<1>18. CASE strays' = [strays EXCEPT ![a] = @ \union {m}] /\ inboxes' = inboxes /\ lost' = lost
  <2>1. PICK b2 : b2 = <<"strays", a>>
    OBVIOUS
  <2>2. b2 \in Boxes /\ Rank(b2) = 0 /\ b1 # b2
    BY <1>6, <2>1, BoxCases, Ranks
  <2>3. /\ strays'[a] = strays[a] \union {m}
        /\ \A i \in Agents : i # a => strays'[i] = strays[i]
    BY <1>18 DEF TypeOK
  <2>4. Entries(b2) = Named(strays[a]) /\ Entries(b2)' = Named(strays[a] \union {m})
    BY <2>1, <2>3, EntriesOf, EntriesNext
  <2>5. \A i \in Boxes : i # b1 /\ i # b2 => Entries(i)' = Entries(i)
    <3> SUFFICES ASSUME NEW i \in Boxes, i # b1, i # b2, Entries(i)' # Entries(i) PROVE FALSE
      OBVIOUS
    <3>1. \A j \in Conns : i = <<"todo", j>> => j # c
      BY <1>6
    <3>2. \A j \in Agents : i = <<"strays", j>> => j # a
      BY <2>1
    <3>. QED
      BY <1>1, <1>2, <1>18, <2>3, <3>1, <3>2, Same
  <2>. QED
    BY <1>14, <1>16, <1>18, <2>2, <2>4, <2>5
<1>. QED
  BY <1>3, <1>4, <1>15, <1>17, <1>18 DEF Deliver

LEMMA ConsumeKeeps ==
  ASSUME TypeOK, Inv, NEW a \in Agents, Consume(a)
  PROVE  Apart' /\ Framing' /\ Opening' /\ InLine'
<1>1. /\ \A i \in Conns : Stream(i)' = Stream(i)
      /\ conn' = conn /\ opened' = opened /\ cut' = cut /\ todo' = todo
      /\ sent' = sent /\ inbox' = inbox /\ queue' = queue /\ pending' = pending
      /\ lost' = lost /\ unrouted' = unrouted
      /\ stray' = stray /\ strays' = strays /\ met' = met /\ upset' = upset /\ Onward
  BY DEF Consume, sender, client, network, readers, Stream, Onward
<1>2. /\ inboxes[a] \in Seq(Routed) /\ inboxes[a] # <<>> /\ taken[a] \in Seq(Routed)
  BY DEF Consume, TypeOK
<1>3. PICK m \in Routed : m = Head(inboxes[a])
  BY <1>2
<1>4. /\ inboxes'[a] = Tail(inboxes[a]) /\ taken'[a] = Append(taken[a], m)
      /\ \A i \in Agents : i # a => inboxes'[i] = inboxes[i] /\ taken'[i] = taken[i]
  BY <1>3 DEF Consume, TypeOK
<1>5. m \in Messages /\ inboxes[a] \in Seq(Messages) /\ taken[a] \in Seq(Messages)
  BY <1>2, MessageNumbers
<1>6. PICK b1, b2 : b1 = <<"inboxes", a>> /\ b2 = <<"taken", a>>
  OBVIOUS
<1>7. b1 \in Boxes /\ b2 \in Boxes /\ Rank(b1) = 1 /\ Rank(b2) = 1 /\ b1 # b2
  BY <1>6, BoxCases, Ranks
<1>8. /\ Entries(b1) = Numbered(inboxes[a]) /\ Entries(b1)' = Numbered(Tail(inboxes[a]))
      /\ Entries(b2) = Numbered(taken[a]) /\ Entries(b2)' = Numbered(Append(taken[a], m))
  BY <1>4, <1>6, EntriesOf, EntriesNext
<1>9. Distinct(Numbered(inboxes[a])) /\ (Minded(b1) => Sorted(Numbered(inboxes[a])))
  BY <1>7, <1>8 DEF Inv, Apart, InLine
<1>10. /\ m.n \in Second(Numbered(inboxes[a]))
       /\ Second(Numbered(Tail(inboxes[a]))) = Second(Numbered(inboxes[a])) \ {m.n}
       /\ Distinct(Numbered(Tail(inboxes[a])))
       /\ Sorted(Numbered(inboxes[a])) =>
            /\ Sorted(Numbered(Tail(inboxes[a])))
            /\ Before({m.n}, Second(Numbered(Tail(inboxes[a]))))
  BY <1>2, <1>3, <1>5, <1>9, NumberedTail
<1>11. /\ m.n \in Held(b1) /\ Held(b1)' = Held(b1) \ {m.n} /\ Distinct(Entries(b1)')
       /\ Minded(b1) => Sorted(Entries(b1)') /\ Before({m.n}, Held(b1) \ {m.n})
  BY <1>8, <1>9, <1>10 DEF Held
<1>12. PICK quiet \in BOOLEAN : quiet <=> cut = {} /\ ~met /\ a \notin upset
  OBVIOUS
<1>13. /\ (Minded(b1)' => quiet) /\ (Minded(b2)' => quiet)
       /\ (Minded(b1) <=> quiet) /\ (Minded(b2) <=> quiet)
  BY <1>1, <1>6, <1>7, <1>12 DEF Minded
<1>14. quiet => Before(Held(b2), Held(b1))
  BY <1>6, <1>12 DEF Inv, InLine
<1>15. /\ Held(b2)' = Held(b2) \union {m.n}
       /\ Distinct(Entries(b2)') /\ (Minded(b2)' => Sorted(Entries(b2)'))
  <2>1. Rank(b2) # 4 /\ (Minded(b2) => Before(Held(b2), {m.n}))
    BY <1>7, <1>11, <1>13, <1>14 DEF Before
  <2>2. Apart /\ InLine
    BY DEF Inv
  <2>. QED
    BY <1>1, <1>5, <1>7, <1>8, <1>11, <2>1, <2>2, Arrives
<1>16. \A i \in Boxes : i # b1 /\ i # b2 => Entries(i)' = Entries(i)
  <2> SUFFICES ASSUME NEW i \in Boxes, i # b1, i # b2, Entries(i)' # Entries(i) PROVE FALSE
    OBVIOUS
  <2>1. \A j \in Agents : i = <<"inboxes", j>> \/ i = <<"taken", j>> => j # a
    BY <1>6
  <2>. QED
    BY <1>1, <1>4, <2>1, Same
<1>17. Moves({m.n}, b1, b2)
  BY <1>7, <1>11, <1>15, <1>16 DEF Moves
<1>18. Arriving'
  <2> SUFFICES ASSUME cut = {}, ~met, NEW i \in Agents \ upset
               PROVE  Before(Held(<<"taken", i>>)', Held(<<"inboxes", i>>)')
    BY <1>1 DEF Arriving
  <2>1. CASE i = a
    <3>1. quiet
      BY <1>12, <2>1
    <3>2. Before(Held(b2)', Held(b1)')
      BY <1>11, <1>13, <1>14, <1>15, <3>1 DEF Before
    <3>. QED
      BY <1>6, <2>1, <3>2
  <2>2. CASE i # a
    <3>1. PICK x, y : x = <<"taken", i>> /\ y = <<"inboxes", i>>
      OBVIOUS
    <3>2. x \in Boxes /\ y \in Boxes /\ Before(Held(x), Held(y))
      BY <3>1, BoxCases DEF Inv, InLine
    <3>3. x # b1 /\ x # b2 /\ y # b1 /\ y # b2
      BY <1>6, <2>2, <3>1
    <3>4. Held(x)' = Held(x) /\ Held(y)' = Held(y)
      BY <1>16, <3>2, <3>3 DEF Held
    <3>. QED
      BY <3>1, <3>2, <3>4
  <2>. QED
    BY <2>1, <2>2
<1>19. Apart'
  BY <1>1, <1>7, <1>11, <1>15, <1>17, MoveApart DEF Inv
<1>20. InLine'
  <2>1. /\ InLine /\ Apart /\ Rank(b2) <= Rank(b1) /\ Onward /\ ~(Rank(b2) < Rank(b1))
    BY <1>1, <1>7 DEF Inv
  <2>2. /\ Minded(b1)' => Sorted(Entries(b1)')
        /\ Minded(b2)' => Sorted(Entries(b2)') /\ Minded(b1)
    BY <1>11, <1>13, <1>15
  <2>. QED
    BY <1>7, <1>17, <1>18, <2>1, <2>2, MoveLine
<1>21. Framing' /\ Opening'
  BY <1>1, FramingStays, OpeningStays DEF Inv
<1>. QED
  BY <1>19, <1>20, <1>21

LEMMA ConsumeStrayKeeps ==
  ASSUME TypeOK, Inv, NEW a \in Agents, ConsumeStray(a)
  PROVE  Apart' /\ Framing' /\ Opening' /\ InLine'
<1>1. /\ \A i \in Conns : Stream(i)' = Stream(i)
      /\ conn' = conn /\ opened' = opened /\ cut' = cut /\ todo' = todo
      /\ sent' = sent /\ inbox' = inbox /\ queue' = queue /\ pending' = pending
      /\ lost' = lost /\ unrouted' = unrouted
      /\ stray' = stray /\ inboxes' = inboxes /\ met' = met /\ upset' = upset /\ Onward
  BY DEF ConsumeStray, sender, client, network, readers, Stream, Onward
<1>2. PICK m \in strays[a] : /\ strays' = [strays EXCEPT ![a] = @ \ {m}]
                             /\ taken' = [taken EXCEPT ![a] = Append(@, m)]
  BY DEF ConsumeStray
<1>3. a \in upset
  BY <1>2 DEF Inv, MetFirst
<1>4. m \in Messages /\ strays[a] \subseteq Messages /\ taken[a] \in Seq(Messages)
  BY <1>2, MessageNumbers DEF TypeOK
<1>5. /\ strays'[a] = strays[a] \ {m} /\ taken'[a] = Append(taken[a], m)
      /\ \A i \in Agents : i # a => strays'[i] = strays[i] /\ taken'[i] = taken[i]
  BY <1>2 DEF TypeOK
<1>6. PICK b1, b2 : b1 = <<"strays", a>> /\ b2 = <<"taken", a>>
  OBVIOUS
<1>7. b1 \in Boxes /\ b2 \in Boxes /\ Rank(b1) = 0 /\ Rank(b2) = 1 /\ b1 # b2
  BY <1>6, BoxCases, Ranks
<1>8. /\ Entries(b1) = Named(strays[a]) /\ Entries(b1)' = Named(strays[a] \ {m})
      /\ Entries(b2) = Numbered(taken[a]) /\ Entries(b2)' = Numbered(Append(taken[a], m))
  BY <1>5, <1>6, EntriesOf, EntriesNext
<1>9. m.n \in Held(b1) /\ Held(b1)' = Held(b1) \ {m.n} /\ Distinct(Entries(b1)')
  <2>1. Distinct(Named(strays[a]))
    BY <1>7, <1>8 DEF Inv, Apart
  <2>2. /\ m.n \in Second(Named(strays[a])) /\ Distinct(Named(strays[a] \ {m}))
        /\ Second(Named(strays[a] \ {m})) = Second(Named(strays[a])) \ {m.n}
    BY <1>2, <1>4, <2>1, NamedLess
  <2>. QED
    BY <1>8, <2>2 DEF Held
<1>10. ~Minded(b1)' /\ ~Minded(b2)' /\ ~Minded(b2)
  BY <1>1, <1>3, <1>6, <1>7 DEF Minded
<1>11. Held(b2)' = Held(b2) \union {m.n} /\ Distinct(Entries(b2)')
  <2>1. Rank(b2) # 4 /\ Apart /\ InLine /\ (Minded(b2) => Before(Held(b2), {m.n}))
    BY <1>7, <1>10 DEF Inv
  <2>2. PICK s \in Seq(Messages) : s = taken[a]
    BY <1>4
  <2>3. Entries(b2) = Numbered(s) /\ Entries(b2)' = Numbered(Append(s, m))
    BY <1>8, <2>2
  <2>4. /\ Onward /\ m \in Messages /\ m.n \in Held(b1)
        /\ b1 \in Boxes /\ b2 \in Boxes /\ b1 # b2
    BY <1>1, <1>4, <1>7, <1>9
  <2>. QED
    BY <2>1, <2>3, <2>4, Arrives
<1>12. \A i \in Boxes : i # b1 /\ i # b2 => Entries(i)' = Entries(i)
  <2> SUFFICES ASSUME NEW i \in Boxes, i # b1, i # b2, Entries(i)' # Entries(i) PROVE FALSE
    OBVIOUS
  <2>1. \A j \in Agents : i = <<"strays", j>> \/ i = <<"taken", j>> => j # a
    BY <1>6
  <2>. QED
    BY <1>1, <1>5, <2>1, Same
<1>13. Moves({m.n}, b1, b2)
  BY <1>7, <1>9, <1>11, <1>12 DEF Moves
<1>14. Arriving'
  <2> SUFFICES ASSUME NEW i \in Agents \ upset'
               PROVE  /\ Entries(<<"inboxes", i>>)' = Entries(<<"inboxes", i>>)
                      /\ Entries(<<"taken", i>>)' = Entries(<<"taken", i>>)
    BY <1>1, StayArriving DEF Inv
  <2>1. inboxes'[i] = inboxes[i] /\ taken'[i] = taken[i]
    BY <1>1, <1>3, <1>5
  <2>. QED
    BY <2>1, EntriesOf, EntriesNext
<1>15. Apart'
  BY <1>1, <1>7, <1>9, <1>11, <1>13, MoveApart DEF Inv
<1>16. InLine'
  <2>1. InLine /\ Apart /\ Rank(b2) <= 1 /\ ~(Rank(b2) < Rank(b1)) /\ Rank(b1) # 1
    BY <1>7 DEF Inv
  <2>. QED
    BY <1>1, <1>7, <1>10, <1>13, <1>14, <2>1, MoveLine
<1>17. Framing' /\ Opening'
  BY <1>1, FramingStays, OpeningStays DEF Inv
<1>. QED
  BY <1>15, <1>16, <1>17
------------------------------------------------------------------------------
(* The invariant, and what it implies.                                       *)

LEMMA InvInit == Init => Inv
<1> SUFFICES ASSUME Init PROVE Inv
  OBVIOUS
<1>1. TypeOK
  BY TypeInit
<1>2. \A c \in Conns : Stream(c) = <<>> /\ todo[c] = <<>>
  BY DEF Init, Stream
<1>3. Named({}) = {} /\ Second({}) = {} /\ Numbered(<<>>) = {} /\ Lasts(<<>>) = {}
  BY DEF Named, Second, Numbered, Lasts
<1>4. ASSUME NEW b \in Boxes PROVE Entries(b) = {}
  <2>1. CASE b = <<"inbox", 0>> \/ b = <<"queue", 0>>
    BY <1>3, <2>1, EntriesOf DEF Init
  <2>2. CASE b = <<"pending", 0>>
    BY <1>3, <2>2, EntriesOf DEF Init
  <2>3. CASE b = <<"stray", 0>> \/ b = <<"lost", 0>> \/ b = <<"unrouted", 0>>
    BY <1>3, <2>3, EntriesOf DEF Init
  <2>4. ASSUME NEW c \in Conns, b = <<"stream", c>> \/ b = <<"todo", c>> PROVE Entries(b) = {}
    BY <1>2, <1>3, <2>4, EntriesOf
  <2>5. ASSUME NEW a \in Agents, b = <<"inboxes", a>> \/ b = <<"strays", a>> \/ b = <<"taken", a>>
        PROVE  Entries(b) = {}
    <3>1. inboxes[a] = <<>> /\ strays[a] = {} /\ taken[a] = <<>>
      BY DEF Init
    <3>. QED
      BY <1>3, <2>5, <3>1, EntriesOf
  <2>. QED
    BY <2>1, <2>2, <2>3, <2>4, <2>5, BoxCases, Zenon
<1>5. \A b \in Boxes : Held(b) = {}
  BY <1>3, <1>4 DEF Held
<1>6. Apart
  BY <1>4, <1>5 DEF Apart, Distinct, Init
<1>7. InLine
  <2>1. \A a, b \in Boxes : Before(Held(a), Held(b))
    BY <1>5 DEF Before
  <2>2. \A a \in Agents : <<"taken", a>> \in Boxes /\ <<"inboxes", a>> \in Boxes
    BY BoxCases
  <2>3. \A b \in Boxes : Sorted(Entries(b))
    BY <1>4 DEF Sorted
  <2>. QED
    BY <2>1, <2>2, <2>3 DEF InLine
<1>8. Framing
  BY <1>2 DEF Framing, Framed, Complete
<1>9. Opening
  BY <1>2 DEF Opening, Init
<1>10. MetFirst
  BY DEF MetFirst, Init
<1>. QED
  BY <1>1, <1>6, <1>7, <1>8, <1>9, <1>10 DEF Inv

\* A message goes astray only where sends meet, and they have met for good.
LEMMA MetFirstNext ==
  ASSUME TypeOK, MetFirst, Next
  PROVE  MetFirst'
<1>0. met \in BOOLEAN
  BY DEF TypeOK
<1>1. CASE SendBegin
  BY <1>1 DEF SendBegin, MetFirst, receiver
<1>2. ASSUME NEW t \in Types, Send(t) PROVE MetFirst'
  BY <1>2 DEF Send, MetFirst, receiver
<1>3. CASE OnMessage
  BY <1>3 DEF OnMessage, MetFirst, receiver
<1>4. CASE OnStray
  <2>1. PICK m \in stray : stray' = stray \ {m}
    BY <1>4 DEF OnStray
  <2>2. met
    BY <2>1 DEF MetFirst
  <2>. QED
    BY <1>4, <2>2 DEF OnStray, MetFirst, receiver
<1>5. CASE Connect \/ SendFrame \/ SendFails
  <2>1. UNCHANGED <<sender, receiver>>
    BY <1>5 DEF Connect, SendFrame, SendFails
  <2>. QED
    BY <2>1 DEF MetFirst, sender, receiver
<1>6. ASSUME NEW c \in Conns, Break(c) \/ Receive(c) \/ Drain(c) PROVE MetFirst'
  BY <1>6 DEF Break, Receive, Drain, MetFirst, sender, receiver
<1>7. ASSUME NEW a \in Agents, Meet(a), UNCHANGED sender PROVE MetFirst'
  <2>1. a \in upset' /\ upset \subseteq upset' /\ \A i \in Agents : i # a => strays'[i] = strays[i]
    BY <1>7 DEF Meet, TypeOK
  <2>. QED
    BY <1>7, <2>1 DEF MetFirst, sender
<1>8. ASSUME NEW c \in Conns, DeliverBegin(c) PROVE MetFirst'
  <2>1. Target(c) \in Agents /\ UNCHANGED sender
    BY <1>8, Targets DEF DeliverBegin
  <2>2. CASE Meet(Target(c))
    BY <1>7, <2>1, <2>2
  <2>3. CASE UNCHANGED <<inboxes, upset, strays>>
    BY <2>1, <2>3 DEF MetFirst, sender
  <2>. QED
    BY <1>8, <2>2, <2>3 DEF DeliverBegin
<1>9. ASSUME NEW a \in Agents, MeetOther(a) PROVE MetFirst'
  BY <1>7, <1>9 DEF MeetOther
<1>10. ASSUME NEW c \in Conns, Deliver(c) PROVE MetFirst'
  <2>1. /\ upset' = upset /\ UNCHANGED sender
        /\ \/ strays' = strays
           \/ /\ Target(c) \in upset
              /\ strays' = [strays EXCEPT ![Target(c)] = @ \union {Head(todo[c])}]
    BY <1>10 DEF Deliver
  <2>2. \A i \in Agents \ upset : strays'[i] = strays[i]
    BY <2>1 DEF TypeOK
  <2>. QED
    BY <2>1, <2>2 DEF MetFirst, sender
<1>11. ASSUME NEW a \in Agents, Consume(a) PROVE MetFirst'
  BY <1>11 DEF Consume, MetFirst, sender
<1>12. ASSUME NEW a \in Agents, ConsumeStray(a) PROVE MetFirst'
  <2>1. a \in upset
    BY <1>12 DEF ConsumeStray, MetFirst
  <2>2. /\ upset' = upset /\ UNCHANGED sender
        /\ \A i \in Agents : i # a => strays'[i] = strays[i]
    BY <1>12 DEF ConsumeStray, TypeOK
  <2>. QED
    BY <2>1, <2>2 DEF MetFirst, sender
<1>. QED
  BY <1>1, <1>2, <1>3, <1>4, <1>5, <1>6, <1>8, <1>9, <1>10, <1>11, <1>12 DEF Next

LEMMA InvNext == Inv /\ [Next]_vars => Inv'
<1> SUFFICES ASSUME Inv, [Next]_vars PROVE Inv'
  OBVIOUS
<1>1. TypeOK /\ TypeOK'
  BY TypeNext DEF Inv
<1>2. CASE UNCHANGED vars
  <2>1. /\ \A c \in Conns : Stream(c)' = Stream(c)
        /\ conn' = conn /\ opened' = opened /\ cut' = cut /\ todo' = todo
        /\ sent' = sent /\ inbox' = inbox /\ queue' = queue /\ pending' = pending
        /\ inboxes' = inboxes /\ taken' = taken /\ unrouted' = unrouted /\ lost' = lost
        /\ stray' = stray /\ strays' = strays /\ met' = met /\ upset' = upset
    BY <1>2 DEF vars, sender, client, network, readers, receiver, Stream
  <2>2. \A b \in Boxes : Entries(b)' = Entries(b)
    BY <2>1, Same
  <2>3. Apart' /\ InLine' /\ Framing' /\ Opening'
    BY <2>1, <2>2, StayApart, StayLine, FramingStays, OpeningStays DEF Inv, Onward
  <2>4. MetFirst'
    BY <2>1 DEF Inv, MetFirst
  <2>. QED
    BY <1>1, <2>3, <2>4 DEF Inv
<1>3. CASE Next
  <2>1. Apart' /\ Framing' /\ Opening' /\ InLine'
    BY <1>1, <1>3, SendBeginKeeps, SendKeeps, OnMessageKeeps, OnStrayKeeps, ConnectKeeps,
       FrameGoes, FrameLost, SendFailsKeeps, BreakKeeps, ReceiveKeeps, DrainKeeps,
       DeliverBeginKeeps, MeetOtherKeeps, DeliverKeeps, ConsumeKeeps, ConsumeStrayKeeps DEF Next
  <2>2. MetFirst'
    BY <1>1, <1>3, MetFirstNext DEF Inv
  <2>. QED
    BY <1>1, <2>1, <2>2 DEF Inv
<1>. QED
  BY <1>2, <1>3

\* However connections break and sends are retried: the frames a connection
\* carries stay in step, every message is in one box, and nothing overtakes on
\* the way through the sending gateway.
THEOREM Carried == Spec => []Inv
BY InvInit, InvNext, PTL DEF Spec

LEMMA OneEntry ==
  ASSUME Apart, NEW n \in 1..sent
  PROVE  Cardinality(Places(n)) = 1
<1>1. PICK b \in Boxes : n \in Held(b)
  BY DEF Apart
<1>2. PICK e \in Entries(b) : n = e[2]
  BY <1>1 DEF Held, Second
<1>3. <<b, e>> \in Places(n)
  <2>1. <<b, e>> \in {<<b, f>> : f \in {g \in Entries(b) : g[2] = n}}
    BY <1>2
  <2>. QED
    BY <2>1 DEF Places
<1>4. ASSUME NEW x \in Places(n) PROVE x = <<b, e>>
  <2>1. PICK a \in Boxes : x \in {<<a, f>> : f \in {g \in Entries(a) : g[2] = n}}
    BY DEF Places
  <2>2. PICK f \in Entries(a) : f[2] = n /\ x = <<a, f>>
    BY <2>1
  <2>3. n \in Held(a)
    BY <2>2 DEF Held, Second
  <2>4. a = b
    BY <1>1, <2>3 DEF Apart
  <2>5. f = e
    BY <1>2, <2>2, <2>4 DEF Apart, Distinct
  <2>. QED
    BY <2>2, <2>4, <2>5
<1>5. Places(n) = {<<b, e>>}
  BY <1>3, <1>4
<1>. QED
  BY <1>5, FS_Singleton

\* Whatever connections break, sends are retried and senders meet, a message is
\* in exactly one place: none is doubled, and none is gone that was not refused,
\* dropped with a connection or for want of a route, or put into an inbox where
\* sends met.
THEOREM NoneDoubledNoneGone == Spec => []OnePlace
<1>1. Inv => OnePlace
  BY OneEntry DEF Inv, OnePlace
<1>. QED
  BY <1>1, Carried, PTL

LEMMA OrderedIs ==
  ASSUME NEW s \in Seq(Messages)
  PROVE  Sorted(Numbered(s)) => Ordered(s)
<1>1. \A i \in DOMAIN s : <<i, s[i].n>> \in Numbered(s)
  BY DEF Numbered
<1>. QED
  BY <1>1 DEF Sorted, Ordered

LEMMA OrderedJoin ==
  ASSUME NEW s \in Seq(Messages), NEW t \in Seq(Messages), Ordered(s), Ordered(t),
         Before(Second(Numbered(s)), Second(Numbered(t)))
  PROVE  /\ Ordered(s \o t) /\ s \o t \in Seq(Messages)
         /\ Second(Numbered(s \o t)) \subseteq Second(Numbered(s)) \union Second(Numbered(t))
<1>1. PICK r, a, b : r = s \o t /\ a = Len(s) /\ b = Len(t)
  OBVIOUS
<1>2. /\ r \in Seq(Messages) /\ a \in Nat /\ b \in Nat /\ DOMAIN r = 1..(a + b)
      /\ DOMAIN s = 1..a /\ DOMAIN t = 1..b
  BY <1>1
<1>3. \A i \in 1..a : r[i] = s[i]
  BY <1>1, <1>2
<1>4. ASSUME NEW i \in 1..(a + b), i > a PROVE i - a \in 1..b /\ r[i] = t[i - a]
  BY <1>1, <1>2, <1>4
<1>5. Second(Numbered(s)) = {s[k].n : k \in DOMAIN s}
  BY SecondOfNumbered
<1>6. Second(Numbered(t)) = {t[k].n : k \in DOMAIN t}
  BY SecondOfNumbered
<1>7. Second(Numbered(r)) = {r[k].n : k \in DOMAIN r}
  BY SecondOfNumbered
<1>8. ASSUME NEW i \in 1..(a + b), NEW j \in 1..(a + b), i < j PROVE r[i].n < r[j].n
  <2>1. CASE i <= a /\ j <= a
    <3>1. i \in DOMAIN s /\ j \in DOMAIN s
      BY <1>2, <2>1
    <3>. QED
      BY <1>2, <1>3, <1>8, <3>1 DEF Ordered
  <2>2. CASE i <= a /\ j > a
    <3>1. i \in DOMAIN s /\ j - a \in DOMAIN t /\ r[i] = s[i] /\ r[j] = t[j - a]
      BY <1>2, <1>3, <1>4, <2>2
    <3>2. s[i].n \in Second(Numbered(s)) /\ t[j - a].n \in Second(Numbered(t))
      BY <1>5, <1>6, <3>1
    <3>. QED
      BY <3>1, <3>2 DEF Before
  <2>3. CASE i > a
    <3>1. j > a
      BY <1>2, <1>8, <2>3
    <3>2. i - a \in DOMAIN t /\ j - a \in DOMAIN t /\ r[i] = t[i - a] /\ r[j] = t[j - a]
      BY <1>2, <1>4, <2>3, <3>1
    <3>3. i - a < j - a
      BY <1>2, <1>8
    <3>. QED
      BY <3>2, <3>3 DEF Ordered
  <2>. QED
    BY <1>2, <2>1, <2>2, <2>3
<1>9. ASSUME NEW i \in DOMAIN r PROVE r[i].n \in Second(Numbered(s)) \union Second(Numbered(t))
  <2>1. CASE i <= a
    <3>1. i \in DOMAIN s /\ r[i] = s[i]
      BY <1>2, <1>3, <2>1
    <3>. QED
      BY <1>5, <3>1
  <2>2. CASE i > a
    <3>1. i - a \in DOMAIN t /\ r[i] = t[i - a]
      BY <1>2, <1>4, <2>2
    <3>. QED
      BY <1>6, <3>1
  <2>. QED
    BY <1>2, <2>1, <2>2
<1>10. Ordered(r)
  BY <1>2, <1>8 DEF Ordered
<1>. QED
  BY <1>1, <1>2, <1>7, <1>9, <1>10

LEMMA WaitingOrdered ==
  ASSUME TypeOK, InLine, ~met
  PROVE  Ordered(Waiting)
<1>1. PICK p, q, x : /\ p = (IF pending = None THEN <<>> ELSE <<pending>>)
                     /\ q = queue /\ x = inbox
  OBVIOUS
<1>2. p \in Seq(Messages) /\ q \in Seq(Messages) /\ x \in Seq(Messages)
  <2>1. pending \in Messages \union {None}
    BY MessageNumbers DEF TypeOK
  <2>2. p \in Seq(Messages)
    BY <1>1, <2>1
  <2>. QED
    BY <1>1, <2>2, MessageNumbers DEF TypeOK
<1>3. /\ <<"pending", 0>> \in Boxes /\ <<"queue", 0>> \in Boxes /\ <<"inbox", 0>> \in Boxes
      /\ Rank(<<"pending", 0>>) = 4 /\ Rank(<<"queue", 0>>) = 5 /\ Rank(<<"inbox", 0>>) = 6
  BY BoxCases, Ranks
<1>4. /\ Before(Held(<<"pending", 0>>), Held(<<"queue", 0>>))
      /\ Before(Held(<<"pending", 0>>), Held(<<"inbox", 0>>))
      /\ Before(Held(<<"queue", 0>>), Held(<<"inbox", 0>>))
      /\ Sorted(Entries(<<"queue", 0>>)) /\ Sorted(Entries(<<"inbox", 0>>))
  BY <1>3, AlwaysMinded DEF InLine
<1>5. /\ Entries(<<"queue", 0>>) = Numbered(q) /\ Entries(<<"inbox", 0>>) = Numbered(x)
      /\ Entries(<<"pending", 0>>) = Named({pending} \ {None})
  BY <1>1, EntriesOf
<1>6. Ordered(p) /\ Second(Numbered(p)) \subseteq Held(<<"pending", 0>>)
  <2>1. CASE pending = None
    <3>1. p = <<>> /\ Numbered(p) = {}
      BY <1>1, <2>1, NumberedEmpty
    <3>. QED
      BY <3>1 DEF Ordered, Second
  <2>2. CASE pending # None
    <3>1. p = <<pending>>
      BY <1>1, <2>2
    <3>2. DOMAIN p = {1} /\ p[1] = pending
      BY <3>1
    <3>3. {pending} \ {None} = {pending} /\ Second(Named({pending})) = {pending.n}
      BY <2>2, NamedOne
    <3>4. Second(Numbered(p)) = {p[k].n : k \in DOMAIN p}
      BY SecondOfNumbered
    <3>. QED
      BY <1>5, <3>2, <3>3, <3>4 DEF Ordered, Held
  <2>. QED
    BY <2>1, <2>2
<1>7. /\ Ordered(q) /\ Ordered(x) /\ Before(Second(Numbered(q)), Second(Numbered(x)))
      /\ Before(Second(Numbered(p)), Second(Numbered(q)))
      /\ Before(Second(Numbered(p)), Second(Numbered(x)))
  <2>1. Ordered(q) /\ Ordered(x)
    BY <1>2, <1>4, <1>5, OrderedIs
  <2>2. Held(<<"queue", 0>>) = Second(Numbered(q)) /\ Held(<<"inbox", 0>>) = Second(Numbered(x))
    BY <1>5 DEF Held
  <2>. QED
    BY <1>4, <1>6, <2>1, <2>2 DEF Before
<1>8. /\ Ordered(p \o q) /\ p \o q \in Seq(Messages)
      /\ Second(Numbered(p \o q)) \subseteq Second(Numbered(p)) \union Second(Numbered(q))
  BY <1>2, <1>6, <1>7, OrderedJoin
<1>9. Before(Second(Numbered(p \o q)), Second(Numbered(x)))
  BY <1>7, <1>8 DEF Before
<1>10. Ordered((p \o q) \o x)
  BY <1>2, <1>7, <1>8, <1>9, OrderedJoin
<1>. QED
  BY <1>1, <1>10 DEF Waiting

LEMMA ArrivedOrdered ==
  ASSUME TypeOK, InLine, cut = {}, ~met, NEW a \in Agents \ upset
  PROVE  Ordered(Arrived(a))
<1>1. PICK b1, b2 : b1 = <<"taken", a>> /\ b2 = <<"inboxes", a>>
  OBVIOUS
<1>2. b1 \in Boxes /\ b2 \in Boxes /\ Rank(b1) = 1 /\ Rank(b2) = 1
  BY <1>1, BoxCases, Ranks
<1>3. Sorted(Entries(b1)) /\ Sorted(Entries(b2)) /\ Before(Held(b1), Held(b2))
  <2>1. Minded(b1) /\ Minded(b2)
    BY <1>1, <1>2 DEF Minded
  <2>. QED
    BY <1>1, <1>2, <2>1 DEF InLine
<1>4. PICK s, t : s = taken[a] /\ t = inboxes[a]
  OBVIOUS
<1>5. s \in Seq(Messages) /\ t \in Seq(Messages)
  BY <1>4, MessageNumbers DEF TypeOK
<1>6. Entries(b1) = Numbered(s) /\ Entries(b2) = Numbered(t)
  BY <1>1, <1>4, EntriesOf
<1>7. Ordered(s) /\ Ordered(t) /\ Before(Second(Numbered(s)), Second(Numbered(t)))
  BY <1>3, <1>5, <1>6, OrderedIs DEF Held
<1>8. Ordered(s \o t)
  BY <1>5, <1>7, OrderedJoin
<1>. QED
  BY <1>4, <1>8 DEF Arrived

\* As long as no two sends have met in the gateway's inbox, retries keep the order
\* of sending, and as long as no connection has broken either, what an agent in
\* whose inbox none have met receives from the other swarm is in that order.
THEOREM OrderKept == Spec => []InOrder
<1>1. Inv => InOrder
  BY WaitingOrdered, ArrivedOrdered DEF Inv, InOrder
<1>. QED
  BY <1>1, Carried, PTL
==============================================================================
