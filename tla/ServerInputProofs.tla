-------------------------- MODULE ServerInputProofs --------------------------
(***************************************************************************)
(* What a client sends is read once and in its order, for any number of    *)
(* clients and slots, any scripts and any faults, whether or not clients   *)
(* wait for answers.  From this, as long as the global request is not      *)
(* shared by two slots: whose request a handler works on, and what a CGI   *)
(* child gets to read.                                                     *)
(***************************************************************************)
EXTENDS ServerProofs, ServerProperties

-----------------------------------------------------------------------------
(* Spots: <<k, j>> is the j-th token of the k-th request of a client.      *)

Size(sc, c, k) == 2 + BodyLen(sc[c][k])
IsSpot(sc, c, p) == p[1] \in 1 .. Len(sc[c]) /\ p[2] \in 1 .. Size(sc, c, p[1])
Before(p, r) == p[1] < r[1] \/ (p[1] = r[1] /\ p[2] < r[2])

\* The spot after p, as ClientSend goes on.
After(sc, c, p) ==
  IF p[2] < Size(sc, c, p[1]) THEN <<p[1], p[2] + 1>> ELSE <<p[1] + 1, 1>>

\* The spot of a token, and the token at a spot.
SpotOf(t) ==
  <<t.req[2], CASE t.part = "head" -> 1 [] t.part = "end" -> 2 [] OTHER -> t.n + 2>>
At(c, p) == RequestToken(c, p[1], p[2])

\* A part of what client c says, without a gap.
InOrder(sc, c, q) ==
  /\ \A i \in 1 .. Len(q) : IsSpot(sc, c, SpotOf(q[i])) /\ q[i] = At(c, SpotOf(q[i]))
  /\ \A i \in 1 .. Len(q) - 1 : SpotOf(q[i + 1]) = After(sc, c, SpotOf(q[i]))

\* q is on its way from client c to its task, and c goes on from k.next (k is
\* net[c]); the end of it may be lost once c is gone.
Flow(sc, c, k, q) ==
  /\ InOrder(sc, c, q)
  /\ IsSpot(sc, c, k.next) \/ k.next = <<Len(sc[c]) + 1, 1>>
  /\ \A i \in 1 .. Len(q) : Before(SpotOf(q[i]), k.next)
  /\ k.st # "gone" /\ q # <<>> => After(sc, c, SpotOf(q[Len(q)])) = k.next

\* Where the task reads next.
From(k, q) == IF q = <<>> THEN k.next ELSE SpotOf(q[1])
Certain(k, q) == q # <<>> \/ k.st # "gone"

\* No script was started for the requests of client c at p and later.
NotStarted(sc, pr, c, p) ==
  \A j \in 1 .. Len(sc[c]) :
    p[1] < j \/ (p[1] = j /\ p[2] = 1) => pr[<<c, j>>].st = "none"

Body(r, n) == [i \in 1 .. n |-> Token(r, "body", i)]

\* What client c has sent and its task has not used, in the order it was sent.
Held(t) == IF t.state = "RECV_HEADER_STATE" THEN t.parse_buf ELSE <<>>
Unread(t, buf, inq) == Held(t) \o buf \o inq

\* While a task reads a body, and until it has looked for a script, it has taken
\* the first tokens of this body, and its script was not started.
TakesBody == {"RECV_BODY_STATE", "CHECK_CGI"}

Taking(sc, pr, t, k, q) ==
  LET a == sc[t.own[1]][t.own[2]]
      m == Len(t.post_body)
  IN /\ pr[t.own].st = "none"
     /\ Before(<<t.own[2], 1>>, From(k, q))
     /\ t.state = "RECV_BODY_STATE" =>
          /\ a.method = "POST" /\ a.length \in Nat
          /\ t.body_bytes_num = a.length /\ m <= a.length
          /\ t.post_body = Body(t.own, m)
          /\ Certain(k, q) =>
               From(k, q) = IF m < a.length THEN <<t.own[2], 3 + m>> ELSE <<t.own[2] + 1, 1>>
     /\ t.state = "CHECK_CGI" /\ a.method = "POST" =>
          a.length \in Nat /\ t.post_body = Body(t.own, a.length)

\* A task t with its receiving buffer reads what client c (k is net[c]) sends.
Reads(sc, pr, c, t, buf, k) ==
  LET q == Unread(t, buf, k.inq)
  IN /\ Flow(sc, c, k, q)
     /\ NotStarted(sc, pr, c, From(k, q))
     /\ t.state \in TakesBody => Taking(sc, pr, t, k, q)

Unaccepted(c) ==
  net[c].conn = "none" =>
    /\ Flow(script, c, net[c], net[c].inq)
    /\ \A j \in 1 .. Len(script[c]) : proc[<<c, j>>].st = "none"

SlotReads(s) ==
  LET p == connection_list[s]
  IN p.socket # NULL =>
       Reads(script, proc, p.socket, p.http_task, p.receiving_buffer, net[p.socket])

InputInv == (\A c \in Client : Unaccepted(c)) /\ (\A s \in Slot : SlotReads(s))

-----------------------------------------------------------------------------
(* Pieces of sequences.                                                    *)

LEMMA TakeElement ==
  ASSUME NEW S, NEW q \in Seq(S), NEW n \in 0 .. Len(q), NEW i \in 1 .. n
  PROVE  Take(q, n)[i] = q[i]
<1>1. \A j \in 1 .. n : q[j] \in S
  BY ElementOfSeq, LenProperties
<1> QED
  BY <1>1, SubSeqProperties, LenProperties DEF Take

LEMMA DropElement ==
  ASSUME NEW S, NEW q \in Seq(S), NEW n \in 0 .. Len(q), NEW i \in 1 .. Len(q) - n
  PROVE  Drop(q, n)[i] = q[n + i]
<1>1. Len(q) \in Nat
  BY LenProperties
<1>2. \A j \in n + 1 .. Len(q) : q[j] \in S
  BY <1>1, ElementOfSeq
<1> QED
  BY <1>1, <1>2, SubSeqProperties DEF Drop

LEMMA TakeDrop ==
  ASSUME NEW S, NEW q \in Seq(S), NEW n \in 0 .. Len(q)
  PROVE  Take(q, n) \o Drop(q, n) = q
<1>1. 1 \in 1 .. Len(q) + 1 /\ n \in 1 - 1 .. Len(q) /\ Len(q) \in n .. Len(q)
  BY LenProperties
<1>2. SubSeq(q, 1, n) \o SubSeq(q, n + 1, Len(q)) = SubSeq(q, 1, Len(q))
  BY <1>1, ConcatAdjacentSubSeq
<1> QED
  BY <1>2, SubSeqFull DEF Take, Drop

LEMMA DropConcat ==
  ASSUME NEW S, NEW p \in Seq(S), NEW q \in Seq(S), NEW n \in 0 .. Len(p)
  PROVE  Drop(p \o q, n) = Drop(p, n) \o q
<1> DEFINE a == Drop(p \o q, n)
           b == Drop(p, n) \o q
<1>1. a \in Seq(S) /\ b \in Seq(S) /\ Len(a) = Len(b)
  BY DEF Drop
<1>2. ASSUME NEW i \in 1 .. Len(a) PROVE a[i] = b[i]
  BY DEF Drop
<1> QED
  BY <1>1, <1>2, SeqEqual

LEMMA TakeConcat ==
  ASSUME NEW S, NEW p \in Seq(S), NEW q \in Seq(S), NEW n \in 0 .. Len(p)
  PROVE  Take(p \o q, n) = Take(p, n)
<1> DEFINE a == Take(p \o q, n)
           b == Take(p, n)
<1>1. a \in Seq(S) /\ b \in Seq(S) /\ Len(a) = Len(b)
  BY DEF Take
<1>2. ASSUME NEW i \in 1 .. Len(a) PROVE a[i] = b[i]
  BY DEF Take
<1> QED
  BY <1>1, <1>2, SeqEqual

LEMMA Joined ==
  ASSUME NEW S, NEW p \in Seq(S), NEW b \in Seq(S), NEW q \in Seq(S)
  PROVE  /\ Len(p) \in Nat /\ Len(b) \in Nat /\ Len(q) \in Nat
         /\ p \o b \in Seq(S) /\ Len(p \o b) = Len(p) + Len(b)
         /\ p \o b \o q \in Seq(S) /\ Len(p \o b \o q) = Len(p) + Len(b) + Len(q)
<1>1. /\ Len(p) \in Nat /\ Len(b) \in Nat /\ Len(q) \in Nat
      /\ p \o b \in Seq(S) /\ Len(p \o b) = Len(p) + Len(b)
  BY LenProperties
<1> DEFINE x == p \o b
<1> HIDE DEF x
<1>2. x \in Seq(S) => x \o q \in Seq(S) /\ Len(x \o q) = Len(x) + Len(q)
  OBVIOUS
<1> QED
  BY <1>1, <1>2 DEF x

Cat(p, q) == p \o q

LEMMA CatAssociative ==
  ASSUME NEW S, NEW p \in Seq(S), NEW q \in Seq(S), NEW x \in Seq(S)
  PROVE  Cat(Cat(p, q), x) = Cat(p, Cat(q, x)) /\ Cat(p, q) \in Seq(S)
<1>1. (p \o q) \o x = p \o (q \o x)
  BY ConcatAssociative, SMTT(30)
<1>2. p \o q \in Seq(S)
  BY ConcatProperties
<1> QED
  BY <1>1, <1>2 DEF Cat

\* A part x goes from the front of the last queue to the end of the one before it.
LEMMA Moved ==
  ASSUME NEW S, NEW p \in Seq(S), NEW b \in Seq(S), NEW x \in Seq(S), NEW y \in Seq(S)
  PROVE  Cat(Cat(p, Cat(b, x)), y) = Cat(Cat(p, b), Cat(x, y))
<1>1. Cat(p, Cat(b, x)) = Cat(Cat(p, b), x) /\ Cat(p, b) \in Seq(S)
  BY CatAssociative
<1>2. Cat(Cat(Cat(p, b), x), y) = Cat(Cat(p, b), Cat(x, y))
  BY <1>1, CatAssociative
<1> QED
  BY <1>1, <1>2

-----------------------------------------------------------------------------
(* Spots and flows.                                                        *)

LEMMA FlowDrop ==
  ASSUME NEW S, NEW sc, NEW c, NEW k, NEW q \in Seq(S), NEW n \in 1 .. Len(q), Flow(sc, c, k, q)
  PROVE  LET d == Drop(q, n) IN
           /\ Flow(sc, c, k, d)
           /\ Certain(k, d) => From(k, d) = After(sc, c, SpotOf(q[n]))
           /\ Before(SpotOf(q[n]), From(k, d))
<1> DEFINE d == Drop(q, n)
           w == SpotOf(q[n])
<1>1. Len(q) \in Nat /\ d \in Seq(S) /\ Len(d) = Len(q) - n
  BY LenProperties, DropType
<1>2. \A i \in 1 .. Len(d) : d[i] = q[n + i]
  BY <1>1, DropElement
<1>3. d = <<>> <=> n = Len(q)
  BY <1>1, EmptySeq
<1>4. d # <<>> => d[1] = q[n + 1] /\ d[Len(d)] = q[Len(q)] /\ SpotOf(q[n + 1]) = After(sc, c, w)
  <2>1. SUFFICES ASSUME d # <<>>
        PROVE  d[1] = q[n + 1] /\ d[Len(d)] = q[Len(q)] /\ SpotOf(q[n + 1]) = After(sc, c, w)
    OBVIOUS
  <2>2. n \in 1 .. Len(q) - 1 /\ 1 \in 1 .. Len(d) /\ Len(d) \in 1 .. Len(d) /\ n + Len(d) = Len(q)
    BY <1>1, <1>3, <2>1
  <2>3. SpotOf(q[n + 1]) = After(sc, c, w)
    BY <2>2 DEF Flow, InOrder
  <2> QED
    BY <1>2, <2>2, <2>3
<1>5. InOrder(sc, c, d)
  <2>1. ASSUME NEW i \in 1 .. Len(d) PROVE IsSpot(sc, c, SpotOf(d[i])) /\ d[i] = At(c, SpotOf(d[i]))
    <3>1. n + i \in 1 .. Len(q)
      BY <1>1
    <3> QED
      BY <1>2, <3>1 DEF Flow, InOrder
  <2>2. ASSUME NEW i \in 1 .. Len(d) - 1 PROVE SpotOf(d[i + 1]) = After(sc, c, SpotOf(d[i]))
    <3>1. /\ n + i \in 1 .. Len(q) - 1 /\ i \in 1 .. Len(d) /\ i + 1 \in 1 .. Len(d)
          /\ n + (i + 1) = (n + i) + 1
      BY <1>1
    <3>2. SpotOf(q[(n + i) + 1]) = After(sc, c, SpotOf(q[n + i]))
      BY <3>1 DEF Flow, InOrder
    <3>3. d[i + 1] = q[n + (i + 1)] /\ d[i] = q[n + i]
      <4> HIDE DEF d
      <4> QED
        BY ONLY <1>2, <3>1
    <3> QED
      BY <3>2, <3>3
  <2> QED
    BY <2>1, <2>2 DEF InOrder
<1>6. Flow(sc, c, k, d)
  BY <1>1, <1>2, <1>3, <1>4, <1>5 DEF Flow
<1>7. w[1] \in Int /\ w[2] \in Int /\ Before(w, k.next)
  BY DEF Flow, InOrder, IsSpot
<1>8. Before(w, After(sc, c, w))
  BY <1>7 DEF Before, After
<1>9. n = Len(q) /\ k.st # "gone" => After(sc, c, w) = k.next
  BY <1>1, EmptySeq DEF Flow
<1> QED
  BY <1>3, <1>4, <1>6, <1>7, <1>8, <1>9 DEF From, Certain
LEMMA FlowTake ==
  ASSUME NEW S, NEW sc, NEW c, NEW k, NEW h, NEW q \in Seq(S), NEW n \in 0 .. Len(q),
         Flow(sc, c, k, q), h.next = k.next, h.st = "gone"
  PROVE  Flow(sc, c, h, Take(q, n)) /\ (From(h, Take(q, n)) = From(k, q) \/ Take(q, n) = <<>>)
<1> DEFINE d == Take(q, n)
<1>1. Len(q) \in Nat /\ d \in Seq(S) /\ Len(d) = n
  BY LenProperties, TakeType
<1>2. \A i \in 1 .. n : d[i] = q[i] /\ i \in 1 .. Len(q)
  BY <1>1, TakeElement
<1>3. InOrder(sc, c, d)
  <2>1. ASSUME NEW i \in 1 .. n PROVE IsSpot(sc, c, SpotOf(d[i])) /\ d[i] = At(c, SpotOf(d[i]))
    BY <1>2 DEF Flow, InOrder
  <2>2. ASSUME NEW i \in 1 .. n - 1 PROVE SpotOf(d[i + 1]) = After(sc, c, SpotOf(d[i]))
    <3>1. i \in 1 .. Len(q) - 1 /\ i \in 1 .. n /\ i + 1 \in 1 .. n
      BY <1>1
    <3>2. d[i] = q[i] /\ d[i + 1] = q[i + 1]
      BY <1>2, <3>1
    <3> QED
      BY <3>1, <3>2 DEF Flow, InOrder
  <2> QED
    BY <1>1, <2>1, <2>2 DEF InOrder
<1>4. Flow(sc, c, h, d)
  BY <1>1, <1>2, <1>3 DEF Flow
<1>5. From(h, d) = From(k, q) \/ d = <<>>
  <2>1. d # <<>> => 1 \in 1 .. n /\ q # <<>>
    BY <1>1, EmptySeq
  <2> QED
    BY <1>2, <2>1 DEF From
<1> QED
  BY <1>4, <1>5

\* The token at a spot tells the spot.
LEMMA SpotAt ==
  ASSUME NEW sc, NEW c, NEW p, IsSpot(sc, c, p), p = <<p[1], p[2]>>
  PROVE  SpotOf(At(c, p)) = p
<1>1. p[2] \in Int
  BY DEF IsSpot
<1>2. CASE p[2] = 1
  BY <1>2 DEF SpotOf, At, RequestToken, Token
<1>3. CASE p[2] = 2
  BY <1>3 DEF SpotOf, At, RequestToken, Token
<1>4. CASE p[2] # 1 /\ p[2] # 2
  BY <1>1, <1>4 DEF SpotOf, At, RequestToken, Token
<1> QED
  BY <1>2, <1>3, <1>4

\* Client c has a token to send at p.
HasToken(sc, c, p) ==
  /\ IsSpot(sc, c, p) /\ p = <<p[1], p[2]>>
  /\ Len(sc[c]) \in Nat
  /\ \A i \in 1 .. Len(sc[c]) : Size(sc, c, i) \in Nat /\ Size(sc, c, i) >= 2

\* ClientSend puts the token at k.next behind q.
LEMMA FlowAppend ==
  ASSUME NEW S, NEW sc, NEW c, NEW k, NEW h, NEW q \in Seq(S), NEW t \in S,
         Flow(sc, c, k, q), k.st # "gone", h.st = k.st, HasToken(sc, c, k.next),
         t = At(c, k.next), h.next = After(sc, c, k.next)
  PROVE  /\ Flow(sc, c, h, Append(q, t))
         /\ From(h, Append(q, t)) = From(k, q)
         /\ Before(k.next, h.next)
<1> DEFINE d == Append(q, t)
           m == Len(q)
<1>0. /\ IsSpot(sc, c, k.next) /\ k.next = <<k.next[1], k.next[2]>> /\ Len(sc[c]) \in Nat
      /\ \A i \in 1 .. Len(sc[c]) : Size(sc, c, i) \in Nat /\ Size(sc, c, i) >= 2
  BY DEF HasToken
<1>1. /\ m \in Nat /\ d \in Seq(S) /\ Len(d) = m + 1 /\ d # <<>>
      /\ \A i \in 1 .. m : d[i] = q[i]
      /\ d[m + 1] = t
  BY AppendProperties, LenProperties
<1>2. SpotOf(t) = k.next
  BY <1>0, SpotAt
<1>3. k.next[1] \in Int /\ k.next[2] \in Int
  BY <1>0 DEF IsSpot
<1>4. Before(k.next, h.next)
  BY <1>0, <1>3 DEF Before, After
<1>5. q # <<>> => m \in 1 .. m /\ After(sc, c, SpotOf(q[m])) = k.next
  BY <1>1, EmptySeq DEF Flow
<1>6. InOrder(sc, c, d)
  <2>1. ASSUME NEW i \in 1 .. m + 1 PROVE IsSpot(sc, c, SpotOf(d[i])) /\ d[i] = At(c, SpotOf(d[i]))
    <3>1. CASE i \in 1 .. m
      BY <1>1, <3>1 DEF Flow, InOrder
    <3>2. CASE i = m + 1
      BY <1>0, <1>1, <1>2, <3>2
    <3> QED
      BY <1>1, <3>1, <3>2
  <2>2. ASSUME NEW i \in 1 .. m PROVE SpotOf(d[i + 1]) = After(sc, c, SpotOf(d[i]))
    <3>1. CASE i \in 1 .. m - 1
      <4>1. i + 1 \in 1 .. m /\ i \in 1 .. m
        BY <1>1, <3>1
      <4>2. d[i] = q[i] /\ d[i + 1] = q[i + 1]
        BY <1>1, <4>1
      <4> QED
        BY <3>1, <4>2 DEF Flow, InOrder
    <3>2. CASE i = m
      <4>1. q # <<>>
        BY <1>1, <3>2, EmptySeq
      <4> QED
        BY <1>1, <1>2, <1>5, <3>2, <4>1
    <3> QED
      BY <1>1, <3>1, <3>2
  <2> QED
    BY <1>1, <2>1, <2>2 DEF InOrder
<1>7. \A i \in 1 .. m + 1 : Before(SpotOf(d[i]), h.next)
  <2>1. ASSUME NEW i \in 1 .. m PROVE Before(SpotOf(d[i]), h.next)
    <3>1. d[i] = q[i] /\ Before(SpotOf(q[i]), k.next) /\ IsSpot(sc, c, SpotOf(q[i]))
      BY <1>1 DEF Flow, InOrder
    <3>2. SpotOf(q[i])[1] \in Int /\ SpotOf(q[i])[2] \in Int
      BY <3>1 DEF IsSpot
    <3>3. h.next[1] \in Int /\ h.next[2] \in Int
      BY <1>3 DEF After
    <3> QED
      BY <1>3, <1>4, <3>1, <3>2, <3>3 DEF Before
  <2> QED
    BY <1>1, <1>2, <1>4, <2>1
<1>8. IsSpot(sc, c, h.next) \/ h.next = <<Len(sc[c]) + 1, 1>>
  <2> DEFINE a == k.next[1]
             e == k.next[2]
  <2>1. a \in 1 .. Len(sc[c]) /\ e \in 1 .. Size(sc, c, a) /\ Size(sc, c, a) \in Nat
    BY <1>0 DEF IsSpot
  <2>2. CASE e < Size(sc, c, a)
    <3>1. h.next = <<a, e + 1>> /\ e + 1 \in 1 .. Size(sc, c, a)
      BY <1>3, <2>1, <2>2 DEF After
    <3> QED
      BY <2>1, <3>1 DEF IsSpot
  <2>3. CASE ~(e < Size(sc, c, a))
    <3>1. h.next = <<a + 1, 1>>
      BY <1>3, <2>3 DEF After
    <3>2. CASE a + 1 \in 1 .. Len(sc[c])
      <4>1. 1 \in 1 .. Size(sc, c, a + 1)
        BY <1>0, <3>2
      <4> QED
        BY <3>1, <3>2, <4>1 DEF IsSpot
    <3>3. CASE a = Len(sc[c])
      BY <3>1, <3>3
    <3> QED
      BY <1>0, <2>1, <3>2, <3>3
  <2> QED
    BY <2>2, <2>3
<1>9. h.st # "gone" => After(sc, c, SpotOf(d[m + 1])) = h.next
  BY <1>1, <1>2
<1>10. From(h, d) = From(k, q)
  <2>1. CASE q = <<>>
    BY <1>1, <1>2, <2>1 DEF From
  <2>2. CASE q # <<>>
    BY <1>1, <1>5, <2>2 DEF From
  <2> QED
    BY <2>1, <2>2
<1> QED
  BY <1>1, <1>4, <1>6, <1>7, <1>8, <1>9, <1>10 DEF Flow

\* Within a request the spots of a flow are counted on.
LEMMA Consecutive ==
  ASSUME NEW S, NEW sc, NEW c, NEW q \in Seq(S), InOrder(sc, c, q), NEW n \in 1 .. Len(q),
         NEW a \in Nat, NEW j \in Nat, SpotOf(q[1]) = <<a, j>>, j + n - 1 <= Size(sc, c, a),
         Size(sc, c, a) \in Nat
  PROVE  \A i \in 1 .. n : SpotOf(q[i]) = <<a, j + i - 1>>
<1> DEFINE E == {i \in 1 .. n : SpotOf(q[i]) # <<a, j + i - 1>>}
<1>1. SUFFICES ASSUME E # {} PROVE FALSE
  OBVIOUS
<1>2. Len(q) \in Nat /\ n \in Nat
  BY LenProperties
<1>3. PICK i \in E : \A m \in E : i <= m
  BY <1>1, <1>2, FirstPosition
<1>4. i # 1
  BY <1>3
<1>5. i - 1 \in 1 .. n /\ i - 1 \notin E /\ i - 1 \in 1 .. Len(q) - 1
  <2>1. i \in 1 .. n /\ i \in Nat
    OBVIOUS
  <2>2. i - 1 \in 1 .. n /\ i - 1 \in 1 .. Len(q) - 1
    BY <1>2, <1>4, <2>1
  <2>3. ~(i <= i - 1)
    BY <2>1
  <2> HIDE DEF E
  <2> QED
    BY <1>3, <2>2, <2>3
<1>6. SpotOf(q[i - 1]) = <<a, j + (i - 1) - 1>> /\ j + (i - 1) - 1 < Size(sc, c, a)
  BY <1>2, <1>5
<1>7. SpotOf(q[(i - 1) + 1]) = After(sc, c, SpotOf(q[i - 1]))
  BY <1>5 DEF InOrder
<1>8. After(sc, c, SpotOf(q[i - 1])) = <<a, (j + (i - 1) - 1) + 1>>
  BY <1>6 DEF After
<1> QED
  BY <1>2, <1>3, <1>7, <1>8
-----------------------------------------------------------------------------
(* Steps and flows.                                                        *)

KeepsInput(k, h) ==
  h.inq = k.inq /\ h.next = k.next /\ (h.st = "gone" <=> k.st = "gone")

KeepsStarts(sc, pr, ps, c) ==
  \A j \in 1 .. Len(sc[c]) : pr[<<c, j>>].st = "none" => ps[<<c, j>>].st = "none"

\* A task that has used nothing, and goes on with the same body if with any.
LEMMA ReadsSame ==
  ASSUME NEW sc, NEW pr, NEW ps, NEW c, NEW t, NEW u, NEW buf, NEW b, NEW k, NEW h,
         Reads(sc, pr, c, t, buf, k), KeepsStarts(sc, pr, ps, c),
         Unread(u, b, h.inq) = Unread(t, buf, k.inq),
         h.next = k.next, h.st = "gone" <=> k.st = "gone",
         u.state \in TakesBody =>
           /\ u.state = t.state /\ u.own = t.own
           /\ u.post_body = t.post_body /\ u.body_bytes_num = t.body_bytes_num
           /\ u.own[2] \in 1 .. Len(sc[c]) /\ u.own = <<c, u.own[2]>>
  PROVE  Reads(sc, ps, c, u, b, h)
<1> DEFINE q == Unread(t, buf, k.inq)
<1>1. From(h, q) = From(k, q) /\ (Certain(h, q) <=> Certain(k, q))
  BY DEF From, Certain
<1>2. Flow(sc, c, h, q)
  BY DEF Reads, Flow
<1>3. NotStarted(sc, ps, c, From(h, q))
  BY <1>1 DEF Reads, NotStarted, KeepsStarts
<1>4. u.state \in TakesBody => Taking(sc, ps, u, h, q)
  <2>1. SUFFICES ASSUME u.state \in TakesBody PROVE Taking(sc, ps, u, h, q)
    OBVIOUS
  <2>2. Taking(sc, pr, t, k, q)
    BY <2>1 DEF Reads
  <2>3. ps[u.own].st = "none"
    BY <2>1, <2>2 DEF Taking, KeepsStarts
  <2> HIDE DEF q
  <2> QED
    BY <2>1, <2>2, <2>3, <1>1 DEF Taking
<1> QED
  BY <1>2, <1>3, <1>4 DEF Reads

\* A slot that keeps its task and its receiving buffer goes on as before.
LEMMA InputStep ==
  ASSUME Full, InputInv, script' = script,
         \A c \in Client : net'[c].conn = "none" =>
           /\ net[c].conn = "none" /\ KeepsInput(net[c], net'[c])
           /\ KeepsStarts(script, proc, proc', c),
         \A s \in Slot : connection_list'[s].socket # NULL =>
           \/ SlotReads(s)'
           \/ /\ connection_list'[s].socket = connection_list[s].socket
              /\ connection_list'[s].http_task = connection_list[s].http_task
              /\ connection_list'[s].receiving_buffer = connection_list[s].receiving_buffer
              /\ KeepsInput(net[connection_list[s].socket], net'[connection_list[s].socket])
              /\ KeepsStarts(script, proc, proc', connection_list[s].socket)
  PROVE  InputInv'
<1>1. ASSUME NEW c \in Client PROVE Unaccepted(c)'
  <2>1. SUFFICES ASSUME net'[c].conn = "none"
        PROVE  /\ Flow(script, c, net'[c], net'[c].inq)
               /\ \A j \in 1 .. Len(script[c]) : proc'[<<c, j>>].st = "none"
    BY DEF Unaccepted
  <2>2. Unaccepted(c) /\ net[c].conn = "none" /\ KeepsInput(net[c], net'[c])
    BY <2>1 DEF InputInv
  <2>3. Flow(script, c, net'[c], net'[c].inq)
    BY <2>2 DEF Unaccepted, KeepsInput, Flow
  <2> QED
    BY <2>1, <2>2, <2>3 DEF Unaccepted, KeepsStarts
<1>2. ASSUME NEW s \in Slot, connection_list'[s].socket # NULL, ~SlotReads(s)' PROVE FALSE
  <2> DEFINE p == connection_list[s]
             r == connection_list'[s]
             c == p.socket
  <2>1. /\ r.socket = c /\ r.http_task = p.http_task /\ r.receiving_buffer = p.receiving_buffer
        /\ KeepsInput(net[c], net'[c]) /\ KeepsStarts(script, proc, proc', c)
    BY <1>2
  <2>2. Reads(script, proc, c, p.http_task, p.receiving_buffer, net[c])
    BY <1>2, <2>1 DEF InputInv, SlotReads
  <2>3. p.http_task.state \in TakesBody =>
          p.http_task.own[2] \in 1 .. Len(script[c]) /\ p.http_task.own = <<c, p.http_task.own[2]>>
    <3>1. SlotTyped(script, p)
      BY DEF Full, Typed, SlotsTyped
    <3>2. p.http_task.state \in TakesBody =>
            p.http_task.own \in Asked(script) /\ p.http_task.own[1] = c
      BY <3>1, <1>2, <2>1, AskedRequest DEF SlotTyped, TaskTyped, Owned, Parsed, TakesBody, Full, Typed, ScriptTyped
    <3> QED
      BY <3>2 DEF Asked
  <2> HIDE DEF p, r, c
  <2>4. Reads(script, proc', c, p.http_task, p.receiving_buffer, net'[c])
    BY <2>1, <2>2, <2>3, ReadsSame DEF KeepsInput
  <2> QED
    BY <1>2, <2>1, <2>4 DEF SlotReads, p, r, c
<1> QED
  BY <1>1, <1>2 DEF InputInv, SlotReads, Slot
LEMMA BeforeTransitive ==
  ASSUME NEW x, NEW y, NEW z, Before(x, y), Before(y, z),
         x[1] \in Int, x[2] \in Int, y[1] \in Int, y[2] \in Int, z[1] \in Int, z[2] \in Int
  PROVE  Before(x, z)
  BY DEF Before

\* A later spot is before fewer requests.
LEMMA NotStartedLater ==
  ASSUME NEW sc, NEW pr, NEW c, NEW p, NEW r, NotStarted(sc, pr, c, p), Before(p, r),
         p[1] \in Int, p[2] \in Int, p[2] >= 1, r[1] \in Int, r[2] \in Int, r[2] >= 1,
         Len(sc[c]) \in Nat
  PROVE  NotStarted(sc, pr, c, r)
  BY DEF NotStarted, Before

LEMMA FromType ==
  ASSUME NEW sc, NEW c, NEW k, NEW S, NEW q \in Seq(S), Flow(sc, c, k, q), Len(sc[c]) \in Nat
  PROVE  From(k, q)[1] \in Int /\ From(k, q)[2] \in Int /\ From(k, q)[2] >= 1
<1>1. CASE q = <<>>
  BY <1>1 DEF From, Flow, IsSpot
<1>2. CASE q # <<>>
  <2>1. 1 \in 1 .. Len(q)
    BY <1>2, EmptySeq, LenProperties
  <2> QED
    BY <1>2, <2>1 DEF From, Flow, InOrder, IsSpot
<1> QED
  BY <1>1, <1>2

\* What is used of a flow, in one go, is behind its task.
LEMMA UsesUp ==
  ASSUME NEW S, NEW sc, NEW pr, NEW c, NEW k, NEW q \in Seq(S), NEW n \in 1 .. Len(q),
         Flow(sc, c, k, q), NotStarted(sc, pr, c, From(k, q)), Len(sc[c]) \in Nat
  PROVE  LET d == Drop(q, n) IN
           /\ Flow(sc, c, k, d) /\ NotStarted(sc, pr, c, From(k, d))
           /\ Certain(k, d) => From(k, d) = After(sc, c, SpotOf(q[n]))
           /\ Before(SpotOf(q[n]), From(k, d)) /\ Before(From(k, q), From(k, d))
<1> DEFINE d == Drop(q, n)
<1>1. /\ Flow(sc, c, k, d) /\ d \in Seq(S)
      /\ Certain(k, d) => From(k, d) = After(sc, c, SpotOf(q[n]))
      /\ Before(SpotOf(q[n]), From(k, d))
  BY FlowDrop, DropType, LenProperties
<1>2. Len(q) \in Nat /\ q # <<>> /\ From(k, q) = SpotOf(q[1])
  BY LenProperties, EmptySeq DEF From
<1>3. /\ From(k, q)[1] \in Int /\ From(k, q)[2] \in Int /\ From(k, q)[2] >= 1
      /\ From(k, d)[1] \in Int /\ From(k, d)[2] \in Int /\ From(k, d)[2] >= 1
  BY <1>1, FromType
<1>4. Before(From(k, q), From(k, d))
  <2> DEFINE E == {i \in 1 .. Len(q) : ~Before(From(k, q), From(k, Drop(q, i)))}
  <2>1. SUFFICES E = {}
    OBVIOUS
  <2>2. SUFFICES ASSUME E # {} PROVE FALSE
    OBVIOUS
  <2>3. PICK i \in E : \A m \in E : i <= m
    BY <1>2, <2>2, FirstPosition
  <2>4. i \in 1 .. Len(q) /\ i \in Nat
    OBVIOUS
  <2>5. Before(SpotOf(q[i]), From(k, Drop(q, i))) /\ Flow(sc, c, k, Drop(q, i)) /\ Drop(q, i) \in Seq(S)
    BY <1>2, <2>4, FlowDrop, DropType
  <2>6. i # 1
    BY <1>2, <2>5
  <2>7. i - 1 \in 1 .. Len(q) /\ i - 1 \in 1 .. Len(q) - 1
    BY <1>2, <2>4, <2>6
  <2>8. i - 1 \notin E
    <3>1. ~(i <= i - 1)
      BY <2>4
    <3> HIDE DEF E
    <3> QED
      BY <2>3, <3>1
  <2>9. Before(From(k, q), From(k, Drop(q, i - 1)))
    BY <2>7, <2>8
  <2>10. Drop(q, i - 1) # <<>> /\ Drop(q, i - 1)[1] = q[i]
    <3>2. 1 \in 1 .. Len(q) - (i - 1) /\ i - 1 \in 0 .. Len(q) /\ (i - 1) + 1 = i
      BY <2>7, <1>2, <2>4
    <3>1. Drop(q, i - 1) \in Seq(S) /\ Len(Drop(q, i - 1)) = Len(q) - (i - 1)
      BY <3>2, DropType
    <3>3. Drop(q, i - 1)[1] = q[(i - 1) + 1]
      BY <3>2, DropElement
    <3> QED
      BY <3>1, <3>2, <3>3, EmptySeq
  <2>11. From(k, Drop(q, i - 1)) = SpotOf(q[i])
    BY <2>10 DEF From
  <2>12. /\ SpotOf(q[i])[1] \in Int /\ SpotOf(q[i])[2] \in Int
         /\ From(k, Drop(q, i))[1] \in Int /\ From(k, Drop(q, i))[2] \in Int
    <3>1. SpotOf(q[i])[1] \in Int /\ SpotOf(q[i])[2] \in Int
      BY <2>4 DEF Flow, InOrder, IsSpot
    <3>2. From(k, Drop(q, i))[1] \in Int /\ From(k, Drop(q, i))[2] \in Int
      BY <2>5, FromType
    <3> QED
      BY <3>1, <3>2
  <2>13. Before(From(k, q), From(k, Drop(q, i)))
    <3> DEFINE x == From(k, q)
               y == SpotOf(q[i])
               z == From(k, Drop(q, i))
    <3>1. Before(x, y) /\ Before(y, z)
      BY <2>5, <2>9, <2>11
    <3>2. x[1] \in Int /\ x[2] \in Int /\ y[1] \in Int /\ y[2] \in Int /\ z[1] \in Int /\ z[2] \in Int
      BY <1>3, <2>12
    <3> HIDE DEF x, y, z, E
    <3>3. Before(x, z)
      BY <3>1, <3>2, BeforeTransitive
    <3> QED
      BY <3>3 DEF x, z
  <2> QED
    BY <2>13
<1>5. NotStarted(sc, pr, c, From(k, d))
  BY <1>3, <1>4, NotStartedLater
<1> QED
  BY <1>1, <1>4, <1>5
\* A task that leaves what it was reading: a part of a header may be lost.
LEMMA ReadsOn ==
  ASSUME NEW S, NEW sc, NEW pr, NEW c, NEW t, NEW u, NEW buf \in Seq(S), NEW k,
         k.inq \in Seq(S), Held(t) \in Seq(S), Len(sc[c]) \in Nat,
         Reads(sc, pr, c, t, buf, k), u.state \notin TakesBody, Held(u) = <<>>
  PROVE  Reads(sc, pr, c, u, buf, k)
<1> DEFINE h == Held(t)
           hb == h \o buf
           q == hb \o k.inq
           d == buf \o k.inq
<1>1. /\ Len(h) \in Nat /\ Len(buf) \in Nat /\ Len(k.inq) \in Nat
      /\ hb \in Seq(S) /\ Len(hb) = Len(h) + Len(buf)
      /\ q \in Seq(S) /\ Len(q) = Len(h) + Len(buf) + Len(k.inq)
  BY Joined
<1>2. Flow(sc, c, k, q) /\ NotStarted(sc, pr, c, From(k, q)) /\ d \in Seq(S)
  BY DEF Reads, Unread
<1>3. Unread(u, buf, k.inq) = d
  BY ConcatEmptySeq DEF Unread
<1>4. Flow(sc, c, k, d) /\ NotStarted(sc, pr, c, From(k, d))
  <2>1. CASE h = <<>>
    <3>1. q = d
      BY <2>1, ConcatEmptySeq
    <3> QED
      BY <1>2, <3>1
  <2>2. CASE h # <<>>
    <3>1. Len(h) \in 1 .. Len(q) /\ Len(h) \in 0 .. Len(h) /\ Len(h) \in 0 .. Len(hb)
      <4>1. Len(h) # 0
        BY <2>2, EmptySeq
      <4>2. \A x, y, z \in Nat : x # 0 => x \in 1 .. x + y + z /\ x \in 0 .. x /\ x \in 0 .. x + y
        OBVIOUS
      <4> HIDE DEF h, q, hb, d
      <4> QED
        BY <1>1, <4>1, <4>2
    <3>2. Drop(q, Len(h)) = Drop(hb, Len(h)) \o k.inq
      BY <1>1, <3>1, DropConcat
    <3>3. Drop(hb, Len(h)) = Drop(h, Len(h)) \o buf
      BY <3>1, DropConcat
    <3>4. Drop(h, Len(h)) = <<>>
      BY <1>1, SubSeqEmpty DEF Drop
    <3>5. Drop(q, Len(h)) = d
      BY <3>2, <3>3, <3>4, ConcatEmptySeq
    <3> HIDE DEF q, d, h, hb
    <3> QED
      BY <1>1, <1>2, <3>1, <3>5, UsesUp
  <2> QED
    BY <2>1, <2>2
<1> HIDE DEF d
<1> QED
  BY <1>3, <1>4 DEF Reads

LEMMA AskedForm ==
  ASSUME NEW sc, NEW r \in Asked(sc)
  PROVE  r[1] \in Client /\ r[2] \in 1 .. Len(sc[r[1]]) /\ r = <<r[1], r[2]>>
<1>1. PICK c \in Client : r \in {<<c, k>> : k \in 1 .. Len(sc[c])}
  BY DEF Asked
<1>2. PICK k \in 1 .. Len(sc[c]) : r = <<c, k>>
  BY <1>1
<1> QED
  BY <1>2

\* What Full and InputInv say of a slot that has a client.
LEMMA SlotOfClient ==
  ASSUME Full, InputInv, NEW s \in Slot, connection_list[s].socket # NULL
  PROVE  LET p == connection_list[s]
             t == p.http_task
             c == p.socket
             k == net[c]
             T == PieceOf(script, c)
         IN /\ c \in Client /\ k.conn = "open"
            /\ script[c] \in Seq(Request) /\ Len(script[c]) \in Nat
            /\ \A j \in 1 .. Len(script[c]) : Size(script, c, j) \in Nat /\ Size(script, c, j) >= 2
            /\ Reads(script, proc, c, t, p.receiving_buffer, k)
            /\ Held(t) \in Seq(T) /\ p.receiving_buffer \in Seq(T) /\ k.inq \in Seq(T)
            /\ t.own # None => /\ t.own[2] \in 1 .. Len(script[c]) /\ t.own = <<c, t.own[2]>>
                               /\ t.own \in Asked(script)
            /\ t.state \in TakesBody => t.own # None
            /\ k.next[1] \in Nat /\ k.next[2] \in Nat /\ k.next = <<k.next[1], k.next[2]>>
<1> DEFINE p == connection_list[s]
           t == p.http_task
           c == p.socket
           k == net[c]
           T == PieceOf(script, c)
<1>1. c \in Client
  BY DEF Full, IInv, SlotInv, Sockets
<1>2. k.conn = "open"
  BY <1>1 DEF Full, IInv, SlotInv, SlotsMatchConnections, Peer
<1>3. script[c] \in Seq(Request) /\ Len(script[c]) \in Nat
  BY <1>1, LenProperties DEF Full, Typed, ScriptTyped
<1>4. ASSUME NEW j \in 1 .. Len(script[c]) PROVE Size(script, c, j) \in Nat /\ Size(script, c, j) >= 2
  <2>1. script[c][j] \in Request
    BY <1>3, ElementOfSeq
  <2>2. script[c][j].length \in Int
    BY <2>1 DEF Request
  <2> QED
    BY <2>2 DEF Size, BodyLen, HasLength
<1>5. Reads(script, proc, c, t, p.receiving_buffer, k)
  BY DEF InputInv, SlotReads
<1>6. SlotTyped(script, p)
  BY DEF Full, Typed, SlotsTyped
<1>7. p.receiving_buffer \in Seq(T) /\ k.inq \in Seq(T)
  BY <1>1, <1>6 DEF SlotTyped, Full, Typed, NetTyped
<1>8. Held(t) \in Seq(T)
  BY <1>6, EmptySeq DEF SlotTyped, Owned, Held
<1>9. t.own # None =>
        /\ t.own[2] \in 1 .. Len(script[c]) /\ t.own = <<c, t.own[2]>>
        /\ t.own \in Asked(script)
  <2>1. t.own # None => t.own \in Asked(script) /\ t.own[1] = c
    BY <1>6 DEF SlotTyped, TaskTyped, Owned
  <2> QED
    BY <2>1, AskedForm
<1>10. t.state \in TakesBody => t.own # None
  BY <1>6, AskedRequest DEF SlotTyped, TaskTyped, Parsed, TakesBody, Full, Typed, ScriptTyped
<1>11. k.next[1] \in Nat /\ k.next[2] \in Nat /\ k.next = <<k.next[1], k.next[2]>>
  BY <1>1 DEF Full, Typed, NetTyped
<1> QED
  BY <1>1, <1>2, <1>3, <1>4, <1>5, <1>7, <1>8, <1>9, <1>10, <1>11
-----------------------------------------------------------------------------
(* handle_http.                                                            *)

\* The current slot becomes p, which reads on; nothing is sent or started.
LEMMA HandlerReads ==
  ASSUME Full, InputInv, NEW p,
         connection_list' = [connection_list EXCEPT ![cur] = p],
         script' = script, net' = net, proc' = proc,
         p.socket # NULL =>
           Reads(script, proc, p.socket, p.http_task, p.receiving_buffer, net[p.socket])
  PROVE  InputInv'
<1>1. cur \in Slot /\ DOMAIN connection_list = Slot
  BY CurrentTyped
<1>2. \A s \in Slot : connection_list'[s] = IF s = cur THEN p ELSE connection_list[s]
  BY <1>1
<1>3. \A c : KeepsStarts(script, proc, proc', c) /\ KeepsInput(net[c], net'[c])
  BY DEF KeepsStarts, KeepsInput
<1>4. ASSUME NEW s \in Slot, s = cur PROVE SlotReads(s)'
  BY <1>2, <1>4 DEF SlotReads
<1>5. \A s \in Slot : connection_list'[s].socket # NULL =>
           \/ SlotReads(s)'
           \/ /\ connection_list'[s].socket = connection_list[s].socket
              /\ connection_list'[s].http_task = connection_list[s].http_task
              /\ connection_list'[s].receiving_buffer = connection_list[s].receiving_buffer
              /\ KeepsInput(net[connection_list[s].socket], net'[connection_list[s].socket])
              /\ KeepsStarts(script, proc, proc', connection_list[s].socket)
  <2> TAKE s \in Slot
  <2>1. CASE s = cur
    BY <1>4, <2>1
  <2>2. CASE s # cur
    BY <1>2, <1>3, <2>2
  <2> QED
    BY <2>1, <2>2
<1> QED
  BY <1>3, <1>5, InputStep

\* A step of the current slot that reads nothing and is done with the body, if
\* there was one.
LEMMA HandlerReadsOn ==
  ASSUME Full, InputInv, NEW p,
         connection_list' = [connection_list EXCEPT ![cur] = p],
         script' = script, net' = net, proc' = proc,
         p.socket = Me.socket, p.receiving_buffer = Me.receiving_buffer,
         p.http_task.state \notin TakesBody, Held(p.http_task) = <<>>
  PROVE  InputInv'
<1>1. cur \in Slot /\ Me = connection_list[cur]
  BY CurrentTyped
<1>2. ASSUME p.socket # NULL
      PROVE  Reads(script, proc, p.socket, p.http_task, p.receiving_buffer, net[p.socket])
  <2> DEFINE c == p.socket
             S == PieceOf(script, c)
  <2>1. /\ Reads(script, proc, c, Me.http_task, Me.receiving_buffer, net[c])
        /\ Held(Me.http_task) \in Seq(S) /\ Me.receiving_buffer \in Seq(S)
        /\ net[c].inq \in Seq(S) /\ Len(script[c]) \in Nat
    BY <1>1, <1>2, SlotOfClient
  <2> HIDE DEF S, c
  <2>2. Reads(script, proc, c, p.http_task, Me.receiving_buffer, net[c])
    BY <2>1, ReadsOn
  <2> QED
    BY <2>2 DEF c
<1> QED
  BY <1>2, HandlerReads

LEMMA TakeTake ==
  ASSUME NEW S, NEW q \in Seq(S), NEW m \in 0 .. Len(q), NEW n \in 0 .. m
  PROVE  Take(Take(q, m), n) = Take(q, n)
<1>1. Len(q) \in Nat /\ m \in Nat /\ n \in Nat /\ n \in 0 .. Len(q)
  BY LenProperties
<1>2. Take(q, m) \in Seq(S) /\ Len(Take(q, m)) = m
  BY TakeType
<1> DEFINE a == Take(Take(q, m), n)
           b == Take(q, n)
<1>3. a \in Seq(S) /\ b \in Seq(S) /\ Len(a) = n /\ Len(b) = n
  <2>1. n \in 0 .. Len(Take(q, m))
    BY <1>2
  <2> QED
    BY <1>1, <1>2, <2>1, TakeType
<1>4. ASSUME NEW i \in 1 .. n PROVE a[i] = b[i]
  <2>1. i \in 1 .. m /\ n \in 0 .. Len(Take(q, m))
    BY <1>1, <1>2
  <2>2. Take(q, m)[i] = q[i] /\ b[i] = q[i]
    BY <1>1, <2>1, TakeElement
  <2>3. a[i] = Take(q, m)[i]
    BY <1>2, <2>1, TakeElement
  <2> QED
    BY <2>2, <2>3
<1> HIDE DEF a, b
<1>5. a = b
  BY <1>3, <1>4, SeqEqual
<1> QED
  BY <1>5 DEF a, b

LEMMA TakeAll ==
  ASSUME NEW S, NEW q \in Seq(S) PROVE Take(q, Len(q)) = q
  BY SubSeqFull DEF Take

LEMMA DropAll ==
  ASSUME NEW S, NEW q \in Seq(S) PROVE Drop(q, Len(q)) = <<>>
<1>1. Len(q) \in Nat
  BY LenProperties
<1> QED
  BY <1>1, SubSeqEmpty DEF Drop

\* The part of a header that moves into parse_buf is still to be read.
LEMMA HeaderIncompleteLeaves ==
  ASSUME Full, InputInv, HeaderIncomplete
  PROVE  LET c == Me.socket IN
         /\ pc = "http" /\ Task.state = "RECV_HEADER_STATE"
         /\ script' = script /\ net' = net /\ proc' = proc
         /\ \E p :
              /\ connection_list' = [connection_list EXCEPT ![cur] = p]
              /\ p.socket = c /\ p.sending_buffer = Me.sending_buffer
              /\ p.http_task.state = "RECV_HEADER_STATE"
              /\ Unread(p.http_task, p.receiving_buffer, net[c].inq)
                   = Unread(Task, Me.receiving_buffer, net[c].inq)
<1> DEFINE c == Me.socket
           S == PieceOf(script, c)
           b == Me.receiving_buffer
           h == Task.parse_buf
           new == [Task EXCEPT !.parse_buf = h \o Incoming]
           p == [Me EXCEPT !.receiving_buffer = <<>>, !.http_task.parse_buf = @ \o Incoming]
<1>1. /\ pc = "http" /\ Task.state = "RECV_HEADER_STATE" /\ Len(Incoming) < Room(h)
      /\ connection_list' = [connection_list EXCEPT ![cur] = p]
      /\ script' = script /\ net' = net /\ proc' = proc
  BY DEF HeaderIncomplete, InHandler, Return, world
<1>2. /\ DOMAIN Me = PeerFields /\ Task = Me.http_task /\ DOMAIN Task = TaskFields
      /\ cur \in Slot /\ Me = connection_list[cur] /\ c # NULL
      /\ h \in Seq(Piece(script))
  BY <1>1, CurrentTyped DEF TaskTyped
<1>3. /\ Reads(script, proc, c, Task, b, net[c])
      /\ h \in Seq(S) /\ b \in Seq(S) /\ net[c].inq \in Seq(S)
  BY <1>1, <1>2, SlotOfClient DEF Held
<1>4. /\ p.socket = c /\ p.receiving_buffer = <<>> /\ p.http_task = new
      /\ p.sending_buffer = Me.sending_buffer
  BY <1>2 DEF PeerFields
<1>5. new.state = "RECV_HEADER_STATE" /\ new.parse_buf = h \o Incoming
  BY <1>1, <1>2 DEF TaskFields
<1> HIDE DEF p, new
<1>6. Incoming = b
  <2>1. Len(b) \in Nat /\ Len(h) \in Nat /\ Room(h) \in Int
    BY <1>3, StateAssumption, LenProperties DEF Room
  <2> DEFINE n == Least(Len(b), Room(h))
  <2>2. Incoming = Take(b, n)
    BY DEF Incoming
  <2>3. Len(h) <= BUF_DATA_MAXSIZE
    BY CurrentTyped DEF TaskTyped
  <2>4. n \in 0 .. Len(b)
    BY <2>1, <2>3, StateAssumption DEF Least, Room
  <2>5. Len(Incoming) = n
    BY <1>3, <2>2, <2>4, TakeType
  <2>6. n = Len(b)
    BY <1>1, <2>1, <2>5 DEF Least
  <2> HIDE DEF n
  <2> QED
    BY <1>3, <2>2, <2>6, TakeAll
<1> HIDE DEF b, h, c, S
<1>7. Unread(new, <<>>, net[c].inq) = Unread(Task, b, net[c].inq)
  <2>1. Held(new) = h \o b /\ Held(Task) = h
    BY <1>1, <1>5, <1>6 DEF Held, h
  <2>2. h \o b \in Seq(S)
    BY <1>3, ConcatProperties
  <2>3. (h \o b) \o <<>> = h \o b
    BY <2>2, ConcatEmptySeq
  <2> QED
    BY <2>1, <2>3 DEF Unread
<1> QED
  BY <1>1, <1>4, <1>5, <1>7 DEF c, b

LEMMA HeaderIncompleteReads ==
  ASSUME Full, InputInv, HeaderIncomplete PROVE InputInv'
<1> DEFINE c == Me.socket
<1>1. PICK p :
        /\ connection_list' = [connection_list EXCEPT ![cur] = p]
        /\ p.socket = c /\ p.http_task.state = "RECV_HEADER_STATE"
        /\ Unread(p.http_task, p.receiving_buffer, net[c].inq)
             = Unread(Task, Me.receiving_buffer, net[c].inq)
  BY HeaderIncompleteLeaves
<1>2. pc = "http" /\ script' = script /\ net' = net /\ proc' = proc
  BY HeaderIncompleteLeaves
<1>3. Reads(script, proc, c, Task, Me.receiving_buffer, net[c])
  BY <1>2, CurrentTyped, SlotOfClient
<1>4. KeepsStarts(script, proc, proc, c) /\ p.http_task.state \notin TakesBody
  BY <1>1 DEF KeepsStarts, TakesBody
<1> HIDE DEF c
<1>5. Reads(script, proc, c, p.http_task, p.receiving_buffer, net[c])
  BY <1>1, <1>3, <1>4, ReadsSame
<1> QED
  BY <1>1, <1>2, <1>5, HandlerReads

\* The header that parse accepts is the first that its client has sent and not
\* had answered, and what follows is its body or the next request.
LEMMA HeaderParsedTakes ==
  ASSUME Full, InputInv, HeaderParsed
  PROVE  LET c == Me.socket
             k == net[c]
             r == Header[1].req
             a == RequestOf(r)
             m == r[2]
         IN
         /\ pc = "http" /\ Task.state = "RECV_HEADER_STATE" /\ a.method # "MALFORMED"
         /\ script' = script /\ net' = net /\ proc' = proc
         /\ c \in Client /\ c # NULL /\ m \in 1 .. Len(script[c]) /\ r = <<c, m>>
         /\ a = script[c][m] /\ a \in Request /\ proc[r].st = "none"
         /\ From(k, Unread(Task, Me.receiving_buffer, k.inq)) = <<m, 1>>
         /\ Before(<<m, 1>>, k.next)
         /\ \E p :
              LET new == p.http_task
                  d == Unread(new, p.receiving_buffer, k.inq)
              IN /\ connection_list' = [connection_list EXCEPT ![cur] = p]
                 /\ p.socket = c /\ p.sending_buffer = Me.sending_buffer
                 /\ new = Dispatch([Task EXCEPT !.parse_buf = Header, !.own = r,
                                                !.last_request = a.close], a)
                 /\ new.own = r /\ new.post_body = <<>> /\ new.state # "RECV_HEADER_STATE"
                 /\ new.state = "RECV_BODY_STATE" =>
                      a.method = "POST" /\ a.length >= 0 /\ new.body_bytes_num = a.length
                 /\ new.state = "CHECK_CGI" => a.method # "POST"
                 /\ Flow(script, c, k, d) /\ NotStarted(script, proc, c, From(k, d))
                 /\ Certain(k, d) => From(k, d) = After(script, c, <<m, 2>>)
                 /\ Before(<<m, 1>>, From(k, d))
<1> DEFINE c == Me.socket
           S == PieceOf(script, c)
           b == Me.receiving_buffer
           h == Task.parse_buf
           x == Take(b, HeaderSize)
           y == Drop(b, HeaderSize)
           k == net[c]
           r == Header[1].req
           a == RequestOf(r)
           u == [Task EXCEPT !.parse_buf = Header, !.own = r, !.last_request = RequestOf(r).close]
           new == Dispatch(u, a)
           p == [Me EXCEPT !.http_task = new, !.receiving_buffer = Drop(@, HeaderSize)]
           G(v) == LET t == v.http_task
                       f == From(k, Unread(t, v.receiving_buffer, k.inq))
                   IN /\ connection_list' = [connection_list EXCEPT ![cur] = v]
                      /\ v.socket = c /\ v.sending_buffer = Me.sending_buffer
                      /\ t = Dispatch([Task EXCEPT !.parse_buf = Header, !.own = r,
                                                   !.last_request = a.close], a)
                      /\ t.own = r /\ t.post_body = <<>> /\ t.state # "RECV_HEADER_STATE"
                      /\ t.state = "RECV_BODY_STATE" =>
                           a.method = "POST" /\ a.length >= 0 /\ t.body_bytes_num = a.length
                      /\ t.state = "CHECK_CGI" => a.method # "POST"
                      /\ Flow(script, c, k, Unread(t, v.receiving_buffer, k.inq))
                      /\ NotStarted(script, proc, c, f)
                      /\ Certain(k, Unread(t, v.receiving_buffer, k.inq)) =>
                           f = After(script, c, <<r[2], 2>>)
                      /\ Before(<<r[2], 1>>, f)
<1>1. /\ pc = "http" /\ Task.state = "RECV_HEADER_STATE" /\ EndsHeader # {} /\ Parses
      /\ connection_list' = [connection_list EXCEPT ![cur] = p]
      /\ script' = script /\ net' = net /\ proc' = proc
  BY DEF HeaderParsed, HeaderComplete, InHandler, world
<1>2. /\ DOMAIN Me = PeerFields /\ Task = Me.http_task /\ DOMAIN Task = TaskFields
      /\ cur \in Slot /\ Me = connection_list[cur] /\ c # NULL
      /\ TaskTyped(script, Task) /\ TaskOK(Task)
  BY <1>1, CurrentTyped
<1>3. /\ Reads(script, proc, c, Task, b, k)
      /\ h \in Seq(S) /\ b \in Seq(S) /\ k.inq \in Seq(S) /\ Held(Task) = h
      /\ c \in Client /\ script[c] \in Seq(Request) /\ Len(script[c]) \in Nat
      /\ \A j \in 1 .. Len(script[c]) : Size(script, c, j) \in Nat /\ Size(script, c, j) >= 2
  BY <1>1, <1>2, SlotOfClient DEF Held
<1>4. /\ p.socket = c /\ p.receiving_buffer = y /\ p.http_task = new
      /\ p.sending_buffer = Me.sending_buffer
  <2> HIDE DEF new, c
  <2> QED
    BY <1>2 DEF PeerFields, c
<1>5. /\ u.state = "RECV_HEADER_STATE" /\ u.own = r /\ u.post_body = <<>>
      /\ DOMAIN u = TaskFields
  BY <1>1, <1>2 DEF TaskFields, TaskTyped
<1> HIDE DEF p, u, G
<1>6. /\ new.own = r /\ new.post_body = <<>> /\ new.state # "RECV_HEADER_STATE"
      /\ new.state = "RECV_BODY_STATE" =>
           a.method = "POST" /\ a.length >= 0 /\ new.body_bytes_num = a.length
      /\ new.state = "CHECK_CGI" => a.method # "POST"
  BY <1>5 DEF Dispatch, TaskFields, HasLength
<1> HIDE DEF new
<1>7. /\ x \in Seq(S) /\ y \in Seq(S) /\ x \o y = b /\ Take(Incoming, HeaderSize) = x
  <2>1. HeaderSize \in 1 .. Len(Incoming) /\ Len(Incoming) \in 0 .. Len(b)
    BY <1>1, HeaderSizeType, IncomingType
  <2>2. Len(b) \in Nat
    BY <1>3, LenProperties
  <2>3. HeaderSize \in 0 .. Len(b) /\ HeaderSize \in 0 .. Len(Incoming)
    BY <2>1, <2>2
  <2>4. Incoming = Take(b, Least(Len(b), Room(h)))
    BY DEF Incoming
  <2> DEFINE n == Least(Len(b), Room(h))
  <2>5. n \in 0 .. Len(b) /\ Len(Take(b, n)) = n
    <3>1. Len(h) \in Nat /\ Len(h) <= BUF_DATA_MAXSIZE
      BY <1>2, <1>3, LenProperties DEF TaskTyped
    <3>2. n \in 0 .. Len(b)
      BY <2>2, <3>1, StateAssumption DEF Least, Room
    <3> QED
      BY <1>3, <3>2, TakeType
  <2> HIDE DEF n
  <2>6. Take(Incoming, HeaderSize) = x
    BY <1>3, <2>3, <2>4, <2>5, TakeTake DEF n
  <2> QED
    BY <1>3, <2>3, <2>6, TakeType, DropType, TakeDrop
<1>8. Header = h \o x /\ Header \in Seq(S) /\ Len(Header) = 2
  BY <1>1, <1>3, <1>7, ConcatProperties DEF Header, Parses
<1> DEFINE q == Unread(Task, b, k.inq)
           d == y \o k.inq
<1>9. q = Header \o d /\ d \in Seq(S) /\ q \in Seq(S) /\ Len(q) \in Nat /\ Len(q) >= 2
  <2> HIDE DEF x, y, b, h, S, k
  <2>1. q = h \o (x \o y) \o k.inq
    BY <1>3, <1>7 DEF Unread
  <2> DEFINE z == k.inq
  <2>5. h \in Seq(S) /\ x \in Seq(S) /\ y \in Seq(S) /\ z \in Seq(S)
    BY <1>3, <1>7
  <2> HIDE DEF z
  <2>6. Cat(Cat(h, Cat(x, y)), z) = Cat(Cat(h, x), Cat(y, z))
    BY <2>5, Moved
  <2>2. h \o (x \o y) \o k.inq = h \o x \o (y \o k.inq)
    BY <2>6 DEF z, Cat
  <2>3. d \in Seq(S) /\ Len(d) \in Nat
    BY <1>3, <1>7, ConcatProperties, LenProperties
  <2> HIDE DEF q, d
  <2>4. q = Header \o d
    BY <1>8, <2>1, <2>2 DEF d
  <2> QED
    BY <1>8, <2>3, <2>4, ConcatProperties
<1> HIDE DEF q, d, x, y, b, h, S, k, c, r, a
<1>10. q[1] = Header[1] /\ q[2] = Header[2]
  BY <1>8, <1>9, ConcatProperties
<1>11. 2 \in 1 .. Len(q) /\ Drop(q, 2) = d /\ q # <<>> /\ 1 \in 1 .. Len(q)
  <2>3. Drop(Header, Len(Header)) = <<>>
    BY <1>8, DropAll
  <2>1. 2 \in 0 .. Len(Header) /\ Drop(Header, 2) = <<>>
    BY <1>8, <2>3
  <2>2. Drop(q, 2) = Drop(Header, 2) \o d
    BY <1>8, <1>9, <2>1, DropConcat
  <2>4. <<>> \o d = d
    BY <1>9, ConcatEmptySeq
  <2>5. Drop(q, 2) = d
    BY <2>1, <2>2, <2>4
  <2>6. 2 \in 1 .. Len(q) /\ 1 \in 1 .. Len(q)
    BY <1>9
  <2>7. q # <<>>
    BY <1>9, EmptySeq
  <2> QED
    BY <2>5, <2>6, <2>7
<1>12. Flow(script, c, k, q) /\ NotStarted(script, proc, c, From(k, q))
  BY <1>3 DEF Reads, q
<1>13. /\ Flow(script, c, k, d) /\ NotStarted(script, proc, c, From(k, d))
       /\ Certain(k, d) => From(k, d) = After(script, c, SpotOf(q[2]))
       /\ Before(SpotOf(q[1]), From(k, d))
       /\ From(k, q) = SpotOf(q[1])
  <2>1. From(k, q) = SpotOf(q[1])
    BY <1>11 DEF From
  <2>2. /\ Flow(script, c, k, Drop(q, 2)) /\ NotStarted(script, proc, c, From(k, Drop(q, 2)))
        /\ Certain(k, Drop(q, 2)) => From(k, Drop(q, 2)) = After(script, c, SpotOf(q[2]))
        /\ Before(From(k, q), From(k, Drop(q, 2)))
    <3>1. /\ q \in Seq(S) /\ 2 \in 1 .. Len(q) /\ Flow(script, c, k, q)
          /\ NotStarted(script, proc, c, From(k, q)) /\ Len(script[c]) \in Nat
      BY <1>3, <1>9, <1>11, <1>12
    <3> QED
      BY <3>1, UsesUp
  <2> QED
    BY <1>11, <2>1, <2>2
<1> DEFINE m == SpotOf(q[1])[1]
<1>14. m \in 1 .. Len(script[c]) /\ SpotOf(q[1]) = <<m, 1>> /\ r = <<c, m>>
  <2>1. IsSpot(script, c, SpotOf(q[1])) /\ q[1] = At(c, SpotOf(q[1]))
    BY <1>11, <1>12 DEF Flow, InOrder
  <2>2. q[1].part = "head" /\ r = q[1].req
    BY <1>1, <1>10 DEF Parses, r
  <2>3. SpotOf(q[1]) = <<m, 1>>
    BY <2>2 DEF SpotOf
  <2>4. r = <<c, m>>
    BY <2>1, <2>2, <2>3 DEF At, RequestToken, Token
  <2> QED
    BY <2>1, <2>3, <2>4 DEF IsSpot
<1> HIDE DEF m
<1>15. SpotOf(q[2]) = <<m, 2>>
  <2>1. 1 \in 1 .. Len(q) - 1 /\ 1 + 1 = 2
    BY <1>9
  <2>2. SpotOf(q[2]) = After(script, c, SpotOf(q[1]))
    BY <1>12, <2>1 DEF Flow, InOrder
  <2>3. Size(script, c, m) \in Nat /\ Size(script, c, m) >= 2
    BY <1>3, <1>14
  <2> QED
    BY <1>14, <2>2, <2>3 DEF After
<1>16. proc[r].st = "none" /\ a = script[c][m]
  BY <1>12, <1>13, <1>14 DEF NotStarted, RequestOf, a
<1>17. Held(new) = <<>> /\ Unread(new, y, k.inq) = d
  <2>1. Held(new) = <<>>
    BY <1>6 DEF Held
  <2> QED
    BY <1>7, <2>1, ConcatEmptySeq DEF Unread, d
<1>18. r[2] = m /\ new = Dispatch(u, a)
  BY <1>14 DEF new
<1>19. G(p)
  BY <1>1, <1>4, <1>6, <1>13, <1>14, <1>15, <1>17, <1>18 DEF G, u, a
<1>20. a \in Request /\ a.method # "MALFORMED"
  <2>1. a \in Request
    BY <1>3, <1>14, <1>16, ElementOfSeq
  <2> QED
    BY <1>1, <2>1 DEF Parses, a, r
<1>21. c # NULL /\ From(k, q) = <<m, 1>> /\ Before(<<m, 1>>, k.next)
  BY <1>2, <1>11, <1>12, <1>13, <1>14 DEF Flow, c
<1>22. From(k, Unread(Task, Me.receiving_buffer, k.inq)) = <<m, 1>>
  BY <1>21 DEF q, b
<1>23. \E v : G(v)
  BY <1>19
<1>24. r[2] = m /\ c \in Client /\ k = net[c]
  BY <1>3, <1>18 DEF k
<1> QED
  BY ONLY <1>1, <1>14, <1>16, <1>20, <1>21, <1>22, <1>23, <1>24 DEF G, c, k, r, a

LEMMA HeaderParsedReads ==
  ASSUME Full, InputInv, HeaderParsed PROVE InputInv'
<1> DEFINE c == Me.socket
           k == net[c]
           r == Header[1].req
           a == RequestOf(r)
           m == r[2]
<1>1. /\ script' = script /\ net' = net /\ proc' = proc
      /\ c \in Client /\ m \in 1 .. Len(script[c]) /\ r = <<c, m>>
      /\ a = script[c][m] /\ a \in Request /\ proc[r].st = "none"
  BY HeaderParsedTakes
<1>2. PICK p :
        LET new == p.http_task
            d == Unread(new, p.receiving_buffer, k.inq)
        IN /\ connection_list' = [connection_list EXCEPT ![cur] = p]
           /\ p.socket = c
           /\ new.own = r /\ new.post_body = <<>>
           /\ new.state = "RECV_BODY_STATE" =>
                a.method = "POST" /\ a.length >= 0 /\ new.body_bytes_num = a.length
           /\ new.state = "CHECK_CGI" => a.method # "POST"
           /\ Flow(script, c, k, d) /\ NotStarted(script, proc, c, From(k, d))
           /\ Certain(k, d) => From(k, d) = After(script, c, <<m, 2>>)
           /\ Before(<<m, 1>>, From(k, d))
  BY HeaderParsedTakes
<1> DEFINE new == p.http_task
           d == Unread(new, p.receiving_buffer, k.inq)
<1> HIDE DEF c, k, r, a, m, new, d
<1>3. RequestOf(r) = a
  BY DEF a
<1>4. ASSUME new.state \in TakesBody PROVE Taking(script, proc, new, k, d)
  <2>1. /\ new.own = <<c, m>> /\ new.post_body = <<>> /\ Len(new.post_body) = 0
        /\ Before(<<m, 1>>, From(k, d)) /\ proc[new.own].st = "none"
        /\ new.state = "RECV_BODY_STATE" =>
             a.method = "POST" /\ a.length >= 0 /\ new.body_bytes_num = a.length
        /\ new.state = "CHECK_CGI" => a.method # "POST"
        /\ Certain(k, d) => From(k, d) = After(script, c, <<m, 2>>)
    BY <1>1, <1>2, EmptySeq DEF new, d
  <2>2. Body(new.own, 0) = <<>>
    BY DEF Body
  <2>3. CASE new.state = "RECV_BODY_STATE"
    <3>1. a.method = "POST" /\ a.length \in Nat /\ new.body_bytes_num = a.length
      BY <1>1, <2>1, <2>3 DEF Request
    <3>2. Size(script, c, m) = 2 + a.length
      BY <1>1, <3>1 DEF Size, BodyLen, HasLength
    <3>3. Certain(k, d) => From(k, d) = IF 0 < a.length THEN <<m, 3 + 0>> ELSE <<m + 1, 1>>
      BY <2>1, <3>1, <3>2 DEF After
    <3> QED
      BY <1>1, <2>1, <2>2, <2>3, <3>1, <3>3 DEF Taking
  <2>4. CASE new.state = "CHECK_CGI"
    BY <1>1, <2>1, <2>4 DEF Taking
  <2> QED
    BY <1>4, <2>3, <2>4 DEF TakesBody
<1>5. Reads(script, proc, c, new, p.receiving_buffer, k)
  BY <1>2, <1>4 DEF Reads, d, new
<1> QED
  BY <1>1, <1>2, <1>5, HandlerReads DEF k, c, new

LEMMA DropNone ==
  ASSUME NEW S, NEW q \in Seq(S) PROVE Drop(q, 0) = q
  BY SubSeqFull DEF Drop

LEMMA TakeNone ==
  ASSUME NEW S, NEW q \in Seq(S) PROVE Take(q, 0) = <<>>
<1>1. Len(q) \in Nat
  BY LenProperties
<1> QED
  BY <1>1, SubSeqEmpty DEF Take

BodyTokens(r, m) == {Token(r, "body", i) : i \in 1 .. m}

LEMMA BodyType ==
  ASSUME NEW r, NEW m \in Nat
  PROVE  /\ Body(r, m) \in Seq(BodyTokens(r, m)) /\ Len(Body(r, m)) = m
         /\ \A i \in 1 .. m : Body(r, m)[i] = Token(r, "body", i)
<1>1. Body(r, m) \in Seq(BodyTokens(r, m)) /\ DOMAIN Body(r, m) = 1 .. m
  BY DEF Body, BodyTokens
<1> QED
  BY <1>1, LenProperties DEF Body

\* The body goes on with the tokens that come next.
IsBody(c, o, m, q, n) == \A i \in 1 .. n : q[i] = At(c, <<o, 2 + m + i>>)

LEMMA BodyGrows ==
  ASSUME NEW S, NEW q \in Seq(S), NEW c, NEW o, NEW r, r = <<c, o>>, NEW m \in Nat,
         NEW n \in 0 .. Len(q), IsBody(c, o, m, q, n)
  PROVE  Cat(Body(r, m), Take(q, n)) = Body(r, m + n)
<1> DEFINE X(k) == BodyTokens(r, k)
           B == X(m) \cup S \cup X(m + n)
           x == Body(r, m)
           y == Take(q, n)
           z == Body(r, m + n)
<1>1. n \in Nat /\ y \in Seq(S) /\ Len(y) = n
  BY LenProperties, TakeType
<1>2. /\ x \in Seq(X(m)) /\ Len(x) = m /\ z \in Seq(X(m + n)) /\ Len(z) = m + n
      /\ \A i \in 1 .. m : x[i] = Token(r, "body", i)
      /\ \A i \in 1 .. m + n : z[i] = Token(r, "body", i)
  <2>1. m + n \in Nat
    BY <1>1
  <2> QED
    BY <2>1, BodyType
<1>3. \A i \in 1 .. n : y[i] = q[i]
  BY TakeElement
<1>4. x \in Seq(B) /\ y \in Seq(B) /\ z \in Seq(B)
  <2>1. X(m) \subseteq B /\ S \subseteq B /\ X(m + n) \subseteq B
    OBVIOUS
  <2>2. /\ x \in Seq(X(m)) /\ y \in Seq(S) /\ z \in Seq(X(m + n))
    BY <1>1, <1>2
  <2> HIDE DEF x, y, z, B, X
  <2> QED
    BY <2>1, <2>2, SeqMonotonic
<1> HIDE DEF x, y, z, B, X
<1>5. /\ x \o y \in Seq(B) /\ Len(x \o y) = m + n
      /\ \A i \in 1 .. m : (x \o y)[i] = x[i]
      /\ \A i \in 1 .. n : (x \o y)[m + i] = y[i]
  <2>1. /\ x \o y \in Seq(B) /\ Len(x \o y) = Len(x) + Len(y)
        /\ \A i \in 1 .. Len(x) + Len(y) :
             (x \o y)[i] = IF i <= Len(x) THEN x[i] ELSE y[i - Len(x)]
    BY <1>4, ConcatProperties
  <2>2. \A i \in 1 .. m : (x \o y)[i] = x[i]
    <3> TAKE i \in 1 .. m
    <3>1. i \in 1 .. Len(x) + Len(y) /\ i <= Len(x)
      BY <1>1, <1>2
    <3> QED
      BY <2>1, <3>1
  <2>3. \A i \in 1 .. n : (x \o y)[m + i] = y[i]
    <3> TAKE i \in 1 .. n
    <3>1. m + i \in 1 .. Len(x) + Len(y) /\ ~(m + i <= Len(x)) /\ (m + i) - Len(x) = i
      BY <1>1, <1>2
    <3> QED
      BY <2>1, <3>1
  <2> QED
    BY <1>1, <1>2, <2>1, <2>2, <2>3
<1>6. ASSUME NEW i \in 1 .. m + n PROVE (x \o y)[i] = z[i]
  <2>1. CASE i \in 1 .. m
    BY <1>2, <1>5, <2>1
  <2>2. CASE i \notin 1 .. m
    <3>1. i - m \in 1 .. n /\ m + (i - m) = i /\ i - m + 2 + m = i + 2 /\ 2 + m + (i - m) = i + 2
      BY <1>1, <2>2
    <3>4. (x \o y)[m + (i - m)] = y[i - m] /\ y[i - m] = q[i - m]
      BY <1>3, <1>5, <3>1
    <3>5. q[i - m] = At(c, <<o, 2 + m + (i - m)>>)
      BY <3>1 DEF IsBody
    <3>2. (x \o y)[i] = At(c, <<o, i + 2>>)
      BY <3>1, <3>4, <3>5
    <3>3. At(c, <<o, i + 2>>) = Token(<<c, o>>, "body", i)
      <4>1. i \in Nat /\ i + 2 # 1 /\ i + 2 # 2 /\ (i + 2) - 2 = i
        BY <1>1
      <4> QED
        BY <4>1 DEF At, RequestToken
    <3> QED
      BY <1>2, <3>2, <3>3
  <2> QED
    BY <2>1, <2>2
<1>7. x \o y = z
  BY <1>2, <1>4, <1>5, <1>6, SeqEqual
<1> QED
  BY <1>7 DEF x, y, z, Cat

\* A task that takes n tokens of its body.
LEMMA BodyTaken ==
  ASSUME NEW S, NEW sc, NEW pr, NEW c, NEW t, NEW u, NEW b \in Seq(S), NEW k, k.inq \in Seq(S),
         NEW n \in 0 .. Len(b), Reads(sc, pr, c, t, b, k), t.state = "RECV_BODY_STATE",
         t.own = <<c, t.own[2]>>, t.own[2] \in 1 .. Len(sc[c]), Len(sc[c]) \in Nat,
         Len(t.post_body) \in Nat, Len(t.post_body) + n <= t.body_bytes_num,
         u.own = t.own, u.body_bytes_num = t.body_bytes_num,
         u.post_body = t.post_body \o Take(b, n),
         \/ u.state = "RECV_BODY_STATE"
         \/ u.state = "CHECK_CGI" /\ Len(u.post_body) >= t.body_bytes_num
  PROVE  Reads(sc, pr, c, u, Drop(b, n), k)
<1> DEFINE a == sc[t.own[1]][t.own[2]]
           l == a.length
           m == Len(t.post_body)
           o == t.own[2]
           q == b \o k.inq
           d == Drop(b, n) \o k.inq
<1>1. Held(t) = <<>> /\ Held(u) = <<>> /\ <<>> \o b = b /\ <<>> \o Drop(b, n) = Drop(b, n)
  BY DropType, ConcatEmptySeq DEF Held
<1>2. Unread(t, b, k.inq) = q /\ Unread(u, Drop(b, n), k.inq) = d
  BY <1>1 DEF Unread
<1>3. Flow(sc, c, k, q) /\ NotStarted(sc, pr, c, From(k, q)) /\ Taking(sc, pr, t, k, q)
  BY <1>2 DEF Reads, TakesBody
<1>4. /\ pr[t.own].st = "none" /\ Before(<<o, 1>>, From(k, q))
      /\ a.method = "POST" /\ l \in Nat /\ t.body_bytes_num = l /\ m <= l
      /\ t.post_body = Body(t.own, m)
      /\ Certain(k, q) => From(k, q) = IF m < l THEN <<o, 3 + m>> ELSE <<o + 1, 1>>
  BY <1>3 DEF Taking
<1>5. Len(b) \in Nat /\ n \in Nat /\ q \in Seq(S) /\ Len(q) = Len(b) + Len(k.inq)
      /\ Len(k.inq) \in Nat /\ n \in 0 .. Len(q)
  BY ConcatProperties, LenProperties
<1>6. m \in Nat /\ o \in Nat /\ Size(sc, c, o) = 2 + l
  BY <1>4 DEF Size, BodyLen, HasLength
<1>7. Drop(q, n) = d
  BY DropConcat
<1> HIDE DEF q, d, m, o, l, a
<1>8. /\ Flow(sc, c, k, d) /\ NotStarted(sc, pr, c, From(k, d)) /\ Before(<<o, 1>>, From(k, d))
      /\ Certain(k, d) => From(k, d) = IF m + n < l THEN <<o, 3 + (m + n)>> ELSE <<o + 1, 1>>
      /\ u.post_body = Body(t.own, m + n)
  <2>1. CASE n = 0
    <3>1. q = d
      BY <1>5, <1>7, <2>1, DropNone
    <3>2. m + n = m
      BY <1>6, <2>1
    <3>3. u.post_body = t.post_body
      <4>1. Take(b, n) = <<>>
        BY <2>1, TakeNone
      <4>2. t.post_body \o <<>> = t.post_body
        <5>1. Body(t.own, m) \in Seq(BodyTokens(t.own, m))
          BY <1>6, BodyType
        <5> QED
          BY <1>4, <5>1, ConcatEmptySeq
      <4> QED
        BY <4>1, <4>2
    <3> QED
      BY <1>3, <1>4, <3>1, <3>2, <3>3
  <2>2. CASE n # 0
    <3>1. n \in 1 .. Len(q) /\ 1 \in 1 .. Len(q) /\ n \in 1 .. n
      BY <1>5, <2>2
    <3>2. q # <<>>
      BY <1>5, <3>1, EmptySeq
    <3>3. m < l /\ m + n <= l
      BY <1>4, <1>5, <1>6, <2>2 DEF m
    <3>4. SpotOf(q[1]) = <<o, 3 + m>> /\ From(k, q) = SpotOf(q[1])
      BY <1>4, <3>2, <3>3 DEF From, Certain
    <3>5. \A i \in 1 .. n : SpotOf(q[i]) = <<o, (3 + m) + i - 1>>
      <4>1. /\ 3 + m \in Nat /\ (3 + m) + n - 1 <= Size(sc, c, o) /\ Size(sc, c, o) \in Nat
            /\ InOrder(sc, c, q)
        BY <1>3, <1>4, <1>5, <1>6, <3>3 DEF Flow
      <4> DEFINE j == 3 + m
      <4>2. j \in Nat /\ SpotOf(q[1]) = <<o, j>> /\ j + n - 1 <= Size(sc, c, o)
        BY <3>4, <4>1
      <4> HIDE DEF j
      <4>3. \A i \in 1 .. n : SpotOf(q[i]) = <<o, j + i - 1>>
        <5>1. /\ q \in Seq(S) /\ InOrder(sc, c, q) /\ n \in 1 .. Len(q) /\ o \in Nat /\ j \in Nat
              /\ SpotOf(q[1]) = <<o, j>> /\ j + n - 1 <= Size(sc, c, o) /\ Size(sc, c, o) \in Nat
          BY <1>5, <1>6, <3>1, <4>1, <4>2
        <5> QED
          BY <5>1, Consecutive
      <4> QED
        BY <4>3 DEF j
    <3>6. /\ Flow(sc, c, k, Drop(q, n)) /\ NotStarted(sc, pr, c, From(k, Drop(q, n)))
          /\ Certain(k, Drop(q, n)) => From(k, Drop(q, n)) = After(sc, c, SpotOf(q[n]))
          /\ Before(SpotOf(q[n]), From(k, Drop(q, n)))
      BY <1>3, <1>5, <3>1, UsesUp
    <3>7. SpotOf(q[n]) = <<o, 2 + (m + n)>>
      BY <1>5, <1>6, <3>1, <3>5
    <3>8. Before(<<o, 1>>, From(k, d))
      <4>1. Before(<<o, 2 + (m + n)>>, From(k, d))
        BY <1>7, <3>6, <3>7
      <4>2. From(k, d)[1] \in Int /\ From(k, d)[2] \in Int
        BY <1>5, <1>7, <3>6, FromType, DropType
      <4> QED
        BY <1>5, <1>6, <4>1, <4>2 DEF Before
    <3>9. Certain(k, d) => From(k, d) = IF m + n < l THEN <<o, 3 + (m + n)>> ELSE <<o + 1, 1>>
      BY <1>4, <1>5, <1>6, <1>7, <3>3, <3>6, <3>7 DEF After
    <3>10. \A i \in 1 .. n : b[i] = At(c, <<o, 2 + m + i>>)
      <4> TAKE i \in 1 .. n
      <4>1. i \in 1 .. Len(q) /\ i \in 1 .. Len(b) /\ (3 + m) + i - 1 = 2 + m + i
        BY <1>5, <1>6, <3>1
      <4>2. q[i] = b[i]
        BY <4>1, ConcatProperties DEF q
      <4>3. q[i] = At(c, SpotOf(q[i]))
        BY <1>3, <4>1 DEF Flow, InOrder
      <4> QED
        BY <3>5, <4>1, <4>2, <4>3
    <3>11. u.post_body = Body(t.own, m + n)
      <4>1. Body(t.own, m) \o Take(b, n) = Body(t.own, m + n)
        <5> DEFINE r == t.own
        <5>1. r = <<c, o>> /\ IsBody(c, o, m, b, n)
          BY <3>10 DEF IsBody, o
        <5> HIDE DEF r
        <5>2. Cat(Body(r, m), Take(b, n)) = Body(r, m + n)
          <6>1. m \in Nat /\ b \in Seq(S) /\ n \in 0 .. Len(b)
            BY <1>6
          <6> QED
            BY <5>1, <6>1, BodyGrows
        <5> QED
          BY <5>2 DEF r, Cat
      <4> QED
        BY <1>4, <4>1
    <3> QED
      BY <1>7, <3>6, <3>8, <3>9, <3>11
  <2> QED
    BY <2>1, <2>2
<1>9. Len(u.post_body) = m + n /\ m + n <= l
  <2>1. m + n \in Nat /\ m + n <= l
    BY <1>4, <1>5, <1>6 DEF m
  <2> QED
    BY <1>8, <2>1, BodyType
<1>10. sc[u.own[1]][u.own[2]] = a /\ u.own[2] = o
  BY DEF a, o
<1>11. Taking(sc, pr, u, k, d)
  <2>1. CASE u.state = "RECV_BODY_STATE"
    BY <1>4, <1>8, <1>9, <1>10, <2>1 DEF Taking, l
  <2>2. CASE u.state = "CHECK_CGI" /\ Len(u.post_body) >= t.body_bytes_num
    <3>1. m + n = l
      <4>1. m + n \in Nat /\ l \in Nat
        BY <1>4, <1>5, <1>6
      <4>2. m + n <= l /\ m + n >= l
        BY <1>4, <1>9, <2>2
      <4> QED
        BY <4>1, <4>2
    <3> QED
      BY <1>4, <1>8, <1>9, <1>10, <2>2, <3>1 DEF Taking, l
  <2> QED
    BY <2>1, <2>2
<1> QED
  BY <1>2, <1>8, <1>11 DEF Reads

\* A task that gets tokens of its body goes on reading it (as u), or is done.
LEMMA ReceiveBodyTakes ==
  ASSUME Full, InputInv, ReceiveBody
  PROVE  LET c == Me.socket IN
         /\ pc = "http" /\ Task.state = "RECV_BODY_STATE"
         /\ script' = script /\ net' = net /\ proc' = proc
         /\ \E p, u :
              /\ connection_list' = [connection_list EXCEPT ![cur] = p]
              /\ p.socket = c /\ p.sending_buffer = Me.sending_buffer
              /\ p.http_task.state \in TakesBody /\ p.http_task.own = Task.own
              /\ Reads(script, proc, c, p.http_task, p.receiving_buffer, net[c])
              /\ u.state = "RECV_BODY_STATE" /\ u.own = Task.own /\ Len(u.post_body) \in Nat
              /\ Reads(script, proc, c, u, p.receiving_buffer, net[c])
              /\ p.http_task.state = "CHECK_CGI" => Len(u.post_body) = u.body_bytes_num
<1> DEFINE c == Me.socket
           S == PieceOf(script, c)
           b == Me.receiving_buffer
           have == Task.post_body
           n == Least(Len(b), Task.body_bytes_num - Len(have))
           body == have \o Take(b, n)
           more == [Task EXCEPT !.post_body = body]
           done == [more EXCEPT !.state = "CHECK_CGI"]
           p == [Me EXCEPT !.receiving_buffer = Drop(@, n),
                           !.http_task.post_body = @ \o Take(Me.receiving_buffer, n)]
           q == [p EXCEPT !.http_task.state = "CHECK_CGI"]
           G(v, u) ==
             /\ connection_list' = [connection_list EXCEPT ![cur] = v]
             /\ v.socket = c /\ v.sending_buffer = Me.sending_buffer
             /\ v.http_task.state \in TakesBody /\ v.http_task.own = Task.own
             /\ Reads(script, proc, c, v.http_task, v.receiving_buffer, net[c])
             /\ u.state = "RECV_BODY_STATE" /\ u.own = Task.own /\ Len(u.post_body) \in Nat
             /\ Reads(script, proc, c, u, v.receiving_buffer, net[c])
             /\ v.http_task.state = "CHECK_CGI" => Len(u.post_body) = u.body_bytes_num
<1>1. /\ pc = "http" /\ Task.state = "RECV_BODY_STATE"
      /\ \/ connection_list' = [connection_list EXCEPT ![cur] = p]
         \/ /\ connection_list' = [connection_list EXCEPT ![cur] = q]
            /\ ~(Len(p.http_task.post_body) < Task.body_bytes_num)
      /\ script' = script /\ net' = net /\ proc' = proc
  BY DEF ReceiveBody, InHandler, Return, world
<1>2. /\ DOMAIN Me = PeerFields /\ Task = Me.http_task /\ DOMAIN Task = TaskFields
      /\ cur \in Slot /\ Me = connection_list[cur] /\ c # NULL
      /\ TaskTyped(script, Task)
  BY <1>1, CurrentTyped
<1>3. /\ Reads(script, proc, c, Task, b, net[c])
      /\ b \in Seq(S) /\ net[c].inq \in Seq(S) /\ Len(script[c]) \in Nat
      /\ Task.own = <<c, Task.own[2]>> /\ Task.own[2] \in 1 .. Len(script[c])
  BY <1>1, <1>2, SlotOfClient DEF TakesBody
<1>4. /\ p.http_task = more /\ p.receiving_buffer = Drop(b, n) /\ p.socket = c
      /\ DOMAIN p = PeerFields /\ p.sending_buffer = Me.sending_buffer
  <2> HIDE DEF n
  <2> QED
    BY <1>2 DEF PeerFields
<1>5. /\ have \in Seq(Piece(script)) /\ Task.body_bytes_num \in Nat
      /\ Len(have) <= Task.body_bytes_num
  BY <1>1, <1>2 DEF TaskTyped
<1> HIDE DEF p, b, have, c, S, G
<1>6. n \in 0 .. Len(b) /\ Len(have) + n <= Task.body_bytes_num /\ Len(have) \in Nat
  BY <1>3, <1>5, FitType, LenProperties
<1> HIDE DEF n, body
<1>7. /\ more.state = "RECV_BODY_STATE" /\ more.own = Task.own
      /\ more.body_bytes_num = Task.body_bytes_num /\ more.post_body = body
      /\ DOMAIN more = TaskFields
  BY <1>1, <1>2 DEF TaskFields
<1> HIDE DEF more
<1>8. /\ done.state = "CHECK_CGI" /\ done.own = Task.own
      /\ done.body_bytes_num = Task.body_bytes_num /\ done.post_body = body
  BY <1>7 DEF TaskFields
<1>9. q.http_task = done /\ q.receiving_buffer = Drop(b, n) /\ q.socket = c
      /\ q.sending_buffer = Me.sending_buffer
  BY <1>4 DEF PeerFields
<1> HIDE DEF q, done
<1>10. \A u : /\ u.own = Task.own /\ u.body_bytes_num = Task.body_bytes_num
              /\ u.post_body = body
              /\ \/ u.state = "RECV_BODY_STATE"
                 \/ u.state = "CHECK_CGI" /\ Len(u.post_body) >= Task.body_bytes_num
              => Reads(script, proc, c, u, Drop(b, n), net[c])
  BY <1>1, <1>3, <1>6, BodyTaken DEF body, have
<1>11. Reads(script, proc, c, more, Drop(b, n), net[c])
  BY <1>7, <1>10
<1>12. Len(body) \in Nat /\ Len(body) <= Task.body_bytes_num
  <2>1. Take(b, n) \in Seq(S) /\ Len(Take(b, n)) = n
    BY <1>3, <1>6, TakeType
  <2>2. Take(b, n) \in Seq(Piece(script))
    BY <2>1, ClientPieces DEF S
  <2>3. Len(body) = Len(have) + n
    BY <1>5, <2>1, <2>2, ConcatProperties DEF body
  <2> QED
    BY <1>6, <2>3
<1>13. ASSUME connection_list' = [connection_list EXCEPT ![cur] = p] PROVE \E v, u : G(v, u)
  <2>1. G(p, more)
    BY <1>4, <1>7, <1>11, <1>12, <1>13 DEF G, TakesBody
  <2> QED
    BY <2>1
<1>14. ASSUME connection_list' = [connection_list EXCEPT ![cur] = q],
              ~(Len(p.http_task.post_body) < Task.body_bytes_num)
       PROVE  \E v, u : G(v, u)
  <2>1. Len(body) >= Task.body_bytes_num
    BY <1>4, <1>5, <1>7, <1>12, <1>14
  <2>2. Reads(script, proc, c, done, Drop(b, n), net[c])
    BY <1>8, <1>10, <2>1
  <2>3. Len(body) = Task.body_bytes_num
    BY <1>5, <1>12, <2>1
  <2>4. G(q, more)
    BY <1>7, <1>8, <1>9, <1>11, <1>12, <1>14, <2>2, <2>3 DEF G, TakesBody
  <2> QED
    BY <2>4
<1>15. \E v, u : G(v, u)
  BY <1>1, <1>13, <1>14
<1> QED
  BY <1>1, <1>15 DEF G, c

LEMMA ReceiveBodyReads ==
  ASSUME Full, InputInv, ReceiveBody PROVE InputInv'
<1> DEFINE c == Me.socket
<1>1. /\ pc = "http" /\ script' = script /\ net' = net /\ proc' = proc
      /\ \E p, u :
           /\ connection_list' = [connection_list EXCEPT ![cur] = p] /\ p.socket = c
           /\ Reads(script, proc, c, p.http_task, p.receiving_buffer, net[c])
  BY ReceiveBodyTakes
<1>2. PICK p :
        /\ connection_list' = [connection_list EXCEPT ![cur] = p] /\ p.socket = c
        /\ Reads(script, proc, c, p.http_task, p.receiving_buffer, net[c])
  BY <1>1
<1> HIDE DEF c
<1> QED
  BY <1>1, <1>2, HandlerReads

LEMMA GenerateHeaderReads ==
  ASSUME Full, InputInv, GenerateHeader PROVE InputInv'
<1> DEFINE new == [Task EXCEPT
             !.response_buf = @ \o NonBodyResponse(Task.own, Task.response_code),
             !.state = "SEND_HEADER_STATE"]
           p == [Me EXCEPT !.http_task = new]
<1>1. /\ connection_list' = [connection_list EXCEPT ![cur].http_task = new]
      /\ script' = script /\ net' = net /\ proc' = proc
  BY DEF GenerateHeader, Continue, world
<1>2. DOMAIN Me = PeerFields /\ DOMAIN Task = TaskFields
  BY CurrentTyped
<1>3. new.state = "SEND_HEADER_STATE"
  BY <1>2 DEF TaskFields
<1> HIDE DEF new
<1>4. /\ p.socket = Me.socket /\ p.receiving_buffer = Me.receiving_buffer
      /\ p.http_task = new
  BY <1>2 DEF PeerFields
<1>5. connection_list' = [connection_list EXCEPT ![cur] = p]
  BY <1>1 DEF Me
<1> HIDE DEF p
<1> QED
  BY <1>1, <1>3, <1>4, <1>5, HandlerReadsOn DEF TakesBody, Held

LEMMA SendHeaderReads ==
  ASSUME Full, InputInv, SendHeader PROVE InputInv'
<1> DEFINE n == Least(Len(Task.response_buf), Room(Me.sending_buffer))
           sent == Me.sending_buffer \o Take(Task.response_buf, n)
           rest == Drop(Task.response_buf, Least(Len(Task.response_buf), n + 1))
           new == [Task EXCEPT !.response_buf = rest, !.state = AfterHeader(Task)]
           p == [Me EXCEPT
                   !.sending_buffer = @ \o Take(Task.response_buf, n),
                   !.http_task.response_buf = Drop(@, Least(Len(@), n + 1)),
                   !.http_task.state = AfterHeader(Task)]
<1>1. /\ connection_list' = [connection_list EXCEPT ![cur] = p]
      /\ script' = script /\ net' = net /\ proc' = proc
  BY DEF SendHeader, world
<1>2. DOMAIN Me = PeerFields /\ DOMAIN Task = TaskFields /\ Task = Me.http_task
  BY CurrentTyped
<1> HIDE DEF n
<1>3. p.socket = Me.socket /\ p.receiving_buffer = Me.receiving_buffer /\ p.http_task = new
  BY <1>2 DEF PeerFields
<1>4. new.state = AfterHeader(Task)
  BY <1>2 DEF TaskFields
<1>5. new.state \notin TakesBody /\ Held(new) = <<>>
  BY <1>4 DEF AfterHeader, TakesBody, Held
<1> HIDE DEF p, new
<1> QED
  BY <1>1, <1>3, <1>5, HandlerReadsOn

\* Two slots serve two clients.
LEMMA TwoClients ==
  ASSUME Full, NEW s \in Slot, NEW t \in Slot, s # t, connection_list[s].socket # NULL
  PROVE  /\ connection_list[s].socket \in Client
         /\ connection_list[s].socket # connection_list[t].socket
<1>1. connection_list[s].socket \in Client
  BY DEF Full, IInv, SlotInv, Sockets
<1> QED
  BY <1>1 DEF Full, IInv, SlotInv, SlotsMatchConnections, Peer

LEMMA CheckStaticReads ==
  ASSUME Full, InputInv, CheckStatic PROVE InputInv'
<1> DEFINE new == IF IsRead THEN StaticGet
                  ELSE [Task EXCEPT !.response_code = 200, !.state = "GENERATE_HEADER_STATE"]
           p == [Me EXCEPT !.http_task = new]
<1>1. /\ connection_list' = [connection_list EXCEPT ![cur].http_task = new]
      /\ script' = script /\ net' = net /\ proc' = proc
  BY DEF CheckStatic
<1>2. DOMAIN Me = PeerFields /\ DOMAIN Task = TaskFields
  BY CurrentTyped
<1>3. new.state \in {"GENERATE_HEADER_STATE", "SEND_HEADER_STATE"}
  <2>1. CASE ~IsRead
    <3>1. new = [Task EXCEPT !.response_code = 200, !.state = "GENERATE_HEADER_STATE"]
      BY <2>1
    <3> QED
      BY <1>2, <3>1 DEF TaskFields
  <2>2. CASE IsRead
    <3>1. new = StaticGet
      BY <2>2
    <3> HIDE DEF new
    <3>2. \A x, y, z : /\ [Task EXCEPT !.response_code = 404, !.state = x].state = x
                       /\ [Task EXCEPT !.response_buf = y, !.response_code = 200, !.fp = z,
                                       !.state = x].state = x
                       /\ [Task EXCEPT !.response_buf = y, !.response_code = 500,
                                       !.state = x].state = x
      BY <1>2 DEF TaskFields
    <3> QED
      BY <3>1, <3>2 DEF StaticGet
  <2> QED
    BY <2>1, <2>2
<1> HIDE DEF new
<1>4. /\ p.socket = Me.socket /\ p.receiving_buffer = Me.receiving_buffer
      /\ p.http_task = new
  BY <1>2 DEF PeerFields
<1>5. connection_list' = [connection_list EXCEPT ![cur] = p]
  BY <1>1 DEF Me
<1> HIDE DEF p
<1> QED
  BY <1>1, <1>3, <1>4, <1>5, HandlerReadsOn DEF TakesBody, Held

LEMMA SendBodyReads ==
  ASSUME Full, InputInv, SendBody PROVE InputInv'
<1> DEFINE f == Task.fp
           file == FileStream(f.of)
           n == Least(Len(file) - f.pos, Room(Me.sending_buffer))
           part == SubSeq(file, f.pos + 1, f.pos + n)
           more == [Task EXCEPT !.fp.pos = @ + n]
           done == [more EXCEPT !.state = "FINISHED_STATE"]
           p == [Me EXCEPT !.sending_buffer = @ \o SubSeq(file, f.pos + 1, f.pos + n),
                           !.http_task.fp.pos = @ + n]
           q == [p EXCEPT !.http_task.state = "FINISHED_STATE"]
<1>1. /\ Task.state = "SEND_BODY_STATE"
      /\ \/ connection_list' = [connection_list EXCEPT ![cur] = p]
         \/ connection_list' = [connection_list EXCEPT ![cur] = q]
      /\ script' = script /\ net' = net /\ proc' = proc
  BY DEF SendBody, InHandler, Return
<1>2. DOMAIN Me = PeerFields /\ DOMAIN Task = TaskFields /\ Task = Me.http_task
  BY CurrentTyped
<1> HIDE DEF n, file, f
<1>3. /\ p.socket = Me.socket /\ p.receiving_buffer = Me.receiving_buffer
      /\ p.http_task = more /\ DOMAIN p = PeerFields
  BY <1>2 DEF PeerFields
<1> HIDE DEF p
<1>4. more.state = "SEND_BODY_STATE" /\ DOMAIN more = TaskFields
  BY <1>1, <1>2 DEF TaskFields
<1> HIDE DEF more
<1>5. done.state = "FINISHED_STATE"
  BY <1>4 DEF TaskFields
<1>6. q.socket = Me.socket /\ q.receiving_buffer = Me.receiving_buffer /\ q.http_task = done
  BY <1>3 DEF PeerFields
<1> HIDE DEF q, done
<1> QED
  BY <1>1, <1>3, <1>4, <1>5, <1>6, HandlerReadsOn DEF TakesBody, Held

LEMMA FinishReads ==
  ASSUME Full, InputInv, Finish PROVE InputInv'
<1> DEFINE new == reset_http_task(Task)
           p == [Me EXCEPT !.http_task = new]
<1>1. /\ connection_list' = [connection_list EXCEPT ![cur] = p]
      /\ script' = script /\ net' = net /\ proc' = proc
  BY DEF Finish, Return, reset_http_task, FreshTask, world
<1>2. DOMAIN Me = PeerFields
  BY CurrentTyped
<1>3. new.state = "RECV_HEADER_STATE" /\ new.parse_buf = <<>>
  BY DEF reset_http_task, FreshTask
<1> HIDE DEF new
<1>4. /\ p.socket = Me.socket /\ p.receiving_buffer = Me.receiving_buffer
      /\ p.http_task = new
  BY <1>2 DEF PeerFields
<1> HIDE DEF p
<1> QED
  BY <1>1, <1>3, <1>4, HandlerReadsOn DEF TakesBody, Held

\* The script of a request is started once the task is behind the request.
LEMMA CheckCgiReads ==
  ASSUME Full, InputInv, CheckCgi PROVE InputInv'
<1> DEFINE own == Task.own
           c == Me.socket
           k == net[c]
           S == PieceOf(script, c)
           new == [Task EXCEPT !.state = "PROCESSING_CGI"]
<1>1. /\ pc = "http" /\ Task.state = "CHECK_CGI" /\ script' = script /\ net' = net
  BY DEF CheckCgi, InHandler
<1>2. PICK a \in ExecAddr :
        /\ start_CGI_script(a, IF Wanted.method = "POST" THEN Task.post_body ELSE <<>>)
        /\ Return([Me EXCEPT !.cgi_executor = a, !.http_task.state = "PROCESSING_CGI"],
                  IF Task.last_request THEN "CLOSE_CONN" ELSE "KEEP_CONN")
  BY DEF CheckCgi
<1> DEFINE p == [Me EXCEPT !.cgi_executor = a, !.http_task.state = "PROCESSING_CGI"]
           q == [p EXCEPT !.close_conn = TRUE]
<1>3. \/ connection_list' = [connection_list EXCEPT ![cur] = p]
      \/ connection_list' = [connection_list EXCEPT ![cur] = q]
  BY <1>2 DEF Return
<1>4. /\ DOMAIN Me = PeerFields /\ Task = Me.http_task /\ DOMAIN Task = TaskFields
      /\ cur \in Slot /\ DOMAIN connection_list = Slot /\ Me = connection_list[cur]
      /\ c \in Client /\ c # NULL
  BY <1>1, CurrentTyped
<1>5. /\ p.socket = c /\ p.receiving_buffer = Me.receiving_buffer /\ p.http_task = new
      /\ DOMAIN p = PeerFields
  BY <1>4 DEF PeerFields
<1>6. new.state = "PROCESSING_CGI"
  BY <1>4 DEF TaskFields
<1> HIDE DEF p, new
<1>7. q.socket = c /\ q.receiving_buffer = Me.receiving_buffer /\ q.http_task = new
  BY <1>5 DEF PeerFields
<1> HIDE DEF q
<1>8. PICK x : /\ connection_list' = [connection_list EXCEPT ![cur] = x]
               /\ x.socket = c /\ x.receiving_buffer = Me.receiving_buffer
               /\ x.http_task = new
  BY <1>3, <1>5, <1>7
<1>9. /\ Reads(script, proc, c, Task, Me.receiving_buffer, k)
      /\ Held(Task) \in Seq(S) /\ Me.receiving_buffer \in Seq(S) /\ k.inq \in Seq(S)
      /\ Len(script[c]) \in Nat /\ own \in Asked(script) /\ own = <<c, own[2]>>
      /\ own[2] \in 1 .. Len(script[c]) /\ k.conn = "open"
  BY <1>1, <1>4, SlotOfClient DEF TakesBody
<1> DEFINE u == Unread(Task, Me.receiving_buffer, k.inq)
<1>10. Taking(script, proc, Task, k, u)
  BY <1>1, <1>9 DEF Reads, TakesBody
<1>11. \A r \in Asked(script) : r # own => proc'[r] = proc[r]
  <2>1. DOMAIN proc = Asked(script)
    BY DEF Full, Typed, ProcTyped
  <2> QED
    BY <1>2, <2>1 DEF start_CGI_script
<1>12. \A d \in Client : d # c => KeepsStarts(script, proc, proc', d)
  <2> SUFFICES ASSUME NEW d \in Client, d # c, NEW j \in 1 .. Len(script[d])
               PROVE  proc'[<<d, j>>] = proc[<<d, j>>]
    BY DEF KeepsStarts
  <2>1. <<d, j>> \in Asked(script)
    BY DEF Asked
  <2>2. <<d, j>> # own
    BY <1>9
  <2> QED
    BY <1>11, <2>1, <2>2
<1>13. Reads(script, proc', c, new, Me.receiving_buffer, k)
  <2>1. Reads(script, proc, c, new, Me.receiving_buffer, k)
    BY <1>6, <1>9, ReadsOn DEF TakesBody, Held
  <2>2. Unread(new, Me.receiving_buffer, k.inq) = u
    BY <1>1, <1>6 DEF Unread, Held
  <2>3. NotStarted(script, proc', c, From(k, u))
    <3>1. u \in Seq(S)
      <4>1. Held(Task) \o Me.receiving_buffer \in Seq(S)
        BY <1>9
      <4> HIDE DEF S
      <4> QED
        BY <1>9, <4>1 DEF Unread
    <3>2. Flow(script, c, k, u) /\ NotStarted(script, proc, c, From(k, u))
      BY <1>9 DEF Reads
    <3> HIDE DEF u, S
    <3>3. From(k, u)[1] \in Int /\ From(k, u)[2] \in Int /\ From(k, u)[2] >= 1
      BY <1>9, <3>1, <3>2, FromType
    <3>4. Before(<<own[2], 1>>, From(k, u))
      BY <1>10 DEF Taking
    <3> SUFFICES ASSUME NEW j \in 1 .. Len(script[c]),
                        From(k, u)[1] < j \/ (From(k, u)[1] = j /\ From(k, u)[2] = 1)
                 PROVE  proc'[<<c, j>>].st = "none"
      BY DEF NotStarted
    <3>5. proc[<<c, j>>].st = "none"
      BY <3>2 DEF NotStarted
    <3>6. j # own[2]
      BY <1>9, <3>3, <3>4 DEF Before
    <3>7. <<c, j>> \in Asked(script) /\ <<c, j>> # own
      BY <1>4, <1>9, <3>6 DEF Asked
    <3> QED
      BY <1>11, <3>5, <3>7
  <2> HIDE DEF u
  <2> QED
    BY <1>6, <2>1, <2>2, <2>3 DEF Reads, TakesBody
<1>14. \A s \in Slot : connection_list'[s] = IF s = cur THEN x ELSE connection_list[s]
  BY <1>4, <1>8
<1>15. ASSUME NEW s \in Slot, s = cur PROVE SlotReads(s)'
  BY <1>1, <1>8, <1>13, <1>14, <1>15 DEF SlotReads
<1>16. \A s \in Slot : s # cur /\ connection_list[s].socket # NULL =>
         connection_list[s].socket \in Client /\ connection_list[s].socket # c
  BY <1>4, TwoClients
<1>17. \A d \in Client : net'[d].conn = "none" =>
         /\ net[d].conn = "none" /\ KeepsInput(net[d], net'[d])
         /\ KeepsStarts(script, proc, proc', d)
  BY <1>1, <1>9, <1>12 DEF KeepsInput
<1>18. \A s \in Slot : connection_list'[s].socket # NULL =>
           \/ SlotReads(s)'
           \/ /\ connection_list'[s].socket = connection_list[s].socket
              /\ connection_list'[s].http_task = connection_list[s].http_task
              /\ connection_list'[s].receiving_buffer = connection_list[s].receiving_buffer
              /\ KeepsInput(net[connection_list[s].socket], net'[connection_list[s].socket])
              /\ KeepsStarts(script, proc, proc', connection_list[s].socket)
  <2> TAKE s \in Slot
  <2>1. CASE s = cur
    BY <1>15, <2>1
  <2>2. CASE s # cur
    BY <1>1, <1>12, <1>14, <1>16, <2>2 DEF KeepsInput
  <2> QED
    BY <2>1, <2>2
<1> QED
  BY <1>1, <1>17, <1>18, InputStep
-----------------------------------------------------------------------------
(* The other steps of the server.                                          *)

\* The other slots, and who was not accepted, go on as before; k is the kernel
\* at the call.
LEMMA CloseReads ==
  ASSUME Full, InputInv, NEW k, Carries(k), \A c \in Client : KeepsInput(net[c], k[c]),
         close_client_connection(cur, k), script' = script, proc' = proc
  PROVE  InputInv'
<1>1. /\ cur \in Slot /\ DOMAIN connection_list = Slot /\ DOMAIN Me = PeerFields
      /\ Me = connection_list[cur]
  BY CurrentTyped
<1>2. /\ connection_list' = [connection_list EXCEPT ![cur] = Vacated(@)]
      /\ net' = IF Me.socket = NULL THEN k
                ELSE [k EXCEPT ![Me.socket].conn = "closed", ![Me.socket].inq = <<>>]
  BY DEF close_client_connection, Peer, Me, NO_SOCKET
<1>3. /\ connection_list'[cur].socket = NULL
      /\ \A s \in Slot : s # cur => connection_list'[s] = connection_list[s]
  BY <1>1, <1>2 DEF Vacated, PeerFields, NO_SOCKET
<1>4. \A d \in Client :
        /\ d = Me.socket => net'[d].conn = "closed"
        /\ d # Me.socket => net'[d] = k[d]
  <2>1. CASE Me.socket = NULL
    BY <1>2, <2>1, StateAssumption
  <2>2. CASE Me.socket # NULL
    BY <1>2, <2>2 DEF Carries, NetFields
  <2> QED
    BY <2>1, <2>2
<1>5. \A c : KeepsStarts(script, proc, proc', c)
  BY DEF KeepsStarts
<1>6. \A d \in Client : net'[d].conn = "none" =>
         /\ net[d].conn = "none" /\ KeepsInput(net[d], net'[d])
         /\ KeepsStarts(script, proc, proc', d)
  BY <1>4, <1>5 DEF Carries
<1>7. \A s \in Slot : connection_list'[s].socket # NULL =>
        /\ connection_list'[s] = connection_list[s]
        /\ KeepsInput(net[connection_list[s].socket], net'[connection_list[s].socket])
  <2> SUFFICES ASSUME NEW s \in Slot, connection_list'[s].socket # NULL
               PROVE  /\ connection_list'[s] = connection_list[s]
                      /\ KeepsInput(net[connection_list[s].socket], net'[connection_list[s].socket])
    OBVIOUS
  <2>1. s # cur /\ connection_list'[s] = connection_list[s]
    BY <1>3
  <2>2. connection_list[s].socket \in Client /\ connection_list[s].socket # Me.socket
    BY <1>1, <2>1, TwoClients
  <2> QED
    BY <1>4, <2>1, <2>2
<1> QED
  BY <1>5, <1>6, <1>7, InputStep

LEMMA SameKernel == ASSUME NEW k PROVE KeepsInput(k, k)
  BY DEF KeepsInput

\* send leaves what its client has sent.
LEMMA SentReads ==
  ASSUME Full PROVE \A c \in Client : KeepsInput(net[c], SentByKernel[c])
<1>1. \A c \in Client : DOMAIN net[c] = NetFields
  BY DEF Full, IInv, SlotInv, Shape
<1> QED
  BY <1>1 DEF SentByKernel, KeepsInput, NetFields

LEMMA CloseNowReads ==
  ASSUME Full, InputInv, close_client_connection(cur, net), script' = script, proc' = proc
  PROVE  InputInv'
  BY NetCarries, SameKernel, CloseReads

\* A step that leaves slots, connections and children as they are.
LEMMA InputStays ==
  ASSUME InputInv, UNCHANGED <<connection_list, script, net, proc>> PROVE InputInv'
  BY DEF InputInv, Unaccepted, SlotReads, Slot

LEMMA HandlerStepReads ==
  ASSUME Full, InputInv, Handler PROVE InputInv'
<1>1. ASSUME ReturnCloseNow PROVE InputInv'
  BY <1>1, CloseNowReads DEF ReturnCloseNow
<1>2. CASE HeaderTooLong \/ HeaderRefused
  BY <1>1, <1>2 DEF HeaderTooLong, HeaderRefused
<1>3. CASE SendBodyFails
  BY <1>1, <1>3, InputStays DEF SendBodyFails, peers, world
<1>4. CASE ProcessingCgi \/ HandlerDies
  BY <1>4, InputStays DEF ProcessingCgi, HandlerDies, Die, peers, world
<1> QED
  BY <1>2, <1>3, <1>4, HeaderIncompleteReads, HeaderParsedReads, ReceiveBodyReads,
     GenerateHeaderReads, SendHeaderReads, CheckStaticReads, CheckCgiReads, SendBodyReads,
     FinishReads DEF Handler

\* The current slot becomes p, which keeps what it reads; nothing is received
\* or started.
LEMMA SlotKeepsReads ==
  ASSUME Full, InputInv, NEW p, connection_list' = [connection_list EXCEPT ![cur] = p],
         p.socket = Me.socket, p.http_task = Me.http_task,
         p.receiving_buffer = Me.receiving_buffer, script' = script,
         \A c \in Client : net'[c].conn = net[c].conn /\ KeepsInput(net[c], net'[c]),
         \A c \in Client : KeepsStarts(script, proc, proc', c)
  PROVE  InputInv'
<1>1. cur \in Slot /\ DOMAIN connection_list = Slot /\ Me = connection_list[cur]
  BY CurrentTyped
<1>2. \A s \in Slot : connection_list'[s] = IF s = cur THEN p ELSE connection_list[s]
  BY <1>1
<1>3. \A s \in Slot : connection_list[s].socket # NULL => connection_list[s].socket \in Client
  BY DEF Full, IInv, SlotInv, Sockets
<1>4. \A s \in Slot : connection_list'[s].socket # NULL =>
        /\ connection_list'[s].socket = connection_list[s].socket
        /\ connection_list'[s].http_task = connection_list[s].http_task
        /\ connection_list'[s].receiving_buffer = connection_list[s].receiving_buffer
        /\ KeepsInput(net[connection_list[s].socket], net'[connection_list[s].socket])
        /\ KeepsStarts(script, proc, proc', connection_list[s].socket)
  BY <1>1, <1>2, <1>3
<1> QED
  BY <1>4, InputStep

\* A child that was started stays started.
LEMMA StartsStay ==
  ASSUME Full, NEW r \in Asked(script), NEW v, v.st = "none" <=> proc[r].st = "none",
         proc' = [proc EXCEPT ![r] = v]
  PROVE  \A c \in Client : KeepsStarts(script, proc, proc', c)
<1>1. DOMAIN proc = Asked(script)
  BY DEF Full, Typed, ProcTyped
<1>2. \A x \in Asked(script) : proc'[x].st = "none" <=> proc[x].st = "none"
  BY <1>1
<1>3. \A c \in Client : \A j \in 1 .. Len(script[c]) : <<c, j>> \in Asked(script)
  BY DEF Asked
<1> QED
  BY <1>2, <1>3 DEF KeepsStarts

LEMMA CgiWriteReads == ASSUME Full, InputInv, CgiWrite PROVE InputInv'
<1>1. Me.cgi_executor # NULL /\ script' = script
  BY DEF CgiWrite
<1>2. CASE UNCHANGED <<connection_list, net, proc>>
  BY <1>1, <1>2, InputStays
<1>3. CASE close_client_connection(cur, net) /\ proc' = proc
  BY <1>1, <1>3, CloseNowReads
<1>4. CASE UNCHANGED <<connection_list, net>> /\ SendToCGI /\ proc' # proc
  <2> DEFINE r == Executor.pid
  <2>1. r \in Asked(script) /\ DOMAIN proc[r] = ProcFields
    BY <1>1, ChildOfSlot
  <2>2. PICK n : proc' = [proc EXCEPT ![r].stdin = @ \o Take(Executor.cgi_buffer, n)]
    BY <1>4 DEF SendToCGI
  <2> DEFINE v == [proc[r] EXCEPT !.stdin = @ \o Take(Executor.cgi_buffer, n)]
  <2>3. v.st = proc[r].st
    BY <2>1 DEF ProcFields
  <2>4. proc' = [proc EXCEPT ![r] = v]
    BY <2>2
  <2> HIDE DEF v, r
  <2>5. \A c \in Client : KeepsStarts(script, proc, proc', c)
    BY <2>1, <2>3, <2>4, StartsStay
  <2>6. \A s \in Slot : connection_list[s].socket # NULL => connection_list[s].socket \in Client
    BY DEF Full, IInv, SlotInv, Sockets
  <2> QED
    BY <1>1, <1>4, <2>5, <2>6, SameKernel, InputStep
<1> QED
  BY <1>2, <1>3, <1>4 DEF CgiWrite

LEMMA PipeOutputReads ==
  ASSUME Full, InputInv, PipeOutput, Me.cgi_executor # NULL, script' = script, net' = net
  PROVE  InputInv'
<1> DEFINE r == Executor.pid
           out == proc[r].stdout
           n == Least(Len(out), Room(Me.sending_buffer))
           v == [proc[r] EXCEPT !.stdout = Drop(out, n)]
           p == [Me EXCEPT !.sending_buffer = @ \o Take(out, n)]
<1>1. r \in Asked(script) /\ DOMAIN proc[r] = ProcFields
  BY ChildOfSlot
<1>2. DOMAIN Me = PeerFields
  BY CurrentTyped
<1>3. proc' = [proc EXCEPT ![r] = v] /\ connection_list' = [connection_list EXCEPT ![cur] = p]
  BY DEF PipeOutput, Me
<1> HIDE DEF n, out
<1>4. v.st = proc[r].st
  BY <1>1 DEF ProcFields
<1>5. /\ p.socket = Me.socket /\ p.http_task = Me.http_task
      /\ p.receiving_buffer = Me.receiving_buffer
  BY <1>2 DEF PeerFields
<1> HIDE DEF v, r, p
<1>6. \A c \in Client : KeepsStarts(script, proc, proc', c)
  BY <1>1, <1>3, <1>4, StartsStay
<1> QED
  BY <1>3, <1>5, <1>6, SameKernel, SlotKeepsReads

\* The end of a child's output ends a task, whatever it was reading.
LEMMA PipeEofReads ==
  ASSUME Full, InputInv, PipeEof, script' = script, net' = net PROVE InputInv'
<1> DEFINE new == [Task EXCEPT !.state = "FINISHED_STATE"]
           p == [Me EXCEPT !.cgi_executor = NULL, !.http_task.state = "FINISHED_STATE"]
<1>1. DOMAIN Me = PeerFields /\ DOMAIN Task = TaskFields /\ Task = Me.http_task
  BY CurrentTyped
<1>2. connection_list' = [connection_list EXCEPT ![cur] = p] /\ proc' = proc
  BY DEF PipeEof, Me
<1>3. /\ p.socket = Me.socket /\ p.http_task = new
      /\ p.receiving_buffer = Me.receiving_buffer
  BY <1>1 DEF PeerFields
<1>4. new.state = "FINISHED_STATE"
  BY <1>1 DEF TaskFields
<1> HIDE DEF p, new
<1> QED
  BY <1>2, <1>3, <1>4, HandlerReadsOn DEF TakesBody, Held

LEMMA CgiReadReads == ASSUME Full, InputInv, CgiRead PROVE InputInv'
<1>1. script' = script /\ net' = net
  BY DEF CgiRead
<1>2. Me.cgi_executor # NULL
  BY DEF CgiRead, Full, Typed, Control, Me
<1>3. CASE UNCHANGED <<connection_list, proc>>
  BY <1>1, <1>3, InputStays
<1> QED
  BY <1>1, <1>2, <1>3, PipeOutputReads, PipeEofReads DEF CgiRead, PipeFull

\* recv moves the front of the kernel's queue to the end of the buffer.
LEMMA RecvReads == ASSUME Full, InputInv, Recv PROVE InputInv'
<1>1. Me.socket # NULL /\ UNCHANGED <<script, proc>>
  BY DEF Recv, NO_SOCKET
<1>2. CASE UNCHANGED <<connection_list, net>>
  BY <1>1, <1>2, InputStays
<1>3. CASE ReceiveFromPeer
  <2> DEFINE c == Me.socket
             k == net[c]
             S == PieceOf(script, c)
             inq == k.inq
             old == Me.receiving_buffer
             n == Least(Len(inq), Room(old))
             x == Take(inq, n)
             y == Drop(inq, n)
             p == [Me EXCEPT !.receiving_buffer = old \o x]
             h == [k EXCEPT !.inq = y]
  <2>1. /\ cur \in Slot /\ DOMAIN connection_list = Slot /\ Me = connection_list[cur]
        /\ DOMAIN Me = PeerFields /\ SlotTyped(script, Me)
    BY CurrentTyped
  <2>2. /\ Reads(script, proc, c, Task, old, k)
        /\ Held(Task) \in Seq(S) /\ old \in Seq(S) /\ inq \in Seq(S)
        /\ c \in Client /\ k.conn = "open"
        /\ Task.state \in TakesBody =>
             Task.own[2] \in 1 .. Len(script[c]) /\ Task.own = <<c, Task.own[2]>>
    BY <1>1, <2>1, SlotOfClient DEF Task, Me
  <2>3. DOMAIN net = Client /\ DOMAIN k = NetFields
    BY <2>2 DEF Full, IInv, SlotInv, Shape
  <2>4. n \in 0 .. Len(inq)
    BY <2>1, <2>2, FitType, StateAssumption DEF Room, SlotTyped
  <2>5. x \in Seq(S) /\ Len(x) = n /\ y \in Seq(S)
    BY <2>2, <2>4, TakeType, DropType
  <2>6. /\ connection_list' = [connection_list EXCEPT ![cur] = p]
        /\ net' = [net EXCEPT ![c] = h]
    BY <1>3, <2>5 DEF ReceiveFromPeer, Me, Received
  <2>7. x \o y = inq
    BY <2>2, <2>4, TakeDrop
  <2> HIDE DEF x, y, n
  <2>8. h.inq = y /\ h.next = k.next /\ h.st = k.st /\ h.conn = "open"
    BY <2>2, <2>3 DEF NetFields
  <2>9. p.socket = c /\ p.http_task = Task /\ p.receiving_buffer = old \o x
    BY <2>1 DEF PeerFields, Task, Me
  <2> HIDE DEF p, h, k, old, inq
  <2>10. Unread(Task, old \o x, y) = Unread(Task, old, inq)
    <3> DEFINE d == Held(Task)
    <3>1. d \in Seq(S)
      BY <2>2
    <3> HIDE DEF d, S
    <3>2. Cat(Cat(d, Cat(old, x)), y) = Cat(Cat(d, old), Cat(x, y))
      BY <2>2, <2>5, <3>1, Moved
    <3>3. Cat(x, y) = inq
      BY <2>7 DEF Cat
    <3> QED
      BY <3>2, <3>3 DEF Cat, Unread, d
  <2>11. Reads(script, proc, c, Task, old \o x, h)
    <3>1. Unread(Task, old \o x, h.inq) = Unread(Task, old, k.inq)
      BY <2>8, <2>10 DEF inq
    <3>2. KeepsStarts(script, proc, proc, c)
      BY DEF KeepsStarts
    <3> DEFINE b == old \o x
    <3> HIDE DEF b
    <3> QED
      BY <2>2, <2>8, <3>1, <3>2, ReadsSame DEF b
  <2>12. /\ \A d \in Client : net'[d] = IF d = c THEN h ELSE net[d]
         /\ \A s \in Slot : connection_list'[s] = IF s = cur THEN p ELSE connection_list[s]
    BY <2>1, <2>2, <2>3, <2>6
  <2>13. \A d : KeepsStarts(script, proc, proc', d)
    BY <1>1 DEF KeepsStarts
  <2>14. ASSUME NEW s \in Slot, s = cur PROVE SlotReads(s)'
    BY <1>1, <2>2, <2>9, <2>11, <2>12, <2>14 DEF SlotReads
  <2>15. ASSUME NEW s \in Slot, connection_list'[s].socket # NULL, s # cur
         PROVE  /\ connection_list'[s] = connection_list[s]
                /\ KeepsInput(net[connection_list[s].socket], net'[connection_list[s].socket])
    <3>1. connection_list'[s] = connection_list[s]
      BY <2>12, <2>15
    <3>2. connection_list[s].socket \in Client /\ connection_list[s].socket # c
      BY <2>1, <2>15, <3>1, TwoClients DEF c
    <3> QED
      BY <2>12, <3>1, <3>2, SameKernel
  <2>16. \A d \in Client : net'[d].conn = "none" =>
           /\ net[d].conn = "none" /\ KeepsInput(net[d], net'[d])
           /\ KeepsStarts(script, proc, proc', d)
    BY <2>8, <2>12, <2>13, SameKernel
  <2>17. \A s \in Slot : connection_list'[s].socket # NULL =>
           \/ SlotReads(s)'
           \/ /\ connection_list'[s].socket = connection_list[s].socket
              /\ connection_list'[s].http_task = connection_list[s].http_task
              /\ connection_list'[s].receiving_buffer = connection_list[s].receiving_buffer
              /\ KeepsInput(net[connection_list[s].socket], net'[connection_list[s].socket])
              /\ KeepsStarts(script, proc, proc', connection_list[s].socket)
    <3> TAKE s \in Slot
    <3>1. CASE s = cur
      BY <2>14, <3>1
    <3>2. CASE s # cur
      BY <2>13, <2>15, <3>2
    <3> QED
      BY <3>1, <3>2
  <2> QED
    BY <1>1, <2>16, <2>17, InputStep
<1> QED
  BY <1>2, <1>3 DEF Recv

LEMMA SendReads == ASSUME Full, InputInv, Send PROVE InputInv'
<1>1. UNCHANGED <<script, proc>>
  BY DEF Send
<1>2. CASE UNCHANGED <<connection_list, net>>
  BY <1>1, <1>2, InputStays
<1>3. CASE SendToPeer
  <2> DEFINE p == [Me EXCEPT !.sending_buffer = Drop(@, Taken)]
  <2>1. connection_list' = [connection_list EXCEPT ![cur] = p] /\ net' = SentByKernel
    BY <1>3 DEF SendToPeer, Me
  <2>2. DOMAIN Me = PeerFields
    BY CurrentTyped
  <2>3. /\ p.socket = Me.socket /\ p.http_task = Me.http_task
        /\ p.receiving_buffer = Me.receiving_buffer
    BY <2>2 DEF PeerFields
  <2> HIDE DEF p
  <2>4. Me.socket # NULL
    BY DEF Send, Full, Typed, Control, Me
  <2>5. \A c \in Client : net'[c].conn = net[c].conn /\ KeepsInput(net[c], net'[c])
    BY <2>1, <2>4, SentCarries, SentReads DEF Carries
  <2>6. \A c \in Client : KeepsStarts(script, proc, proc', c)
    BY <1>1 DEF KeepsStarts
  <2> QED
    BY <1>1, <2>1, <2>3, <2>5, <2>6, SlotKeepsReads
<1> QED
  BY <1>2, <1>3 DEF Send

\* The client gets a fresh task, which reads what the client has said so far.
LEMMA AcceptedReads ==
  ASSUME Full, InputInv, NEW s \in Slot, NEW c \in Client, net[c].conn = "none",
         connection_list[s].socket = NULL,
         connection_list' = [connection_list EXCEPT
           ![s] = [@ EXCEPT !.socket = c, !.close_conn = FALSE, !.http_task = FreshTask]],
         net' = [net EXCEPT ![c].conn = "open"], UNCHANGED <<script, proc>>
  PROVE  InputInv'
<1> DEFINE old == connection_list[s]
           p == [old EXCEPT !.socket = c, !.close_conn = FALSE, !.http_task = FreshTask]
           k == net[c]
<1>1. /\ DOMAIN connection_list = Slot /\ DOMAIN old = PeerFields
      /\ DOMAIN net = Client /\ DOMAIN k = NetFields
  BY DEF Full, IInv, SlotInv, Shape
<1>2. /\ p.socket = c /\ p.http_task = FreshTask /\ p.receiving_buffer = old.receiving_buffer
  BY <1>1 DEF PeerFields
<1>3. old.receiving_buffer = <<>>
  <2>1. PieceOf(script, NULL) = {}
    BY StateAssumption DEF PieceOf, Piece, Asked
  <2>2. old.receiving_buffer \in Seq(PieceOf(script, NULL))
    BY DEF Full, Typed, SlotsTyped, SlotTyped
  <2> DEFINE b == old.receiving_buffer
  <2> HIDE DEF old
  <2>3. Len(b) \in Nat /\ (Len(b) # 0 => 1 \in 1 .. Len(b))
    BY <2>2, LenProperties
  <2>4. \A i \in 1 .. Len(b) : b[i] \in PieceOf(script, NULL)
    BY <2>2, ElementOfSeq
  <2> QED
    BY <2>1, <2>2, <2>3, <2>4, EmptySeq
<1>4. /\ \A t \in Slot : connection_list'[t] = IF t = s THEN p ELSE connection_list[t]
      /\ \A d \in Client :
           /\ net'[d].conn = IF d = c THEN "open" ELSE net[d].conn
           /\ net'[d].inq = net[d].inq /\ net'[d].st = net[d].st /\ net'[d].next = net[d].next
  BY <1>1 DEF Full, IInv, SlotInv, Shape, NetFields
<1> HIDE DEF p
<1>5. Reads(script, proc, c, FreshTask, <<>>, net'[c])
  <2>1. Unaccepted(c)
    BY DEF InputInv
  <2>2. Flow(script, c, k, k.inq) /\ \A j \in 1 .. Len(script[c]) : proc[<<c, j>>].st = "none"
    BY <2>1 DEF Unaccepted
  <2>3. FreshTask.state = "RECV_HEADER_STATE" /\ FreshTask.parse_buf = <<>>
    BY DEF FreshTask
  <2>4. Unread(FreshTask, <<>>, k.inq) = k.inq
    <3>1. k.inq \in Seq(PieceOf(script, c))
      BY DEF Full, Typed, NetTyped
    <3> QED
      BY <2>3, <3>1, ConcatEmptySeq DEF Unread, Held
  <2> DEFINE h == net'[c]
  <2>5. h.inq = k.inq /\ h.st = k.st /\ h.next = k.next
    BY <1>4
  <2> HIDE DEF k, h
  <2>6. Flow(script, c, h, k.inq)
    BY <2>2, <2>5 DEF Flow
  <2>7. NotStarted(script, proc, c, From(h, k.inq))
    BY <2>2 DEF NotStarted
  <2>8. Reads(script, proc, c, FreshTask, <<>>, h)
    BY <2>3, <2>4, <2>5, <2>6, <2>7 DEF Reads, TakesBody
  <2> QED
    BY <2>8 DEF h
<1>6. \A d : KeepsStarts(script, proc, proc', d)
  BY DEF KeepsStarts
<1>7. ASSUME NEW t \in Slot, t = s PROVE SlotReads(t)'
  BY <1>2, <1>3, <1>4, <1>5, <1>7 DEF SlotReads
<1>8. \A d \in Client : net'[d].conn = "none" =>
         /\ net[d].conn = "none" /\ KeepsInput(net[d], net'[d])
         /\ KeepsStarts(script, proc, proc', d)
  BY <1>4, <1>6 DEF KeepsInput
<1>9. \A t \in Slot : connection_list[t].socket # NULL => connection_list[t].socket \in Client
  BY DEF Full, IInv, SlotInv, Sockets
<1>10. \A t \in Slot : connection_list'[t].socket # NULL =>
           \/ SlotReads(t)'
           \/ /\ connection_list'[t].socket = connection_list[t].socket
              /\ connection_list'[t].http_task = connection_list[t].http_task
              /\ connection_list'[t].receiving_buffer = connection_list[t].receiving_buffer
              /\ KeepsInput(net[connection_list[t].socket], net'[connection_list[t].socket])
              /\ KeepsStarts(script, proc, proc', connection_list[t].socket)
  <2> TAKE t \in Slot
  <2>1. CASE t = s
    BY <1>7, <2>1
  <2>2. CASE t # s
    BY <1>4, <1>6, <1>9, <2>2 DEF KeepsInput
  <2> QED
    BY <2>1, <2>2
<1> QED
  BY <1>8, <1>10, InputStep

\* Clients of the kernel that are refused, or closed with their slot, read
\* nothing any more.
LEMMA RefusedReads ==
  ASSUME Full, InputInv, UNCHANGED <<connection_list, script, proc>>,
         \A d \in Client :
           \/ net'[d] = net[d]
           \/ net[d].conn = "none" /\ net'[d].conn \notin {"none", "open"}
  PROVE  InputInv'
<1>1. \A d : KeepsStarts(script, proc, proc', d)
  BY DEF KeepsStarts
<1>2. ASSUME NEW t \in Slot, connection_list[t].socket # NULL
      PROVE  KeepsInput(net[connection_list[t].socket], net'[connection_list[t].socket])
  <2>1. connection_list[t].socket \in Client /\ net[connection_list[t].socket].conn = "open"
    BY <1>2, SlotOfClient
  <2> QED
    BY <2>1, SameKernel
<1>3. \A d \in Client : net'[d].conn = "none" =>
         /\ net[d].conn = "none" /\ KeepsInput(net[d], net'[d])
         /\ KeepsStarts(script, proc, proc', d)
  BY <1>1, SameKernel
<1> QED
  BY <1>1, <1>2, <1>3, InputStep

LEMMA AcceptReads == ASSUME Full, InputInv, Accept PROVE InputInv'
<1>1. pc = "accept" /\ UNCHANGED <<script, proc>>
  BY DEF Accept
<1>2. CASE UNCHANGED <<connection_list, net>>
  BY <1>1, <1>2, InputStays
<1>3. CASE ListenFd \in rfds /\ handle_new_connection /\ ~UNCHANGED <<connection_list, net>>
  <2> DEFINE c == Head(backlog)
  <2>1. backlog \in Seq(Client) /\ backlog # <<>>
    BY <1>1, <1>3 DEF Full, IInv, SlotInv, BacklogInv, AcceptInv
  <2>2. c \in Client /\ net[c].conn = "none"
    <3>1. c = backlog[1] /\ 1 \in 1 .. Len(backlog) /\ c \in Client
      BY <2>1
    <3> QED
      BY <3>1 DEF Full, IInv, SlotInv, BacklogInv
  <2> HIDE DEF c
  <2>3. CASE \E s \in Slot :
               /\ connection_list[s].socket = NULL
               /\ connection_list' = [connection_list EXCEPT
                    ![s] = [@ EXCEPT !.socket = c, !.close_conn = FALSE,
                                     !.http_task = FreshTask]]
               /\ net' = [net EXCEPT ![c].conn = "open"]
    BY <1>1, <2>2, <2>3, AcceptedReads
  <2>4. CASE /\ net' = [net EXCEPT ![c].conn = "refused", ![c].inq = <<>>]
             /\ connection_list' = connection_list
    <3>1. \A d \in Client :
            \/ net'[d] = net[d]
            \/ net[d].conn = "none" /\ net'[d].conn \notin {"none", "open"}
      BY <2>2, <2>4 DEF Full, IInv, SlotInv, Shape, NetFields
    <3> QED
      BY <1>1, <2>4, <3>1, RefusedReads
  <2> QED
    BY <1>3, <2>3, <2>4 DEF handle_new_connection, Peer, NO_SOCKET, c
<1> QED
  BY <1>2, <1>3 DEF Accept

LEMMA ServerStepReads == ASSUME Full, InputInv, ServerStep PROVE InputInv'
<1>1. CASE Select \/ SelectDies \/ NoCgi \/ CgiDies \/ SkipSlot
  BY <1>1, InputStays DEF Select, SelectDies, NoCgi, CgiDies, SkipSlot, Die, peers, world
<1>2. CASE RecvCloses
  BY <1>2, CloseNowReads DEF RecvCloses, CloseSlot
<1>3. CASE SendCloses
  <2>1. Me.socket # NULL /\ CloseSlot(SentByKernel)
    BY <1>3 DEF SendCloses, Full, Typed, Control, Me
  <2> QED
    BY <2>1, SentCarries, SentReads, CloseReads DEF CloseSlot
<1> QED
  BY <1>1, <1>2, <1>3, AcceptReads, CgiWriteReads, CgiReadReads, RecvReads, SendReads,
     HandlerStepReads DEF ServerStep
-----------------------------------------------------------------------------
(* Signals and the environment.                                            *)

LEMMA ShutdownReads == ASSUME Full, InputInv, Shutdown PROVE InputInv'
<1> DEFINE gone == {s \in Slot : Peer(s).socket # NO_SOCKET}
<1>1. /\ connection_list' =
           [s \in Slot |-> IF s \in gone THEN Vacated(Peer(s)) ELSE Peer(s)]
      /\ net' = [c \in Client |->
                   IF \E s \in gone : Peer(s).socket = c
                     THEN [net[c] EXCEPT !.conn = "closed", !.inq = <<>>]
                   ELSE IF Waiting(c) THEN [net[c] EXCEPT !.conn = "refused", !.inq = <<>>]
                   ELSE net[c]]
      /\ UNCHANGED <<script, proc>>
  BY DEF Shutdown, ShutdownOf
<1> HIDE DEF gone
<1>2. ASSUME NEW s \in Slot PROVE connection_list'[s].socket = NULL
  <2>1. DOMAIN Peer(s) = PeerFields
    BY DEF Full, IInv, SlotInv, Shape, Peer
  <2>2. CASE s \in gone
    BY <1>1, <2>1, <2>2 DEF Vacated, PeerFields, NO_SOCKET
  <2>3. CASE s \notin gone
    BY <1>1, <2>3 DEF gone, NO_SOCKET
  <2> QED
    BY <2>2, <2>3
<1>3. ASSUME NEW d \in Client, net'[d].conn = "none" PROVE net'[d] = net[d]
  <2>1. DOMAIN net[d] = NetFields
    BY DEF Full, IInv, SlotInv, Shape
  <2>2. \A v : [net[d] EXCEPT !.conn = v, !.inq = <<>>].conn = v
    BY <2>1 DEF NetFields
  <2> QED
    BY <1>1, <1>3, <2>2
<1>4. \A d : KeepsStarts(script, proc, proc', d)
  BY <1>1 DEF KeepsStarts
<1>5. \A d \in Client : net'[d].conn = "none" =>
         /\ net[d].conn = "none" /\ KeepsInput(net[d], net'[d])
         /\ KeepsStarts(script, proc, proc', d)
  <2> TAKE d \in Client
  <2> HAVE net'[d].conn = "none"
  <2>1. net'[d] = net[d]
    BY <1>3
  <2> QED
    BY <1>4, <2>1, SameKernel
<1> QED
  BY <1>1, <1>2, <1>5, InputStep

\* Client c changes its end of the connection, no other one does.
LEMMA ClientReads ==
  ASSUME InputInv, NEW c \in Client, UNCHANGED <<connection_list, script, proc>>,
         \A d \in Client : d # c => net'[d] = net[d],
         Unaccepted(c)', \A s \in Slot : connection_list[s].socket = c => SlotReads(s)',
         \A s \in Slot : connection_list[s].socket # NULL => connection_list[s].socket \in Client
  PROVE  InputInv'
<1>1. ASSUME NEW d \in Client PROVE Unaccepted(d)'
  BY DEF InputInv, Unaccepted
<1>2. ASSUME NEW s \in Slot PROVE SlotReads(s)'
  BY DEF InputInv, SlotReads
<1> QED
  BY <1>1, <1>2 DEF InputInv, Slot

LEMMA AppendLast ==
  ASSUME NEW S, NEW p \in Seq(S), NEW q \in Seq(S), NEW t \in S
  PROVE  p \o Append(q, t) = Append(p \o q, t)
<1> DEFINE a == p \o Append(q, t)
           b == Append(p \o q, t)
<1>1. a \in Seq(S) /\ b \in Seq(S) /\ Len(a) = Len(b)
  OBVIOUS
<1>2. ASSUME NEW i \in 1 .. Len(a) PROVE a[i] = b[i]
  OBVIOUS
<1> QED
  BY <1>1, <1>2, SeqEqual

\* A task reads on when its client has said one token more.
LEMMA ReadsMore ==
  ASSUME NEW S, NEW sc, NEW pr, NEW c, NEW t, NEW buf \in Seq(S), NEW k, NEW h, NEW tok \in S,
         k.inq \in Seq(S), Held(t) \in Seq(S),
         Reads(sc, pr, c, t, buf, k), k.st # "gone", h.st = k.st, HasToken(sc, c, k.next),
         tok = At(c, k.next), h.next = After(sc, c, k.next), h.inq = Append(k.inq, tok)
  PROVE  Reads(sc, pr, c, t, buf, h)
<1> DEFINE hb == Held(t) \o buf
           q == hb \o k.inq
           d == Append(q, tok)
<1>1. hb \in Seq(S) /\ q \in Seq(S)
  BY Joined
<1>2. Unread(t, buf, h.inq) = d
  <2> DEFINE z == k.inq
             b == hb
  <2>1. b \in Seq(S) /\ z \in Seq(S) /\ tok \in S
    BY <1>1
  <2> HIDE DEF b, z
  <2>2. b \o Append(z, tok) = Append(b \o z, tok)
    BY <2>1, AppendLast
  <2> QED
    BY <2>2 DEF Unread, b, z
<1>3. /\ Flow(sc, c, k, q) /\ NotStarted(sc, pr, c, From(k, q))
      /\ t.state \in TakesBody => Taking(sc, pr, t, k, q)
  BY DEF Reads, Unread
<1> HIDE DEF q, hb
<1>4. Flow(sc, c, h, d) /\ From(h, d) = From(k, q)
  BY <1>1, <1>3, FlowAppend
<1>5. Certain(k, q)
  BY DEF Certain
<1> HIDE DEF d
<1>6. t.state \in TakesBody => Taking(sc, pr, t, h, d)
  BY <1>3, <1>4, <1>5 DEF Taking
<1> QED
  BY <1>2, <1>3, <1>4, <1>6 DEF Reads

LEMMA ClientSendReads ==
  ASSUME Full, InputInv, NEW c \in Client, ClientSend(c) PROVE InputInv'
<1> DEFINE k == net[c]
           h == net'[c]
           S == PieceOf(script, c)
           tok == RequestToken(c, k.next[1], k.next[2])
           nxt == IF k.next[2] < 2 + BodyLen(script[c][k.next[1]])
                    THEN <<k.next[1], k.next[2] + 1>> ELSE <<k.next[1] + 1, 1>>
<1>1. /\ UNCHANGED <<connection_list, script, proc>>
      /\ k.st = "on" /\ k.next[1] <= Len(script[c])
      /\ net' = [net EXCEPT ![c].inq = Append(@, tok), ![c].next = nxt]
  BY DEF ClientSend, UnchangedServer, peers, HasMore
<1>2. /\ k.inq \in Seq(S) /\ k.next \in (Nat \ {0}) \X Nat
      /\ DOMAIN net = Client /\ \A d \in Client : DOMAIN net[d] = NetFields
  BY DEF Full, Typed, NetTyped, IInv, SlotInv, Shape
<1>3. /\ k.next[1] \in Nat \ {0} /\ k.next[2] \in Nat /\ k.next = <<k.next[1], k.next[2]>>
  BY <1>2
<1>4. tok = At(c, k.next) /\ nxt = After(script, c, k.next)
  BY <1>3 DEF At, After, Size
<1> HIDE DEF tok, nxt
<1>5. /\ h.inq = Append(k.inq, tok) /\ h.next = nxt /\ h.st = k.st /\ h.conn = k.conn
      /\ \A d \in Client : d # c => net'[d] = net[d]
  BY <1>1, <1>2 DEF NetFields
<1>6. script[c] \in Seq(Request) /\ Len(script[c]) \in Nat /\ k.next[1] \in 1 .. Len(script[c])
  BY <1>1, <1>3, LenProperties DEF Full, Typed, ScriptTyped
<1>7. ASSUME NEW j \in 1 .. Len(script[c])
      PROVE  Size(script, c, j) \in Nat /\ Size(script, c, j) >= 2
  <2>1. script[c][j] \in Request
    BY <1>6, ElementOfSeq
  <2>2. script[c][j].length \in Int
    BY <2>1 DEF Request
  <2> QED
    BY <2>2 DEF Size, BodyLen, HasLength
<1>8. tok \in S
  <2>1. <<c, k.next[1]>> \in Asked(script)
    BY <1>6 DEF Asked
  <2> DEFINE x == k.next[1]
             y == k.next[2]
  <2> HIDE DEF x, y
  <2> QED
    BY <1>3, <2>1 DEF tok, RequestToken, Token, PieceOf, Piece, x, y
<1>9. k.next[1] # Len(script[c]) + 1
  BY <1>1, <1>3, <1>6
<1> HIDE DEF k, h, S
<1>10. Unaccepted(c)'
  <2>1. SUFFICES ASSUME h.conn = "none"
        PROVE  /\ Flow(script, c, h, h.inq)
               /\ \A j \in 1 .. Len(script[c]) : proc[<<c, j>>].st = "none"
    BY <1>1 DEF Unaccepted, h
  <2>2. Flow(script, c, k, k.inq) /\ \A j \in 1 .. Len(script[c]) : proc[<<c, j>>].st = "none"
    BY <1>5, <2>1 DEF InputInv, Unaccepted, k
  <2>3. HasToken(script, c, k.next)
    BY <1>3, <1>6, <1>7, <1>9, <2>2 DEF Flow, HasToken
  <2>4. Flow(script, c, h, Append(k.inq, tok))
    BY <1>1, <1>2, <1>4, <1>5, <1>8, <2>2, <2>3, FlowAppend
  <2> QED
    BY <1>5, <2>2, <2>4
<1>11. ASSUME NEW s \in Slot, connection_list[s].socket = c PROVE SlotReads(s)'
  <2> DEFINE t == connection_list[s].http_task
             b == connection_list[s].receiving_buffer
  <2>1. c # NULL
    BY StateAssumption
  <2>2. Reads(script, proc, c, t, b, k) /\ Held(t) \in Seq(S) /\ b \in Seq(S)
    BY <1>11, <2>1, SlotOfClient DEF k, S
  <2> HIDE DEF t, b
  <2>3. HasToken(script, c, k.next)
    BY <1>3, <1>6, <1>7, <1>9, <2>2 DEF Reads, Flow, HasToken
  <2>4. Reads(script, proc, c, t, b, h)
    BY <1>1, <1>2, <1>4, <1>5, <1>8, <2>2, <2>3, ReadsMore
  <2> QED
    BY <1>1, <1>11, <2>4 DEF SlotReads, h, t, b
<1>12. \A s \in Slot : connection_list[s].socket # NULL => connection_list[s].socket \in Client
  BY DEF Full, IInv, SlotInv, Sockets
<1> QED
  BY <1>1, <1>5, <1>10, <1>11, <1>12, ClientReads

\* Of what was on its way the end may be lost, once the client is gone.
LEMMA ReadsCut ==
  ASSUME NEW S, NEW sc, NEW pr, NEW c, NEW t, NEW buf, NEW k, NEW h, NEW q \in Seq(S),
         NEW n \in 0 .. Len(q), Len(sc[c]) \in Nat,
         q = Unread(t, buf, k.inq), Unread(t, buf, h.inq) = Take(q, n),
         Reads(sc, pr, c, t, buf, k), h.st = "gone", h.next = k.next,
         t.state \in TakesBody => t.own[2] \in Int
  PROVE  Reads(sc, pr, c, t, buf, h)
<1> DEFINE d == Take(q, n)
<1>1. Flow(sc, c, k, q) /\ NotStarted(sc, pr, c, From(k, q))
  BY DEF Reads
<1>2. Flow(sc, c, h, d) /\ (From(h, d) = From(k, q) \/ d = <<>>)
  BY <1>1, FlowTake
<1>3. d \in Seq(S)
  BY TakeType
<1>4. /\ From(k, q)[1] \in Int /\ From(k, q)[2] \in Int /\ From(k, q)[2] >= 1
      /\ From(h, d)[1] \in Int /\ From(h, d)[2] \in Int /\ From(h, d)[2] >= 1
  BY <1>1, <1>2, <1>3, FromType
<1>5. From(h, d) = From(k, q) \/ (Before(From(k, q), From(h, d)) /\ d = <<>>)
  <2>1. CASE d = <<>> /\ q # <<>>
    <3>1. 1 \in 1 .. Len(q)
      BY <2>1, EmptySeq, LenProperties
    <3> QED
      BY <1>1, <2>1, <3>1 DEF From, Flow
  <2>2. CASE d = <<>> /\ q = <<>>
    BY <2>2 DEF From
  <2> QED
    BY <1>2, <2>1, <2>2
<1>6. NotStarted(sc, pr, c, From(h, d))
  BY <1>1, <1>4, <1>5, NotStartedLater
<1>7. t.state \in TakesBody => Taking(sc, pr, t, h, d)
  <2>1. SUFFICES ASSUME t.state \in TakesBody PROVE Taking(sc, pr, t, h, d)
    OBVIOUS
  <2>2. Taking(sc, pr, t, k, q)
    BY <2>1 DEF Reads
  <2>3. Before(<<t.own[2], 1>>, From(h, d))
    BY <1>4, <1>5, <2>1, <2>2 DEF Taking, Before
  <2>4. Certain(h, d) => d # <<>> /\ From(h, d) = From(k, q) /\ Certain(k, q)
    <3>1. q = <<>> => d = <<>>
      <4>1. q = <<>> => Len(q) = 0 /\ n = 0
        BY EmptySeq
      <4>2. n = 0 => d = <<>>
        BY TakeNone
      <4> QED
        BY <4>1, <4>2
    <3> QED
      BY <1>2, <3>1 DEF Certain
  <2> HIDE DEF d
  <2> QED
    BY <2>2, <2>3, <2>4 DEF Taking
<1> QED
  BY <1>2, <1>6, <1>7 DEF Reads

LEMMA ClientVanishReads ==
  ASSUME Full, InputInv, NEW c \in Client, ClientVanish(c) PROVE InputInv'
<1> DEFINE k == net[c]
           h == net'[c]
           S == PieceOf(script, c)
<1>1. PICK x \in {k.inq, <<>>} :
        net' = [net EXCEPT ![c].st = "gone", ![c].inq = x, ![c].outq = <<>>]
  BY DEF ClientVanish
<1>2. UNCHANGED <<connection_list, script, proc>>
  BY DEF ClientVanish, UnchangedServer, peers
<1>3. DOMAIN net = Client /\ DOMAIN k = NetFields /\ k.inq \in Seq(S)
  BY DEF Full, Typed, NetTyped, IInv, SlotInv, Shape
<1>4. /\ h.inq = x /\ h.next = k.next /\ h.st = "gone" /\ h.conn = k.conn
      /\ \A d \in Client : d # c => net'[d] = net[d]
  BY <1>1, <1>3 DEF NetFields
<1> HIDE DEF k, h, S
<1>5. \A b \in Seq(S) : \E n \in 0 .. Len(b \o k.inq) : b \o x = Take(b \o k.inq, n)
  <2> TAKE b \in Seq(S)
  <2>1. /\ b \o k.inq \in Seq(S) /\ Len(b \o k.inq) = Len(b) + Len(k.inq)
        /\ Len(b) \in Nat /\ Len(k.inq) \in Nat
    BY <1>3, ConcatProperties, LenProperties
  <2>2. CASE x = k.inq
    <3>1. Len(b \o k.inq) \in 0 .. Len(b \o k.inq)
      BY <2>1
    <3> DEFINE q == b \o k.inq
    <3>2. q = Take(q, Len(q))
      BY <2>1, TakeAll
    <3> QED
      BY <2>2, <3>1, <3>2
  <2>3. CASE x = <<>>
    <3>1. Len(b) \in 0 .. Len(b \o k.inq) /\ Len(b) \in 0 .. Len(b)
      BY <2>1
    <3>2. Take(b \o k.inq, Len(b)) = Take(b, Len(b))
      BY <1>3, <3>1, TakeConcat
    <3>3. Take(b, Len(b)) = b /\ b \o <<>> = b
      BY TakeAll, ConcatEmptySeq
    <3> QED
      BY <2>3, <3>1, <3>2, <3>3
  <2> QED
    BY <2>2, <2>3
<1>6. Unaccepted(c)'
  <2>1. SUFFICES ASSUME h.conn = "none"
        PROVE  /\ Flow(script, c, h, h.inq)
               /\ \A j \in 1 .. Len(script[c]) : proc[<<c, j>>].st = "none"
    BY <1>2 DEF Unaccepted, h
  <2>2. Flow(script, c, k, k.inq) /\ \A j \in 1 .. Len(script[c]) : proc[<<c, j>>].st = "none"
    BY <1>4, <2>1 DEF InputInv, Unaccepted, k
  <2>3. x \in {Take(k.inq, Len(k.inq)), Take(k.inq, 0)}
           /\ Len(k.inq) \in 0 .. Len(k.inq) /\ 0 \in 0 .. Len(k.inq)
    BY <1>3, TakeAll, TakeNone, LenProperties
  <2>4. Flow(script, c, h, x)
    BY <1>3, <1>4, <2>2, <2>3, FlowTake
  <2> QED
    BY <1>4, <2>2, <2>4
<1>7. ASSUME NEW s \in Slot, connection_list[s].socket = c PROVE SlotReads(s)'
  <2> DEFINE t == connection_list[s].http_task
             b == connection_list[s].receiving_buffer
             hb == Held(t) \o b
             q == hb \o k.inq
  <2>1. c # NULL
    BY StateAssumption
  <2>2. /\ Reads(script, proc, c, t, b, k) /\ Held(t) \in Seq(S) /\ b \in Seq(S)
        /\ Len(script[c]) \in Nat /\ t.state \in TakesBody => t.own[2] \in Int
    BY <1>7, <2>1, SlotOfClient DEF k, S
  <2> HIDE DEF t, b
  <2>3. hb \in Seq(S) /\ q \in Seq(S)
    BY <1>3, <2>2, Joined
  <2>4. PICK n \in 0 .. Len(q) : hb \o x = Take(q, n)
    BY <1>5, <2>3
  <2>5. q = Unread(t, b, k.inq) /\ Unread(t, b, h.inq) = Take(q, n)
    BY <1>4, <2>4 DEF Unread
  <2> HIDE DEF q, hb
  <2>6. Reads(script, proc, c, t, b, h)
    BY <1>4, <2>2, <2>3, <2>5, ReadsCut
  <2> QED
    BY <1>2, <1>7, <2>6 DEF SlotReads, h, t, b
<1>8. \A s \in Slot : connection_list[s].socket # NULL => connection_list[s].socket \in Client
  BY DEF Full, IInv, SlotInv, Sockets
<1> QED
  BY <1>2, <1>4, <1>6, <1>7, <1>8, ClientReads

LEMMA ClientStepReads ==
  ASSUME Full, InputInv, NEW c \in Client, Connect(c) \/ ClientRead(c) \/ ClientShutdown(c)
  PROVE  InputInv'
<1>1. /\ UNCHANGED <<connection_list, script, proc>>
      /\ DOMAIN net = Client /\ DOMAIN net[c] = NetFields
  BY DEF Connect, ClientRead, ClientShutdown, UnchangedServer, peers, Full, IInv, SlotInv, Shape
<1>2. /\ net'[c].conn = net[c].conn /\ KeepsInput(net[c], net'[c])
      /\ \A d \in Client : d # c => net'[d] = net[d]
  <2>1. CASE Connect(c)
    BY <1>1, <2>1 DEF Connect, NetFields, KeepsInput
  <2>2. CASE ClientRead(c)
    BY <1>1, <2>2 DEF ClientRead, NetFields, KeepsInput
  <2>3. CASE ClientShutdown(c)
    BY <1>1, <2>3 DEF ClientShutdown, NetFields, KeepsInput
  <2> QED
    BY <2>1, <2>2, <2>3
<1>3. \A d \in Client : net'[d].conn = net[d].conn /\ KeepsInput(net[d], net'[d])
  BY <1>2, SameKernel
<1>4. \A d : KeepsStarts(script, proc, proc', d)
  BY <1>1 DEF KeepsStarts
<1>5. \A s \in Slot : connection_list[s].socket # NULL => connection_list[s].socket \in Client
  BY DEF Full, IInv, SlotInv, Sockets
<1> QED
  BY <1>1, <1>3, <1>4, <1>5, InputStep

LEMMA ChildReads ==
  ASSUME Full, InputInv, NEW p \in Asked(script),
         ChildRead(p) \/ ChildWrite(p) \/ ChildExit(p) \/ ChildFails(p)
  PROVE  InputInv'
<1>1. UNCHANGED <<connection_list, script, net>>
  BY DEF ChildRead, ChildWrite, ChildExit, ChildFails, UnchangedServer, peers
<1>2. DOMAIN proc = Asked(script) /\ DOMAIN proc[p] = ProcFields
  BY DEF Full, Typed, ProcTyped
<1>3. \A x \in Asked(script) : proc[x].st = "none" => proc'[x].st = "none"
  <2>1. CASE ChildRead(p)
    BY <1>2, <2>1 DEF ChildRead, ProcFields
  <2>2. CASE ChildWrite(p)
    BY <1>2, <2>2 DEF ChildWrite, ProcFields
  <2>3. CASE ChildExit(p)
    BY <1>2, <2>3 DEF ChildExit, ProcFields
  <2>4. CASE ChildFails(p)
    BY <1>2, <2>4 DEF ChildFails, ProcFields
  <2> QED
    BY <2>1, <2>2, <2>3, <2>4
<1>4. \A c \in Client : KeepsStarts(script, proc, proc', c)
  BY <1>3 DEF KeepsStarts, Asked
<1>5. \A s \in Slot : connection_list[s].socket # NULL => connection_list[s].socket \in Client
  BY DEF Full, IInv, SlotInv, Sockets
<1> QED
  BY <1>1, <1>4, <1>5, SameKernel, InputStep
-----------------------------------------------------------------------------
LEMMA InitInput == Init => InputInv
<1> SUFFICES ASSUME Init PROVE InputInv
  OBVIOUS
<1>1. /\ script \in [Client -> Seq(Request)]
      /\ \A c \in Client : net[c].inq = <<>> /\ net[c].next = <<1, 1>>
      /\ \A s \in Slot : connection_list[s].socket = NULL
  BY StateAssumption DEF Init, FreshPeer, NO_SOCKET
<1>2. ASSUME NEW c \in Client
      PROVE  /\ Flow(script, c, net[c], net[c].inq)
             /\ \A j \in 1 .. Len(script[c]) : proc[<<c, j>>].st = "none"
  <2>1. Len(script[c]) \in Nat /\ script[c] \in Seq(Request)
    BY <1>1, LenProperties
  <2>2. IsSpot(script, c, <<1, 1>>) \/ <<1, 1>> = <<Len(script[c]) + 1, 1>>
    <3>1. CASE Len(script[c]) = 0
      BY <3>1
    <3>2. CASE Len(script[c]) # 0
      <4>1. 1 \in 1 .. Len(script[c])
        BY <2>1, <3>2
      <4>2. script[c][1] \in Request
        BY <2>1, <4>1, ElementOfSeq
      <4>3. script[c][1].length \in Int
        BY <4>2 DEF Request
      <4> QED
        BY <4>1, <4>3 DEF IsSpot, Size, BodyLen, HasLength
    <3> QED
      BY <3>1, <3>2
  <2>3. Len(<<>>) = 0 /\ 1 .. 0 = {} /\ 1 .. (0 - 1) = {}
    OBVIOUS
  <2>4. InOrder(script, c, <<>>)
    BY <2>3 DEF InOrder
  <2>5. Flow(script, c, net[c], net[c].inq)
    BY <1>1, <2>2, <2>3, <2>4 DEF Flow
  <2>6. \A r \in Pids : proc[r].st = "none"
    BY DEF Init
  <2> QED
    BY <2>5, <2>6 DEF Pids
<1> QED
  BY <1>1, <1>2 DEF InputInv, Unaccepted, SlotReads

LEMMA NextInput == Full /\ InputInv /\ [Next]_vars => InputInv'
<1> SUFFICES ASSUME Full, InputInv, [Next]_vars PROVE InputInv'
  OBVIOUS
<1>1. CASE ServerStep
  BY <1>1, ServerStepReads
<1>2. CASE Interrupt \/ SelectFails
  BY <1>2, ShutdownReads DEF Interrupt, SelectFails
<1>3. CASE Environment
  <2>1. Pids = Asked(script)
    BY DEF Pids, Asked
  <2> QED
    BY <1>3, <2>1, ClientSendReads, ClientVanishReads, ClientStepReads, ChildReads
    DEF Environment
<1>4. CASE UNCHANGED vars
  BY <1>4, InputStays DEF vars
<1> QED
  BY <1>1, <1>2, <1>3, <1>4 DEF Next

\* What a client says reaches its task once and in the order in which it was said,
\* through the kernel's queue, recv, the receiving buffer and parse_buf, whatever the
\* other slots and the faults do; and a script is started for a request only once
\* the task is behind the header of this request.
THEOREM InputHolds == Spec => []InputInv
<1>1. Init => Full /\ InputInv
  BY InitFull, InitInput
<1>2. (Full /\ InputInv) /\ [Next]_vars => (Full /\ InputInv)'
  BY NextFull, NextInput
<1>3. Full /\ InputInv => InputInv
  OBVIOUS
<1> QED
  BY <1>1, <1>2, <1>3, PTL DEF Spec
=============================================================================
