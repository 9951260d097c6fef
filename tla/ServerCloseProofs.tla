-------------------------- MODULE ServerCloseProofs -------------------------
(***************************************************************************)
(* When the server gives a connection up, for any number of clients and    *)
(* slots.  As long as clients ask for files and wait for their answers: no *)
(* connection is closed without a reason that its client has given.  As    *)
(* long as they stay, and ask for scripts: no slot is given up while its   *)
(* script runs, so that every executor is the one of the task that points  *)
(* to it.                                                                  *)
(***************************************************************************)
EXTENDS ServerAnswerProofs

(* Hanging up.                                                             *)

\* A request after which the server may close the connection.
MayClose(q) == q.method = "MALFORMED" \/ q.target = "dir" \/ q.close

\* Client c, with its end k of the connection, has given a reason to close it.
Excused(sc, c, k) ==
  k.st \in {"shut", "gone"} \/ \E j \in 1 .. Len(sc[c]) : MayClose(sc[c][j])

\* Nothing of slot p makes the server hang up: the header being read is not complete,
\* and the file being sent is not at its end.
Lasting(p) ==
  LET t == p.http_task
  IN /\ ~p.close_conn
     /\ t.state = "RECV_HEADER_STATE" =>
          \A i \in 1 .. Len(t.parse_buf) : t.parse_buf[i].part # "end"
     /\ t.state = "SEND_BODY_STATE" => t.fp.pos <= FileLen

\* The handler leaves nothing unread and no task unfinished.
Rested(p) == p.receiving_buffer = <<>> /\ p.http_task.state # "FINISHED_STATE"

AtWork(s) == s = cur /\ pc \in {"send", "http"}
Past(s) == s < cur \/ AtWork(s)

Welcome(s) ==
  LET p == connection_list[s]
      c == p.socket
  IN c # NULL /\ ~Excused(script, c, net[c]) =>
       /\ Lasting(p)
       /\ ~AtWork(s) => Rested(p)
       /\ AtWork(s) /\ pc = "send" =>
            p.http_task.state # "FINISHED_STATE" /\ (p.receiving_buffer = <<>> \/ has_read)
       /\ AtWork(s) /\ pc = "http" /\ p.http_task.state = "FINISHED_STATE" =>
            p.receiving_buffer = <<>>
       /\ SockFd(c) \in rfds /\ ~Past(s) => net[c].inq # <<>>

\* select looks at connections that were accepted.
Heralds == \A c \in Client : SockFd(c) \in rfds => net[c].conn # "none"

Undue == \E c \in Client : net[c].conn = "closed" /\ ~Excused(script, c, net[c])

WelcomeInv ==
  /\ ~Undue
  /\ pc \notin {"dead", "exit"} => Heralds /\ \A s \in Slot : Welcome(s)

LEMMA UndueMeans == ~Undue <=> NoUndueClose
  BY DEF Undue, NoUndueClose, Excused, MayClose

\* What a step may do to an end k of a connection that is not closed: a client that
\* has stopped has stopped for good, and what it has sent stays unless it has left.
Endures(k, h) ==
  /\ k.st \in {"shut", "gone"} => h.st \in {"shut", "gone"}
  /\ h.conn = k.conn
  /\ h.inq = <<>> => k.inq = <<>> \/ h.st \in {"shut", "gone"}

LEMMA ExcusedStays ==
  ASSUME NEW sc, NEW c, NEW k, NEW h, k.st \in {"shut", "gone"} => h.st \in {"shut", "gone"},
         Excused(sc, c, k)
  PROVE  Excused(sc, c, h)
  BY DEF Excused

\* A slot whose turn is not now and does not come with this step.
LEMMA StillWelcome ==
  ASSUME Full, NEW s \in Slot, Welcome(s), ~AtWork(s), script' = script,
         connection_list'[s] = connection_list[s],
         connection_list[s].socket # NULL =>
           Endures(net[connection_list[s].socket], net'[connection_list[s].socket]),
         \/ NextSlot
         \/ cur' = cur /\ rfds' = rfds /\ (s = cur => pc' \notin {"send", "http"})
  PROVE  Welcome(s)'
<1> DEFINE p == connection_list[s]
           c == p.socket
<1>1. cur \in Slot /\ cur \in Nat /\ s \in Nat
  BY CurrentTyped DEF Slot
<1>2. ~AtWork(s)'
  BY <1>1 DEF AtWork, NextSlot
<1>3. ASSUME SockFd(c) \in rfds', ~Past(s)' PROVE SockFd(c) \in rfds /\ ~Past(s)
  BY <1>1, <1>3 DEF Past, AtWork, NextSlot
<1>4. SUFFICES ASSUME c # NULL, ~Excused(script, c, net'[c])
               PROVE  /\ Lasting(p) /\ Rested(p)
                      /\ SockFd(c) \in rfds' /\ ~Past(s)' => net'[c].inq # <<>>
  BY <1>2 DEF Welcome
<1>5. Endures(net[c], net'[c]) /\ net'[c].st \notin {"shut", "gone"}
  BY <1>4 DEF Excused
<1>6. ~Excused(script, c, net[c])
  BY <1>4, <1>5, ExcusedStays DEF Endures
<1>7. Lasting(p) /\ Rested(p) /\ (SockFd(c) \in rfds /\ ~Past(s) => net[c].inq # <<>>)
  BY <1>4, <1>6 DEF Welcome
<1> QED
  BY <1>3, <1>5, <1>7 DEF Endures

\* A step of the surroundings, for one slot.
LEMMA WelcomeUnmoved ==
  ASSUME NEW s \in Slot, Welcome(s), script' = script, UNCHANGED loop,
         connection_list'[s] = connection_list[s],
         connection_list[s].socket # NULL =>
           Endures(net[connection_list[s].socket], net'[connection_list[s].socket])
  PROVE  Welcome(s)'
<1> DEFINE p == connection_list[s]
           c == p.socket
<1>1. AtWork(s)' = AtWork(s) /\ Past(s)' = Past(s) /\ pc' = pc /\ has_read' = has_read /\ rfds' = rfds
  BY DEF AtWork, Past, loop
<1>2. ASSUME c # NULL, ~Excused(script, c, net'[c])
      PROVE  /\ ~Excused(script, c, net[c])
             /\ net'[c].inq = <<>> => net[c].inq = <<>>
  <2>1. Endures(net[c], net'[c]) /\ net'[c].st \notin {"shut", "gone"}
    BY <1>2 DEF Excused
  <2> QED
    BY <1>2, <2>1, ExcusedStays DEF Endures
<1> QED
  BY <1>1, <1>2 DEF Welcome
-----------------------------------------------------------------------------
\* When something is unread behind a request, the client has heard the answer to it.
LEMMA HasHeard ==
  ASSUME Able, AnswerInv, Posted(script), NEW s \in Slot, connection_list[s].socket # NULL,
         net[connection_list[s].socket].st # "gone",
         connection_list[s].http_task.state \notin {"RECV_HEADER_STATE", "RECV_BODY_STATE"},
         connection_list[s].receiving_buffer # <<>>
  PROVE  Heard(Replies, connection_list[s].http_task.own, net[connection_list[s].socket])
<1> DEFINE p == connection_list[s]
           t == p.http_task
           c == p.socket
           k == net[c]
           n == Len(script[c])
           m == t.own[2]
           q == Unread(t, p.receiving_buffer, k.inq)
           f == From(k, q)
<1>0. Full /\ InputInv
  BY DEF Able
<1>1. /\ c \in Client /\ n \in Nat
      /\ t.own # None => m \in 1 .. n /\ t.own = <<c, m>>
  BY Serving
<1>2. t.own # None /\ Settles(f, m) /\ f[2] = 1
  <2>1. Serves(Replies, script, p, k)
    BY Serving
  <2> QED
    BY <2>1 DEF Serves, Owes, AtRequest
<1>3. /\ Flow(script, c, k, q) /\ q # <<>> /\ Len(q) \in Nat /\ Len(q) > 0
  <2> DEFINE T == PieceOf(script, c)
             hd == Held(t)
             b == p.receiving_buffer
             i == k.inq
  <2>1. /\ Reads(script, proc, c, t, b, k)
        /\ hd \in Seq(T) /\ b \in Seq(T) /\ i \in Seq(T) /\ b # <<>>
    BY <1>0, SlotOfClient
  <2>2. hd \o b \o i \in Seq(T) /\ Len(hd \o b \o i) > 0 /\ Len(hd \o b \o i) \in Nat
    <3> HIDE DEF T, hd, b, i
    <3>1. /\ hd \o b \o i \in Seq(T) /\ Len(hd \o b \o i) = Len(hd) + Len(b) + Len(i)
          /\ Len(hd) \in Nat /\ Len(b) \in Nat /\ Len(i) \in Nat
      BY ONLY <2>1, Joined
    <3>2. Len(b) > 0
      BY <2>1, EmptySeq
    <3> QED
      BY <3>1, <3>2
  <2>3. q = hd \o b \o i
    BY DEF Unread
  <2> HIDE DEF q, hd, b, i
  <2>4. q # <<>>
    BY <2>2, <2>3
  <2> QED
    BY <2>1, <2>2, <2>3, <2>4 DEF Reads, q, b
<1> HIDE DEF q
<1>4. f = <<m + 1, 1>> /\ IsSpot(script, c, f) /\ Before(f, k.next)
  <2>1. 1 \in 1 .. Len(q) /\ f = SpotOf(q[1])
    BY <1>3 DEF From
  <2> QED
    BY <1>2, <1>3, <2>1 DEF Settles, Flow, InOrder
<1>5. m \in 1 .. n /\ t.own = <<c, m>>
  BY <1>1, <1>2
<1> HIDE DEF f, m, n
<1>6. m + 1 \in 1 .. n /\ Before(<<m + 1, 1>>, k.next)
  BY <1>4 DEF IsSpot, n
<1>7. Waits(Replies, script, c, k)
  BY <1>1 DEF AnswerInv, Minds
<1>8. m + 1 \in 2 .. n /\ (m + 1) - 1 = m
  BY <1>1, <1>5, <1>6
<1>9. Heard(Replies, <<c, (m + 1) - 1>>, k)
  BY <1>6, <1>7, <1>8 DEF Waits, n
<1> QED
  BY <1>5, <1>8, <1>9

\* While its answer is being sent, nothing has come behind a request.
LEMMA NothingUnread ==
  ASSUME Able, AnswerInv, Posted(script), NEW s \in Slot, connection_list[s].socket # NULL,
         net[connection_list[s].socket].st # "gone",
         \/ connection_list[s].http_task.state = "SEND_HEADER_STATE"
         \/ /\ connection_list[s].http_task.state = "SEND_BODY_STATE"
            /\ RequestOf(connection_list[s].http_task.own).target # "dir"
            /\ connection_list[s].http_task.fp.pos <= FileLen
  PROVE  connection_list[s].receiving_buffer = <<>>
<1> SUFFICES ASSUME connection_list[s].receiving_buffer # <<>> PROVE FALSE
  OBVIOUS
<1> DEFINE p == connection_list[s]
           t == p.http_task
           c == p.socket
           k == net[c]
           b == p.sending_buffer
           m == t.own[2]
           a == Replies
           S == Piece(script)
           x == Total(k, b)
<1>1. Heard(a, t.own, k)
  BY HasHeard
<1>2. /\ c \in Client /\ Len(script[c]) \in Nat /\ k.got \in Seq(S) /\ k.outq \in Seq(S)
      /\ b \in Seq(S) /\ TaskTyped(script, t)
      /\ t.own # None => m \in 1 .. Len(script[c]) /\ t.own = <<c, m>> /\ t.own \in Asked(script)
  BY Serving
<1>3. Tells(script, a)
  BY AbleTells
<1>4. t.own # None /\ Pays(a, script, t, b, x)
  <2>1. Serves(a, script, p, k)
    BY Serving
  <2> QED
    BY <2>1 DEF Serves, Owes
<1>5. m \in 1 .. Len(script[c]) /\ t.own = <<c, m>> /\ t.own \in Asked(script)
  BY <1>2, <1>4
<1>6. ASSUME NEW z \in Seq(S), Total(k, z) = UpTo(a, c, m) PROVE z = <<>>
  <2>1. /\ Heard(a, <<c, m>>, k) /\ c \in Client /\ Len(script[c]) \in Nat
        /\ m \in 1 .. Len(script[c]) /\ Tells(script, a) /\ Total(k, z) = UpTo(a, c, m)
        /\ k.got \in Seq(Piece(script)) /\ k.outq \in Seq(Piece(script))
        /\ z \in Seq(Piece(script))
    BY <1>1, <1>2, <1>3, <1>5, <1>6
  <2> HIDE DEF a, c, m, k
  <2> QED
    BY ONLY <2>1, HeardAll
<1>7. CASE t.state = "SEND_HEADER_STATE"
  <2>1. b = <<>> /\ x = UpTo(a, c, m - 1)
    <3>1. t.state \in BeforeAnswer /\ t.own[1] = c
      BY <1>5, <1>7 DEF BeforeAnswer
    <3> HIDE DEF t, a, b, c, x
    <3>2. b = <<>> /\ x = UpTo(a, t.own[1], t.own[2] - 1)
      BY <1>4, <3>1 DEF Pays
    <3> QED
      BY <3>1, <3>2 DEF t
  <2>2. a[t.own] \in Seq(S) /\ a[t.own] # <<>>
    BY <1>1, <1>3, <1>5 DEF Tells, Heard
  <2>3. UpTo(a, c, m) = UpTo(a, c, m - 1) \o a[t.own]
    BY <1>2, <1>3, <1>5, UpToNext
  <2>4. x = k.got \o k.outq
    <3> DEFINE g == k.got
               o == k.outq
    <3>1. (g \o o) \o <<>> = g \o o
      <4> HIDE DEF g, o, S
      <4>1. g \in Seq(S) /\ o \in Seq(S)
        BY <1>2 DEF g, o
      <4>2. g \o o \in Seq(S)
        BY <4>1, ConcatProperties
      <4> QED
        BY <4>2, ConcatEmptySeq
    <3> QED
      BY <2>1, <3>1 DEF Total, Cat
  <2>5. Total(k, a[t.own]) = UpTo(a, c, m)
    BY <2>1, <2>3, <2>4 DEF Total, Cat
  <2> QED
    BY <1>6, <2>2, <2>5
<1>8. CASE t.state = "SEND_BODY_STATE"
  <2> DEFINE n == t.fp.pos
             d == FileRest(script, t.own, n)
  <2>1. x \o d = UpTo(a, c, m)
    <3>1. t.own[1] = c
      BY <1>5
    <3> HIDE DEF x, a, c, m
    <3> QED
      BY <1>4, <1>8, <3>1 DEF Pays, m
  <2>2. n \in 0 .. FileLen /\ FileLen \in Nat
    <3>1. t.fp \in {None} \cup [of : Asked(script), pos : 0 .. FileLen + 1] /\ t.fp # None
      BY <1>2, <1>8 DEF TaskTyped, SendsFile
    <3> QED
      BY <1>8, <3>1, StateAssumption
  <2>3. d \in Seq(S) /\ Len(d) = FileLen + 1 - n
    <3>1. FileStream(t.own) \in Seq(S) /\ Len(FileStream(t.own)) = FileLen + 1
      BY <1>5, StreamOfFile
    <3>2. d = Drop(FileStream(t.own), n)
      BY <1>8 DEF FileRest, RequestOf
    <3>3. n \in 0 .. Len(FileStream(t.own))
      BY <2>2, <3>1
    <3> DEFINE w == FileStream(t.own)
    <3> HIDE DEF d, n, S, w
    <3>4. w \in Seq(S) /\ Len(w) = FileLen + 1 /\ n \in 0 .. Len(w) /\ d = Drop(w, n)
      BY <3>1, <3>2, <3>3 DEF w
    <3>5. Drop(w, n) \in Seq(S) /\ Len(Drop(w, n)) = Len(w) - n
      BY ONLY <3>4, DropType
    <3>6. d \in Seq(S) /\ Len(d) = Len(w) - n
      BY ONLY <3>4, <3>5
    <3>7. Len(w) - n = FileLen + 1 - n
      <4> DEFINE l == Len(w)
      <4> HIDE DEF l
      <4>1. l = FileLen + 1 /\ FileLen \in Nat /\ n \in Int
        BY <3>4, StateAssumption DEF l
      <4>2. l - n = FileLen + 1 - n
        BY ONLY <4>1
      <4> QED
        BY <4>2 DEF l
    <3> QED
      BY ONLY <3>6, <3>7
  <2>4. Len(d) > 0
    BY <2>2, <2>3
  <2>5. /\ Total(k, b \o d) = x \o d /\ b \o d \in Seq(S) /\ Len(b \o d) > 0
    <3> DEFINE g == k.got
               o == k.outq
    <3> HIDE DEF g, o, d, b, S
    <3>1. g \in Seq(S) /\ o \in Seq(S) /\ b \in Seq(S) /\ d \in Seq(S)
      BY <1>2, <2>3 DEF g, o
    <3>2. g \o o \in Seq(S) /\ b \o d \in Seq(S) /\ Len(b \o d) = Len(b) + Len(d) /\ Len(b) \in Nat
      BY <3>1, ConcatProperties, LenProperties
    <3> DEFINE y == g \o o
    <3>3. (y \o b) \o d = y \o (b \o d)
      <4>1. y \in Seq(S)
        BY <3>2
      <4> HIDE DEF y
      <4> QED
        BY ONLY <3>1, <4>1, ConcatAssociative, SMTT(30)
    <3>4. Total(k, b) = y \o b /\ Total(k, b \o d) = y \o (b \o d)
      BY DEF Total, Cat, g, o
    <3> HIDE DEF y
    <3>5. Total(k, b) \o d = Total(k, b \o d)
      BY <3>3, <3>4
    <3>6. Len(b \o d) > 0
      <4> DEFINE l == Len(b)
                 e == Len(d)
      <4> HIDE DEF l, e
      <4>1. l \in Nat /\ e > 0 /\ e \in Int /\ Len(b \o d) = l + e
        <5>1. e = FileLen + 1 - n /\ FileLen \in Nat /\ n \in Int
          BY <2>2, <2>3 DEF e, d
        <5> QED
          BY <2>4, <3>2, <5>1 DEF l, e
      <4> QED
        BY ONLY <4>1
    <3> QED
      BY <3>2, <3>5, <3>6 DEF b, x
  <2> HIDE DEF d, b, x
  <2>6. b \o d = <<>>
    BY <1>6, <2>1, <2>5
  <2>7. Len(<<>>) = 0
    OBVIOUS
  <2> QED
    BY <2>5, <2>6, <2>7
<1> QED
  BY <1>7, <1>8
-----------------------------------------------------------------------------
\* A header is refused only when its client wrote it badly.

\* The first end among the first tokens of q = h \o b \o i is the second token.
LEMMA SecondEnds ==
  ASSUME NEW S, NEW h \in Seq(S), NEW b \in Seq(S), NEW i \in Seq(S), NEW n \in 0 .. Len(b),
         Len(h \o b \o i) > 0 => (h \o b \o i)[1].part = "head",
         Len(h \o b \o i) > 1 => (h \o b \o i)[2].part = "end",
         \A j \in 1 .. Len(h) : h[j].part # "end"
  PROVE  /\ (\A j \in 1 .. n : b[j].part # "end") => Len(h) + n < 2
         /\ n > 0 /\ b[n].part = "end" /\ (\A j \in 1 .. n - 1 : b[j].part # "end") =>
              /\ Len(h) + n = 2
              /\ (h \o Take(b, n))[1] = (h \o b \o i)[1]
              /\ (h \o Take(b, n))[2] = (h \o b \o i)[2]
              /\ Len(h \o Take(b, n)) = 2
<1> DEFINE q == h \o b \o i
<1>1. /\ Len(h) \in Nat /\ Len(b) \in Nat /\ q \in Seq(S) /\ n \in Nat /\ n <= Len(b)
      /\ Len(q) >= Len(h) + n
      /\ Take(b, n) \in Seq(S) /\ Len(Take(b, n)) = n
  BY Joined, LenProperties, TakeType
<1>2. ASSUME NEW j \in 1 .. Len(h) + n
      PROVE  q[j] = IF j <= Len(h) THEN h[j] ELSE b[j - Len(h)]
  <2>1. h \o b \in Seq(S) /\ Len(h \o b) = Len(h) + Len(b) /\ j \in 1 .. Len(h) + Len(b)
    BY <1>1, ConcatProperties
  <2>2. (h \o b)[j] = IF j <= Len(h) THEN h[j] ELSE b[j - Len(h)]
    BY <2>1, ConcatProperties
  <2> DEFINE x == h \o b
  <2>3. (x \o i)[j] = x[j]
    <3>1. x \in Seq(S) /\ Len(x) \in Nat /\ j \in 1 .. Len(x) /\ Len(i) \in Nat
      BY <1>1, <2>1, LenProperties
    <3> HIDE DEF x
    <3> QED
      BY <3>1, ConcatProperties
  <2> QED
    BY <2>2, <2>3
<1>3. ASSUME NEW j \in 1 .. Len(h) + n PROVE (h \o Take(b, n))[j] = q[j]
  <2> DEFINE y == Take(b, n)
  <2>1. y \in Seq(S) /\ Len(y) = n
    BY <1>1
  <2>2. j > Len(h) => j - Len(h) \in 1 .. n /\ y[j - Len(h)] = b[j - Len(h)]
    BY <1>1, TakeElement
  <2>3. (h \o y)[j] = IF j <= Len(h) THEN h[j] ELSE y[j - Len(h)]
    <3> HIDE DEF y
    <3> QED
      BY <1>1, <2>1, ConcatProperties
  <2> QED
    BY <1>1, <1>2, <2>2, <2>3
<1>4. /\ Len(h) + n >= 1 => q[1].part = "head" /\ 1 \in 1 .. Len(h) + n
      /\ Len(h) + n >= 2 => q[2].part = "end" /\ 2 \in 1 .. Len(h) + n
  BY <1>1
<1>5. ASSUME Len(h) + n >= 2 PROVE 2 - Len(h) \in 1 .. n /\ b[2 - Len(h)].part = "end"
  <2>1. q[2].part = "end" /\ 2 \in 1 .. Len(h) + n
    BY <1>1, <1>4, <1>5
  <2>2. ~(2 <= Len(h))
    <3>1. 2 <= Len(h) => 2 \in 1 .. Len(h)
      BY <1>1
    <3>2. 2 <= Len(h) => q[2] = h[2]
      BY <1>2, <2>1
    <3> QED
      BY <2>1, <3>1, <3>2
  <2>3. q[2] = b[2 - Len(h)]
    BY <1>2, <2>1, <2>2
  <2> QED
    BY <1>1, <1>5, <2>1, <2>2, <2>3
<1>6. (\A j \in 1 .. n : b[j].part # "end") => Len(h) + n < 2
  BY <1>1, <1>5
<1>7. ASSUME n > 0, b[n].part = "end", \A j \in 1 .. n - 1 : b[j].part # "end"
      PROVE  Len(h) + n = 2
  <2>1. Len(h) + n \in 1 .. Len(h) + n /\ ~(Len(h) + n <= Len(h)) /\ (Len(h) + n) - Len(h) = n
    BY <1>1, <1>7
  <2>2. q[Len(h) + n] = b[n]
    BY <1>2, <2>1
  <2>3. Len(h) + n # 1
    BY <1>4, <1>7, <2>2
  <2>4. ~(Len(h) + n > 2)
    <3>1. Len(h) + n > 2 => 2 - Len(h) \in 1 .. n - 1 /\ b[2 - Len(h)].part = "end"
      BY <1>1, <1>5
    <3> QED
      BY <1>7, <3>1
  <2> QED
    BY <1>1, <1>7, <2>3, <2>4
<1>8. ASSUME Len(h) + n = 2
      PROVE  /\ (h \o Take(b, n))[1] = q[1] /\ (h \o Take(b, n))[2] = q[2]
             /\ Len(h \o Take(b, n)) = 2
  <2>1. 1 \in 1 .. Len(h) + n /\ 2 \in 1 .. Len(h) + n
    BY <1>8
  <2>2. Len(h \o Take(b, n)) = Len(h) + Len(Take(b, n))
    BY <1>1, ConcatProperties
  <2> QED
    BY <1>1, <1>3, <1>8, <2>1, <2>2
<1> QED
  BY <1>6, <1>7, <1>8 DEF q

\* What a client says begins with a header: a head and an end of one request.
LEMMA HeaderFirst ==
  ASSUME Able, AnswerInv, Posted(script), NEW s \in Slot, connection_list[s].socket # NULL,
         net[connection_list[s].socket].st # "gone",
         connection_list[s].http_task.state = "RECV_HEADER_STATE"
  PROVE  LET p == connection_list[s]
             c == p.socket
             q == p.http_task.parse_buf \o p.receiving_buffer \o net[c].inq
         IN /\ Len(q) > 0 => /\ q[1].part = "head" /\ q[1].req[1] = c
                             /\ q[1].req[2] \in 1 .. Len(script[c])
            /\ Len(q) > 1 => q[2].part = "end" /\ q[2].req = q[1].req
<1> DEFINE p == connection_list[s]
           t == p.http_task
           c == p.socket
           k == net[c]
           n == Len(script[c])
           q == Unread(t, p.receiving_buffer, k.inq)
           f == From(k, q)
<1>0. Full /\ InputInv
  BY DEF Able
<1>1. /\ c \in Client /\ n \in Nat
      /\ Reads(script, proc, c, t, p.receiving_buffer, k)
      /\ \A j \in 1 .. n : Size(script, c, j) \in Nat /\ Size(script, c, j) >= 2
  BY <1>0, SlotOfClient
<1>2. f[2] = 1
  <2>1. Serves(Replies, script, p, k)
    BY Serving
  <2> QED
    BY <2>1 DEF Serves, Owes, AtRequest
<1>3. q = t.parse_buf \o p.receiving_buffer \o k.inq
  BY DEF Unread, Held
<1>4. InOrder(script, c, q)
  BY <1>1 DEF Reads, Flow
<1>5. Len(q) \in Nat
  <2> DEFINE T == PieceOf(script, c)
             hd == Held(t)
             b == p.receiving_buffer
             i == k.inq
  <2>1. hd \in Seq(T) /\ b \in Seq(T) /\ i \in Seq(T)
    BY <1>0, SlotOfClient
  <2> HIDE DEF T, hd, b, i
  <2>2. hd \o b \o i \in Seq(T)
    BY ONLY <2>1, Joined
  <2>3. Len(hd \o b \o i) \in Nat
    BY ONLY <2>2, LenProperties
  <2> QED
    BY <2>3 DEF Unread, hd, b, i
<1> HIDE DEF q
<1>6. ASSUME Len(q) > 0
      PROVE  LET j == q[1].req[2] IN
             /\ j \in 1 .. n /\ q[1] = Token(<<c, j>>, "head", 0) /\ SpotOf(q[1]) = <<j, 1>>
  <2>1. 1 \in 1 .. Len(q) /\ q # <<>>
    BY <1>5, <1>6, EmptySeq
  <2>2. IsSpot(script, c, SpotOf(q[1])) /\ q[1] = At(c, SpotOf(q[1])) /\ f = SpotOf(q[1])
    BY <1>4, <2>1 DEF InOrder, From
  <2>3. SpotOf(q[1])[2] = 1 /\ SpotOf(q[1])[1] = q[1].req[2]
    BY <1>2, <2>2 DEF SpotOf
  <2> DEFINE j == q[1].req[2]
  <2>4. j \in 1 .. n
    BY <2>2, <2>3 DEF IsSpot
  <2>5. q[1] = Token(<<c, j>>, "head", 0)
    BY <2>2, <2>3 DEF At, RequestToken
  <2>6. SpotOf(q[1]) = <<j, 1>>
    BY <2>3 DEF SpotOf
  <2> QED
    BY <2>4, <2>5, <2>6
<1>7. ASSUME Len(q) > 1
      PROVE  q[2] = Token(<<c, q[1].req[2]>>, "end", 0)
  <2> DEFINE j == q[1].req[2]
  <2>1. 1 \in 1 .. Len(q) - 1 /\ 2 \in 1 .. Len(q) /\ 1 + 1 = 2
    BY <1>5, <1>7
  <2>2. SpotOf(q[2]) = After(script, c, SpotOf(q[1])) /\ q[2] = At(c, SpotOf(q[2]))
    BY <1>4, <2>1 DEF InOrder
  <2>3. j \in 1 .. n /\ SpotOf(q[1]) = <<j, 1>>
    BY <1>5, <1>6, <1>7
  <2>4. Size(script, c, j) \in Nat /\ Size(script, c, j) >= 2
    BY <1>1, <2>3
  <2> HIDE DEF j
  <2>5. SpotOf(q[2]) = <<j, 2>>
    BY <2>2, <2>3, <2>4 DEF After
  <2> QED
    BY <2>2, <2>5 DEF At, RequestToken, j
<1>8. Len(q) > 0 => q[1].part = "head" /\ q[1].req = <<c, q[1].req[2]>> /\ q[1].req[2] \in 1 .. n
  <2> DEFINE j == q[1].req[2]
             r == <<c, j>>
  <2> HIDE DEF r
  <2>1. Len(q) > 0 => j \in 1 .. n /\ q[1] = Token(r, "head", 0)
    BY <1>6 DEF r
  <2>2. Token(r, "head", 0).part = "head" /\ Token(r, "head", 0).req = r
    BY DEF Token
  <2>3. Len(q) > 0 => q[1].part = "head" /\ q[1].req = r
    BY <2>1, <2>2
  <2> QED
    BY <2>1, <2>3 DEF r
<1>9. Len(q) > 1 => q[2].part = "end" /\ q[2].req = q[1].req
  <2> DEFINE r == <<c, q[1].req[2]>>
  <2> HIDE DEF r
  <2>1. Token(r, "end", 0).part = "end" /\ Token(r, "end", 0).req = r
    BY DEF Token
  <2>2. Len(q) > 1 => q[2].part = "end" /\ q[2].req = r
    BY <1>7, <2>1 DEF r
  <2> QED
    BY <1>5, <1>8, <2>2 DEF r
<1>10. Len(q) > 0 => q[1].req[1] = c
  <2>1. <<c, q[1].req[2]>>[1] = c
    OBVIOUS
  <2> QED
    BY <1>8, <2>1
<1> QED
  BY <1>3, <1>8, <1>9, <1>10


LEMMA RefusedExcused ==
  ASSUME Able, AnswerInv, Posted(script), Welcome(cur), HeaderTooLong \/ HeaderRefused
  PROVE  Excused(script, Me.socket, net[Me.socket])
<1> DEFINE c == Me.socket
           k == net[c]
           S == PieceOf(script, c)
           h == Task.parse_buf
           b == Me.receiving_buffer
           i == k.inq
           n == Len(Incoming)
           e == HeaderSize
           q == h \o b \o i
<1> SUFFICES ASSUME ~Excused(script, c, k) PROVE FALSE
  OBVIOUS
<1>0. Full /\ InputInv
  BY DEF Able
<1>1. /\ pc = "http" /\ Task.state = "RECV_HEADER_STATE"
  BY DEF HeaderTooLong, HeaderRefused, HeaderComplete, InHandler
<1>2. /\ Task = Me.http_task /\ cur \in Slot /\ Me = connection_list[cur] /\ c # NULL
      /\ c \in Client /\ Len(h) \in Nat /\ Len(h) <= BUF_DATA_MAXSIZE
  BY <1>0, <1>1, CurrentTyped, LenProperties DEF TaskTyped
<1>3. k.st # "gone" /\ \A j \in 1 .. Len(h) : h[j].part # "end"
  BY <1>1, <1>2 DEF Welcome, Lasting, Excused
<1>4. h \in Seq(S) /\ b \in Seq(S) /\ i \in Seq(S)
  BY <1>0, <1>1, <1>2, SlotOfClient DEF Held
<1>5. /\ Len(q) > 0 => q[1].part = "head" /\ q[1].req[1] = c
                       /\ q[1].req[2] \in 1 .. Len(script[c])
      /\ Len(q) > 1 => q[2].part = "end" /\ q[2].req = q[1].req
  BY <1>1, <1>2, <1>3, HeaderFirst
<1>6. n \in 0 .. Len(b) /\ n \in Nat /\ \A j \in 1 .. n : Incoming[j] = b[j]
  <2> DEFINE m == Least(Len(b), Room(h))
  <2>1. Incoming = Take(b, m)
    BY DEF Incoming
  <2>2. m \in 0 .. Len(b)
    <3>1. Len(b) \in Nat
      BY <1>4, LenProperties
    <3> QED
      BY <1>2, <3>1, StateAssumption DEF Least, Room
  <2> HIDE DEF m
  <2>3. Len(Take(b, m)) = m /\ \A j \in 1 .. m : Take(b, m)[j] = b[j]
    BY <1>4, <2>2, TakeType, TakeElement
  <2>4. m \in Nat
    BY <2>2
  <2> QED
    BY <2>1, <2>2, <2>3, <2>4
<1>7. CASE HeaderTooLong
  <2>1. EndsHeader = {} /\ n = Room(h)
    BY <1>7 DEF HeaderTooLong
  <2>2. \A j \in 1 .. n : b[j].part # "end"
    BY <1>6, <2>1 DEF EndsHeader
  <2>3. Len(h) + n < 2
    <3> HIDE DEF h, b, i, n, S
    <3> QED
      BY <1>3, <1>4, <1>5, <1>6, <2>2, SecondEnds
  <2> DEFINE l == Len(h)
  <2>4. l \in Nat /\ n \in Nat /\ n = BUF_DATA_MAXSIZE - l /\ l + n < 2
    BY <1>2, <1>6, <2>1, <2>3 DEF Room
  <2> HIDE DEF l, n
  <2> QED
    BY ONLY <2>4, StateAssumption
<1>8. CASE HeaderRefused
  <2>1. EndsHeader # {} /\ ~Parses
    BY <1>8 DEF HeaderRefused, HeaderComplete
  <2>2. e \in EndsHeader /\ \A j \in EndsHeader : e <= j
    <3>1. EndsHeader \subseteq 1 .. n
      BY DEF EndsHeader
    <3>2. \E x \in EndsHeader : \A j \in EndsHeader : x <= j
      BY <1>6, <2>1, <3>1, FirstPosition
    <3> QED
      BY <3>2 DEF HeaderSize
  <2> HIDE DEF e
  <2>3. /\ e \in 1 .. n /\ e \in 0 .. Len(b) /\ e > 0 /\ b[e].part = "end"
        /\ \A j \in 1 .. e - 1 : b[j].part # "end"
    <3>1. e \in 1 .. n /\ Incoming[e].part = "end"
      BY <2>2 DEF EndsHeader
    <3>2. e \in Nat /\ e \in 0 .. Len(b) /\ e > 0
      BY <1>6, <3>1
    <3>3. ASSUME NEW j \in 1 .. e - 1 PROVE b[j].part # "end"
      <4>1. j \in 1 .. n /\ j \notin EndsHeader
        BY <1>6, <2>2, <3>1, <3>3
      <4> QED
        BY <1>6, <4>1 DEF EndsHeader
    <3> QED
      BY <1>6, <3>1, <3>2, <3>3
  <2>4. Header = h \o Take(b, e)
    <3> DEFINE m == Least(Len(b), Room(h))
    <3>1. Incoming = Take(b, m)
      BY DEF Incoming
    <3>2. m \in 0 .. Len(b) /\ m = n
      <4>1. Len(b) \in Nat
        BY <1>4, LenProperties
      <4>2. m \in 0 .. Len(b)
        BY <1>2, <4>1, StateAssumption DEF Least, Room
      <4> HIDE DEF m
      <4> QED
        BY <1>4, <3>1, <4>2, TakeType
    <3>3. Take(Take(b, m), e) = Take(b, e)
      <4> HIDE DEF m, b, S
      <4>1. m \in 0 .. Len(b) /\ e \in 0 .. m /\ b \in Seq(S) /\ Len(Take(b, m)) = m
        BY <1>4, <1>6, <2>3, <3>2, TakeType
      <4> QED
        BY <4>1, TakeTake
    <3> QED
      BY <3>1, <3>3 DEF Header, e
  <2>5. /\ Len(h) + e = 2 /\ (h \o Take(b, e))[1] = q[1] /\ (h \o Take(b, e))[2] = q[2]
        /\ Len(h \o Take(b, e)) = 2
    <3>1. /\ Len(q) > 0 => q[1].part = "head"
          /\ Len(q) > 1 => q[2].part = "end"
          /\ \A j \in 1 .. Len(h) : h[j].part # "end"
      BY <1>3, <1>5
    <3> HIDE DEF h, b, i, n, S
    <3> QED
      BY ONLY <1>4, <2>3, <3>1, SecondEnds
  <2>6. Len(q) >= 2
    <3> HIDE DEF h, b, i, n, S
    <3>1. Len(q) = Len(h) + Len(b) + Len(i) /\ Len(i) \in Nat /\ Len(b) \in Nat /\ Len(h) \in Nat
      BY <1>4, Joined
    <3> QED
      BY <2>3, <2>5, <3>1
  <2> HIDE DEF q
  <2>7. /\ Header[1].part = "head" /\ Header[1].req = Header[2].req /\ Len(Header) = 2
        /\ Header[1].req = q[1].req
    BY <1>5, <2>4, <2>5, <2>6
  <2>8. RequestOf(q[1].req).method = "MALFORMED"
    BY <2>1, <2>7 DEF Parses
  <2>9. q[1].req[1] = c /\ q[1].req[2] \in 1 .. Len(script[c])
    BY <1>5, <2>6
  <2>10. MayClose(script[c][q[1].req[2]])
    BY <2>8, <2>9 DEF RequestOf, MayClose
  <2> QED
    BY <2>9, <2>10 DEF Excused
<1> QED
  BY <1>7, <1>8
-----------------------------------------------------------------------------
LEMMA WelcomeStep ==
  ASSUME WelcomeInv, script' = script,
         \A c \in Client :
           /\ net[c].st \in {"shut", "gone"} => net'[c].st \in {"shut", "gone"}
           /\ net'[c].conn = "closed" =>
                net[c].conn = "closed" \/ Excused(script, c, net[c])
           /\ net'[c].conn = "none" => net[c].conn = "none",
         pc' \notin {"dead", "exit"} =>
           pc \notin {"dead", "exit"} /\ rfds' \subseteq rfds /\ \A s \in Slot : Welcome(s)'
  PROVE  WelcomeInv'
<1>1. ~Undue'
  <2> SUFFICES ASSUME NEW c \in Client, net'[c].conn = "closed"
               PROVE  Excused(script, c, net'[c])
    BY DEF Undue
  <2>1. Excused(script, c, net[c])
    BY DEF WelcomeInv, Undue
  <2> QED
    BY <2>1, ExcusedStays
<1>2. pc' \notin {"dead", "exit"} => Heralds'
  BY DEF WelcomeInv, Heralds, SockFd
<1>3. pc' \notin {"dead", "exit"} => \A s \in Slot : Welcome(s)'
  OBVIOUS
<1> QED
  BY <1>1, <1>2, <1>3 DEF WelcomeInv, Slot

\* The server does not go on.
LEMMA DeadWelcome ==
  ASSUME WelcomeInv, script' = script, net' = net, pc' = "dead" PROVE WelcomeInv'
  BY WelcomeStep

\* The current slot, with client c, becomes p.
Turn(p, c) ==
  \/ NextSlot /\ (~Excused(script, c, net[c]) => Lasting(p) /\ Rested(p))
  \/ /\ cur' = cur /\ rfds' = rfds /\ pc' \in {"send", "http"}
     /\ ~Excused(script, c, net[c]) =>
          /\ Lasting(p)
          /\ pc' = "send" => /\ p.http_task.state # "FINISHED_STATE"
                             /\ p.receiving_buffer = <<>> \/ has_read'
          /\ pc' = "http" /\ p.http_task.state = "FINISHED_STATE" => p.receiving_buffer = <<>>

LEMMA TurnWelcome ==
  ASSUME Full, WelcomeInv, pc \notin {"dead", "exit"}, script' = script, Me.socket # NULL,
         NEW p, p.socket = Me.socket,
         \A s \in Slot : connection_list'[s] = IF s = cur THEN p ELSE connection_list[s],
         \A d \in Client : /\ d # Me.socket => net'[d] = net[d]
                           /\ net'[d].st = net[d].st /\ net'[d].conn = net[d].conn,
         Turn(p, Me.socket)
  PROVE  WelcomeInv'
<1> DEFINE c == Me.socket
<1>1. /\ cur \in Slot /\ DOMAIN connection_list = Slot /\ Me = connection_list[cur]
      /\ cur \in Nat
  BY CurrentTyped DEF Slot
<1>2. ASSUME NEW s \in Slot, s # cur PROVE Welcome(s)'
  <2>1. Welcome(s) /\ ~AtWork(s) /\ connection_list'[s] = connection_list[s]
    BY <1>1, <1>2 DEF WelcomeInv, AtWork
  <2>2. connection_list[s].socket # NULL =>
          Endures(net[connection_list[s].socket], net'[connection_list[s].socket])
    <3> SUFFICES ASSUME connection_list[s].socket # NULL
                 PROVE  Endures(net[connection_list[s].socket], net'[connection_list[s].socket])
      OBVIOUS
    <3>1. connection_list[s].socket \in Client /\ connection_list[s].socket # c
      BY <1>1, <1>2, TwoClients
    <3> QED
      BY <3>1 DEF Endures
  <2>3. NextSlot \/ (cur' = cur /\ rfds' = rfds)
    BY DEF Turn
  <2> QED
    BY <1>2, <2>1, <2>2, <2>3, StillWelcome
<1>4. ASSUME NEW s \in Slot, s = cur PROVE Welcome(s)'
  <2>1. connection_list'[s] = p /\ p.socket = c
    BY <1>1, <1>4
  <2>2. c \in Client
    BY <1>1 DEF Full, IInv, SlotInv, Sockets
  <2>3. Excused(script, c, net'[c]) <=> Excused(script, c, net[c])
    BY <2>2 DEF Excused
  <2>4. CASE NextSlot
    <3>1. ~AtWork(s)' /\ (Past(s)' \/ rfds' = {})
      BY <1>1, <1>4, <2>4 DEF AtWork, Past, NextSlot
    <3>2. ~Excused(script, c, net[c]) => Lasting(p) /\ Rested(p)
      BY <2>4 DEF Turn, Rested, NextSlot
    <3> QED
      BY <2>1, <2>3, <3>1, <3>2 DEF Welcome
  <2>5. CASE ~NextSlot
    <3>1. AtWork(s)' /\ Past(s)'
      BY <1>1, <1>4, <2>5 DEF AtWork, Past, Turn
    <3> QED
      BY <2>1, <2>3, <2>5, <3>1 DEF Welcome, Turn
  <2> QED
    BY <2>4, <2>5
<1>5. /\ rfds' \subseteq rfds
      /\ \A s \in Slot : Welcome(s)'
  BY <1>2, <1>4 DEF Turn, NextSlot
<1> QED
  BY <1>5, WelcomeStep

\* A connection is closed for a reason.
LEMMA CloseWelcome ==
  ASSUME Able, WelcomeInv, pc \notin {"dead", "exit"}, script' = script, Me.socket # NULL,
         NEW k, Halts(k, Me.socket, Me.sending_buffer), k[Me.socket].conn = net[Me.socket].conn,
         close_client_connection(cur, k), NextSlot,
         Excused(script, Me.socket, net[Me.socket])
  PROVE  WelcomeInv'
<1> DEFINE c == Me.socket
<1>0. Full
  BY DEF Able
<1>1. /\ cur \in Slot /\ DOMAIN connection_list = Slot /\ Me = connection_list[cur]
      /\ DOMAIN Me = PeerFields /\ c \in Client /\ cur \in Nat
  BY <1>0, CurrentTyped DEF Full, IInv, SlotInv, Sockets, Slot
<1>2. net' = [k EXCEPT ![c].conn = "closed", ![c].inq = <<>>]
  BY <1>1 DEF close_client_connection, Peer, NO_SOCKET
<1>3. \A d \in Client : /\ d # c => net'[d] = net[d]
                        /\ net'[d].st = net[d].st /\ (d = c => net'[d].conn = "closed")
  BY <1>1, <1>2 DEF Halts, NetFields
<1>4. \A s \in Slot : connection_list'[s] = IF s = cur THEN Vacated(Me) ELSE connection_list[s]
  BY <1>1 DEF close_client_connection
<1>5. ASSUME NEW s \in Slot, s = cur PROVE Welcome(s)'
  <2>1. connection_list'[s].socket = NULL
    BY <1>1, <1>4, <1>5 DEF Vacated, PeerFields, NO_SOCKET
  <2> QED
    BY <2>1 DEF Welcome
<1>6. ASSUME NEW s \in Slot, s # cur PROVE Welcome(s)'
  <2>1. Welcome(s) /\ ~AtWork(s) /\ connection_list'[s] = connection_list[s]
    BY <1>4, <1>6 DEF WelcomeInv, AtWork
  <2>2. connection_list[s].socket # NULL =>
          Endures(net[connection_list[s].socket], net'[connection_list[s].socket])
    <3> SUFFICES ASSUME connection_list[s].socket # NULL
                 PROVE  Endures(net[connection_list[s].socket], net'[connection_list[s].socket])
      OBVIOUS
    <3>1. connection_list[s].socket \in Client /\ connection_list[s].socket # c
      BY <1>0, <1>1, <1>6, TwoClients
    <3> QED
      BY <1>3, <3>1 DEF Endures
  <2> QED
    BY <1>0, <2>1, <2>2, StillWelcome
<1>7. rfds' \subseteq rfds
  BY DEF NextSlot
<1> QED
  BY <1>3, <1>5, <1>6, <1>7, WelcomeStep
-----------------------------------------------------------------------------
(* The event loop.                                                         *)

\* Who is neither excused nor at work rests.
LEMMA WelcomeWaits ==
  ASSUME WelcomeInv, pc \notin {"dead", "exit"}, NEW s \in Slot, ~AtWork(s),
         connection_list[s].socket # NULL,
         ~Excused(script, connection_list[s].socket, net[connection_list[s].socket])
  PROVE  LET p == connection_list[s]
             c == p.socket
         IN /\ Lasting(p) /\ Rested(p)
            /\ SockFd(c) \in rfds /\ ~Past(s) => net[c].inq # <<>>
  BY DEF WelcomeInv, Welcome

LEMMA SelectWelcome ==
  ASSUME Able, AnswerInv, WelcomeInv, Select PROVE WelcomeInv'
<1>1. /\ script' = script /\ net' = net /\ connection_list' = connection_list
      /\ pc = "select" /\ pc' = "accept" /\ cur' = cur /\ rfds' = ReadyToRead
  BY DEF Select, peers, world
<1>2. ~Undue'
  BY <1>1 DEF WelcomeInv, Undue, Excused, MayClose
<1>3. ASSUME NEW c \in Client, SockFd(c) \in ReadyToRead
      PROVE  /\ net[c].conn # "none"
             /\ net[c].inq # <<>> \/ net[c].st \in {"shut", "gone"}
  <2>1. PICK t \in Connected : SockFd(c) = SockFd(Peer(t).socket) /\ Readable(Peer(t).socket)
    BY <1>3 DEF ReadyToRead, SockFd, ListenFd, StdoutFd
  <2>2. t \in Slot /\ connection_list[t].socket = c /\ connection_list[t].socket # NULL
    BY <2>1 DEF SockFd, Connected, Peer, NO_SOCKET
  <2>3. net[c].conn = "open"
    BY <2>2, Serving
  <2> QED
    BY <2>1, <2>2, <2>3 DEF Readable, Peer
<1>4. Heralds'
  BY <1>1, <1>3 DEF Heralds, SockFd
<1>5. ASSUME NEW s \in Slot PROVE Welcome(s)'
  <2> DEFINE p == connection_list[s]
             c == p.socket
  <2>1. ~AtWork(s)' /\ ~AtWork(s)
    BY <1>1 DEF AtWork
  <2>2. SUFFICES ASSUME c # NULL, ~Excused(script, c, net[c])
                 PROVE  Lasting(p) /\ Rested(p) /\ (SockFd(c) \in rfds' => net[c].inq # <<>>)
    BY <1>1, <2>1 DEF Welcome
  <2>3. Lasting(p) /\ Rested(p)
    BY <1>1, <2>1, <2>2, WelcomeWaits
  <2>4. c \in Client
    BY <2>2, Serving
  <2> QED
    BY <1>1, <1>3, <2>2, <2>3, <2>4 DEF Excused
<1> QED
  BY <1>1, <1>2, <1>4, <1>5 DEF WelcomeInv, Slot

\* Nobody's turn comes or goes, and no connection changes.
LEMMA SameWelcome ==
  ASSUME Full, WelcomeInv, pc \notin {"dead", "exit"},
         UNCHANGED <<connection_list, script, net>>,
         \A s \in Slot : ~AtWork(s),
         NextSlot \/ (cur' = cur /\ rfds' = rfds /\ pc' \notin {"send", "http"})
  PROVE  WelcomeInv'
<1>1. ASSUME NEW s \in Slot PROVE Welcome(s)'
  <2>1. Welcome(s)
    BY DEF WelcomeInv
  <2>2. connection_list[s].socket # NULL =>
           Endures(net[connection_list[s].socket], net'[connection_list[s].socket])
    BY DEF Endures
  <2> QED
    BY <2>1, <2>2, StillWelcome
<1>2. rfds' \subseteq rfds
  BY DEF NextSlot
<1> QED
  BY <1>1, <1>2, WelcomeStep

\* A client that has just been accepted has not been looked at by select.
LEMMA AcceptedWelcome ==
  ASSUME Able, AnswerInv, WelcomeInv, pc = "accept", GoTo("cgi_write"),
         NEW s \in Slot, NEW c \in Client, net[c].conn = "none",
         connection_list[s].socket = NULL,
         connection_list' = [connection_list EXCEPT
           ![s] = [@ EXCEPT !.socket = c, !.close_conn = FALSE, !.http_task = FreshTask]],
         net' = [net EXCEPT ![c].conn = "open"], script' = script
  PROVE  WelcomeInv'
<1> DEFINE old == connection_list[s]
           p == [old EXCEPT !.socket = c, !.close_conn = FALSE, !.http_task = FreshTask]
<1>0. Full /\ pc' = "cgi_write" /\ cur' = cur /\ rfds' = rfds
  BY DEF Able, GoTo
<1>1. /\ DOMAIN connection_list = Slot /\ DOMAIN old = PeerFields
      /\ DOMAIN net = Client /\ DOMAIN net[c] = NetFields
  BY <1>0 DEF Full, IInv, SlotInv, Shape
<1>2. Emptied(old)
  BY DEF Able, FreeInv
<1>3. /\ p.socket = c /\ p.http_task = FreshTask /\ p.receiving_buffer = <<>>
      /\ p.close_conn = FALSE
  BY <1>1, <1>2 DEF PeerFields, Emptied
<1>4. \A t \in Slot : connection_list'[t] = IF t = s THEN p ELSE connection_list[t]
  BY <1>1
<1> HIDE DEF p
<1>5. /\ \A d \in Client : d # c => net'[d] = net[d]
      /\ net'[c].conn = "open" /\ net'[c].st = net[c].st
  BY <1>1 DEF NetFields
<1>6. ASSUME NEW t \in Slot, t # s PROVE Welcome(t)'
  <2>1. Welcome(t) /\ ~AtWork(t) /\ connection_list'[t] = connection_list[t]
    BY <1>4, <1>6 DEF WelcomeInv, AtWork
  <2>2. connection_list[t].socket # NULL =>
          Endures(net[connection_list[t].socket], net'[connection_list[t].socket])
    <3> SUFFICES ASSUME connection_list[t].socket # NULL
                 PROVE  Endures(net[connection_list[t].socket], net'[connection_list[t].socket])
      OBVIOUS
    <3>1. connection_list[t].socket \in Client /\ net[connection_list[t].socket].conn = "open"
      BY Serving
    <3> QED
      BY <1>5, <3>1 DEF Endures
  <2> QED
    BY <1>0, <2>1, <2>2, StillWelcome
<1>7. Welcome(s)'
  <2>1. SockFd(c) \notin rfds
    BY DEF WelcomeInv, Heralds
  <2>2. connection_list'[s] = p /\ ~AtWork(s)'
    BY <1>0, <1>4 DEF AtWork
  <2>3. Lasting(p) /\ Rested(p)
    <3>1. FreshTask.state = "RECV_HEADER_STATE" /\ FreshTask.parse_buf = <<>>
      BY DEF FreshTask
    <3> QED
      BY <1>3, <3>1 DEF Lasting, Rested
  <2> QED
    BY <1>0, <1>3, <2>1, <2>2, <2>3 DEF Welcome
<1> QED
  BY <1>0, <1>5, <1>6, <1>7, WelcomeStep

LEMMA AcceptWelcome ==
  ASSUME Able, AnswerInv, WelcomeInv, Accept PROVE WelcomeInv'
<1>0. Full
  BY DEF Able
<1>1. pc = "accept" /\ script' = script /\ GoTo("cgi_write")
  BY DEF Accept
<1>2. CASE UNCHANGED <<connection_list, net>>
  BY <1>0, <1>1, <1>2, SameWelcome DEF AtWork, GoTo
<1>3. CASE ListenFd \in rfds /\ handle_new_connection /\ ~UNCHANGED <<connection_list, net>>
  <2> DEFINE c == Head(backlog)
  <2>1. backlog \in Seq(Client) /\ backlog # <<>>
    BY <1>0, <1>1, <1>3 DEF Full, IInv, SlotInv, BacklogInv, AcceptInv
  <2>2. c \in Client /\ net[c].conn = "none"
    <3>1. c = backlog[1] /\ 1 \in 1 .. Len(backlog) /\ c \in Client
      BY <2>1
    <3> QED
      BY <1>0, <3>1 DEF Full, IInv, SlotInv, BacklogInv
  <2> HIDE DEF c
  <2>3. CASE \E s \in Slot :
               /\ connection_list[s].socket = NULL
               /\ connection_list' = [connection_list EXCEPT
                    ![s] = [@ EXCEPT !.socket = c, !.close_conn = FALSE,
                                     !.http_task = FreshTask]]
               /\ net' = [net EXCEPT ![c].conn = "open"]
    BY <1>1, <2>2, <2>3, AcceptedWelcome
  <2>4. CASE /\ net' = [net EXCEPT ![c].conn = "refused", ![c].inq = <<>>]
             /\ connection_list' = connection_list
    <3>1. DOMAIN net = Client /\ DOMAIN net[c] = NetFields
      BY <1>0, <2>2 DEF Full, IInv, SlotInv, Shape
    <3>2. /\ net'[c].conn = "refused" /\ net'[c].st = net[c].st
          /\ \A d \in Client : d # c => net'[d] = net[d]
      BY <2>2, <2>4, <3>1 DEF NetFields
    <3>3. ASSUME NEW s \in Slot PROVE Welcome(s)'
      <4>1. Welcome(s) /\ ~AtWork(s)
        BY <1>1 DEF WelcomeInv, AtWork
      <4>2. connection_list[s].socket # NULL =>
              Endures(net[connection_list[s].socket], net'[connection_list[s].socket])
        <5> SUFFICES ASSUME connection_list[s].socket # NULL
                     PROVE  Endures(net[connection_list[s].socket], net'[connection_list[s].socket])
          OBVIOUS
        <5>1. connection_list[s].socket \in Client /\ net[connection_list[s].socket].conn = "open"
          BY Serving
        <5> QED
          BY <2>2, <3>2, <5>1 DEF Endures
      <4> QED
        BY <1>0, <1>1, <2>4, <4>1, <4>2, StillWelcome DEF GoTo
    <3> QED
      BY <1>1, <3>2, <3>3, WelcomeStep DEF GoTo
  <2> QED
    BY <1>3, <2>3, <2>4 DEF handle_new_connection, Peer, NO_SOCKET, c
<1> QED
  BY <1>2, <1>3 DEF Accept

LEMMA RecvWelcome ==
  ASSUME Able, AnswerInv, WelcomeInv, Recv PROVE WelcomeInv'
<1> DEFINE c == Me.socket
           x == Received
           p == [Me EXCEPT !.receiving_buffer = @ \o x]
           k == net[c]
           in == SockFd(c) \in rfds
<1>0. Full
  BY DEF Able
<1>1. /\ pc = "recv" /\ c # NULL /\ script' = script
      /\ pc' = "send" /\ cur' = cur /\ rfds' = rfds
      /\ has_read' = (in \/ Me.receiving_buffer # <<>>)
  BY DEF Recv, GoTo, NO_SOCKET
<1>2. /\ cur \in Slot /\ DOMAIN connection_list = Slot /\ Me = connection_list[cur]
      /\ DOMAIN Me = PeerFields /\ Task = Me.http_task
  BY <1>0, CurrentTyped
<1>3. c \in Client
  BY <1>1, <1>2, Serving
<1>4. DOMAIN net = Client /\ DOMAIN k = NetFields
  BY <1>0, <1>3 DEF Full, IInv, SlotInv, Shape
<1>5. ASSUME ~Excused(script, c, k)
      PROVE  Lasting(Me) /\ Rested(Me)
  <2>1. ~AtWork(cur)
    BY <1>1 DEF AtWork
  <2> QED
    BY <1>1, <1>2, <1>5, <2>1, WelcomeWaits
<1>6. CASE in
  <2>1. \A s \in Slot : connection_list'[s] = IF s = cur THEN p ELSE connection_list[s]
    BY <1>2, <1>6 DEF Recv, ReceiveFromPeer
  <2>2. /\ p.socket = c /\ p.http_task = Me.http_task /\ p.close_conn = Me.close_conn
    BY <1>2 DEF PeerFields
  <2> HIDE DEF p, x
  <2>3. net' = [net EXCEPT ![c].inq = Drop(@, Len(Received))]
    BY <1>6 DEF Recv, ReceiveFromPeer
  <2>4. \A d \in Client : /\ d # c => net'[d] = net[d]
                          /\ net'[d].st = net[d].st /\ net'[d].conn = net[d].conn
    BY <1>3, <1>4, <2>3 DEF NetFields
  <2>5. has_read' = TRUE
    BY <1>1, <1>6
  <2>6. Turn(p, c)
    BY <1>1, <1>5, <2>2, <2>5 DEF Turn, Lasting, Rested
  <2> QED
    BY <1>0, <1>1, <2>1, <2>2, <2>4, <2>6, TurnWelcome
<1>7. CASE ~in
  <2>1. connection_list' = connection_list /\ net' = net
    BY <1>7 DEF Recv
  <2>2. Turn(Me, c)
    BY <1>1, <1>5 DEF Turn, Rested
  <2> QED
    BY <1>0, <1>1, <1>2, <2>1, <2>2, TurnWelcome
<1> QED
  BY <1>6, <1>7

\* There is something to receive and room for it, and nothing is taken for a failure.
LEMMA RecvClosesWelcome ==
  ASSUME Able, AnswerInv, WelcomeInv, OneBytePart = {}, RecvCloses PROVE WelcomeInv'
<1> DEFINE c == Me.socket
           i == net[c].inq
           S == PieceOf(script, c)
<1>0. Full /\ InputInv
  BY DEF Able
<1>1. /\ pc = "recv" /\ c # NULL /\ script' = script /\ SockFd(c) \in rfds
      /\ ReceiveFails /\ close_client_connection(cur, net) /\ NextSlot
  BY DEF RecvCloses, CloseSlot, NO_SOCKET
<1>2. cur \in Slot /\ Me = connection_list[cur] /\ cur \in Nat
  BY <1>0, CurrentTyped DEF Slot
<1>3. Excused(script, c, net[c])
  <2> SUFFICES ASSUME ~Excused(script, c, net[c]) PROVE FALSE
    OBVIOUS
  <2>1. ~AtWork(cur) /\ ~Past(cur)
    BY <1>1, <1>2 DEF AtWork, Past
  <2>2. Me.receiving_buffer = <<>> /\ i # <<>>
    BY <1>1, <1>2, <2>1, WelcomeWaits DEF Rested
  <2>3. i \in Seq(S) /\ Len(i) \in Nat /\ Len(i) > 0
    <3>1. i \in Seq(S)
      BY <1>0, <1>1, <1>2, SlotOfClient
    <3> HIDE DEF i, S
    <3> QED
      BY <2>2, <3>1, EmptySeq, LenProperties
  <2>4. Received = <<>>
    BY <1>1 DEF ReceiveFails, TakenForFailure
  <2> DEFINE n == Least(Len(i), Room(Me.receiving_buffer))
  <2>5. n \in 1 .. Len(i)
    <3>1. Room(Me.receiving_buffer) = BUF_DATA_MAXSIZE
      BY <2>2, EmptySeq, StateAssumption DEF Room
    <3> DEFINE l == Len(i)
               r == Room(Me.receiving_buffer)
    <3>2. l \in Nat /\ l > 0 /\ r \in Nat /\ r >= 4
      BY <2>3, <3>1, StateAssumption
    <3> HIDE DEF l, r
    <3>3. Least(l, r) \in 1 .. l
      BY ONLY <3>2 DEF Least
    <3> QED
      BY <3>3 DEF l, r
  <2>6. Received = Take(i, n)
    BY DEF Received
  <2> HIDE DEF n, i, S
  <2>7. n \in 0 .. Len(i)
    BY <2>3, <2>5
  <2>8. Len(Take(i, n)) = n
    BY <2>3, <2>7, TakeType
  <2>9. Len(<<>>) = 0
    OBVIOUS
  <2> QED
    BY <2>4, <2>5, <2>6, <2>8, <2>9
<1>4. Halts(net, c, Me.sending_buffer)
  BY <1>1, NetHalts
<1> QED
  BY <1>1, <1>3, <1>4, CloseWelcome

LEMMA SendWelcome ==
  ASSUME Able, AnswerInv, WelcomeInv, Send PROVE WelcomeInv'
<1> DEFINE c == Me.socket
           k == net[c]
           p == IF Sends THEN [Me EXCEPT !.sending_buffer = Drop(@, Taken)] ELSE Me
<1>0. Full
  BY DEF Able
<1>1. /\ pc = "send" /\ script' = script
      /\ IF has_read \/ Sends
           THEN /\ cur' = cur /\ rfds' = rfds /\ pc' = "http"
           ELSE NextSlot
  BY DEF Send, GoTo
<1>2. /\ cur \in Slot /\ DOMAIN connection_list = Slot /\ Me = connection_list[cur]
      /\ DOMAIN Me = PeerFields /\ Task = Me.http_task
  BY <1>0, CurrentTyped
<1>3. c # NULL
  BY <1>0, <1>1, <1>2 DEF Full, Typed, Control
<1>4. \A s \in Slot : connection_list'[s] = IF s = cur THEN p ELSE connection_list[s]
  BY <1>2 DEF Send, SendToPeer
<1>5. /\ p.socket = c /\ p.http_task = Me.http_task /\ p.close_conn = Me.close_conn
      /\ p.receiving_buffer = Me.receiving_buffer
  BY <1>2 DEF PeerFields
<1>6. \A d \in Client : /\ d # c => net'[d] = net[d]
                        /\ net'[d].st = net[d].st /\ net'[d].conn = net[d].conn
  <2>1. net' = net \/ net' = SentByKernel
    BY DEF Send, SendToPeer
  <2> QED
    BY <1>3, <2>1, SentByKernelIs
<1>7. ASSUME ~Excused(script, c, k)
      PROVE  /\ Lasting(Me) /\ Task.state # "FINISHED_STATE"
             /\ Me.receiving_buffer = <<>> \/ has_read
  <2>1. AtWork(cur) /\ Welcome(cur)
    BY <1>1, <1>2 DEF AtWork, WelcomeInv
  <2> QED
    BY <1>1, <1>2, <1>3, <1>7, <2>1 DEF Welcome
<1> HIDE DEF p
<1>8. Turn(p, c)
  BY <1>1, <1>2, <1>5, <1>7 DEF Turn, Lasting, Rested
<1> QED
  BY <1>0, <1>1, <1>3, <1>4, <1>5, <1>6, <1>8, TurnWelcome

\* send has failed: nothing else was a reason to close.
LEMMA SendClosesWelcome ==
  ASSUME Able, AnswerInv, WelcomeInv, SendCloses PROVE WelcomeInv'
<1> DEFINE c == Me.socket
<1>0. Full
  BY DEF Able
<1>1. /\ pc = "send" /\ script' = script /\ SendSaysClose
      /\ close_client_connection(cur, SentByKernel) /\ NextSlot
  BY DEF SendCloses, CloseSlot
<1>2. cur \in Slot /\ Me = connection_list[cur]
  BY <1>0, CurrentTyped
<1>3. c # NULL
  BY <1>0, <1>1, <1>2 DEF Full, Typed, Control
<1>4. Excused(script, c, net[c])
  <2>1. Welcome(cur)
    BY <1>1, <1>2 DEF WelcomeInv
  <2>2. ~Excused(script, c, net[c]) => ~Me.close_conn
    BY <1>2, <1>3, <2>1 DEF Welcome, Lasting
  <2>3. net[c].st = "gone" => Excused(script, c, net[c])
    BY DEF Excused
  <2> QED
    BY <1>1, <2>2, <2>3 DEF SendSaysClose
<1>5. Halts(SentByKernel, c, Me.sending_buffer) /\ SentByKernel[c].conn = net[c].conn
  BY <1>3, SentHalts, SentByKernelIs
<1> QED
  BY <1>1, <1>3, <1>4, <1>5, CloseWelcome
-----------------------------------------------------------------------------
(* handle_http.                                                            *)

\* The handler goes on, or leaves its slot.
LEMMA HandlerWelcome ==
  ASSUME Full, WelcomeInv, pc = "http", NEW p,
         connection_list' = [connection_list EXCEPT ![cur] = p],
         script' = script, net' = net, p.socket = Me.socket,
         UNCHANGED loop \/ NextSlot,
         ~Excused(script, Me.socket, net[Me.socket]) =>
           /\ Lasting(p)
           /\ p.http_task.state = "FINISHED_STATE" => p.receiving_buffer = <<>>
           /\ NextSlot => Rested(p)
  PROVE  WelcomeInv'
<1>1. /\ DOMAIN connection_list = Slot /\ Me.socket # NULL
  BY CurrentTyped
<1>2. \A s \in Slot : connection_list'[s] = IF s = cur THEN p ELSE connection_list[s]
  BY <1>1
<1>3. Turn(p, Me.socket)
  BY DEF Turn, loop
<1> QED
  BY <1>1, <1>2, <1>3, TurnWelcome

\* What the handler finds.
LEMMA HandlerFinds ==
  ASSUME Able, AnswerInv, WelcomeInv, pc = "http", ~Excused(script, Me.socket, net[Me.socket])
  PROVE  /\ Lasting(Me) /\ net[Me.socket].st # "gone"
         /\ Task.state = "FINISHED_STATE" => Me.receiving_buffer = <<>>
<1>1. cur \in Slot /\ Me = connection_list[cur] /\ Task = Me.http_task /\ Me.socket # NULL
  BY CurrentTyped DEF Able
<1>2. Welcome(cur) /\ AtWork(cur)
  BY <1>1 DEF WelcomeInv, AtWork
<1> QED
  BY <1>1, <1>2 DEF Welcome, Excused

\* The task that sends a file sends that of its own request.
LEMMA OwnFile ==
  ASSUME Able, AnswerInv, pc = "http", net[Me.socket].st # "gone", SendsFile(Task)
  PROVE  /\ Task.fp.of = Task.own /\ (Task.state = "SEND_HEADER_STATE" => Task.fp.pos = 0)
         /\ Task.own[2] \in 1 .. Len(script[Me.socket]) /\ Task.own = <<Me.socket, Task.own[2]>>
<1>1. cur \in Slot /\ Me = connection_list[cur] /\ Task = Me.http_task /\ Me.socket # NULL
  BY CurrentTyped DEF Able
<1>2. /\ Serves(Replies, script, Me, net[Me.socket])
      /\ Task.own # None => /\ Task.own[2] \in 1 .. Len(script[Me.socket])
                            /\ Task.own = <<Me.socket, Task.own[2]>>
  BY <1>1, Serving
<1>3. Task.own # None /\ Task.fp.of = Task.own /\ (Task.state = "SEND_HEADER_STATE" => Task.fp.pos = 0)
  BY <1>1, <1>2 DEF Serves, Owes, Pays, SendsFile
<1> QED
  BY <1>2, <1>3

LEMMA HeaderIncompleteWelcome ==
  ASSUME Able, AnswerInv, WelcomeInv, HeaderIncomplete PROVE WelcomeInv'
<1> DEFINE c == Me.socket
           h == Task.parse_buf
           w == Incoming
           S == Piece(script)
           new == [Task EXCEPT !.parse_buf = h \o w]
           p == [Me EXCEPT !.receiving_buffer = <<>>, !.http_task.parse_buf = @ \o Incoming]
<1>0. Full
  BY DEF Able
<1>1. /\ pc = "http" /\ Task.state = "RECV_HEADER_STATE" /\ EndsHeader = {}
      /\ connection_list' = [connection_list EXCEPT ![cur] = p]
      /\ script' = script /\ net' = net /\ NextSlot
  BY DEF HeaderIncomplete, InHandler, Return, world
<1>2. /\ DOMAIN Me = PeerFields /\ Task = Me.http_task /\ DOMAIN Task = TaskFields
      /\ TaskTyped(script, Task)
  BY <1>0, CurrentTyped
<1>3. /\ p.socket = c /\ p.receiving_buffer = <<>> /\ p.http_task = new
      /\ p.close_conn = Me.close_conn
  BY <1>2 DEF PeerFields
<1>4. new.state = "RECV_HEADER_STATE" /\ new.parse_buf = h \o w
  BY <1>1, <1>2 DEF TaskFields
<1> HIDE DEF p, new
<1>5. ASSUME \A i \in 1 .. Len(h) : h[i].part # "end"
      PROVE  \A i \in 1 .. Len(h \o w) : (h \o w)[i].part # "end"
  <2>1. \A i \in 1 .. Len(w) : w[i].part # "end"
    BY <1>1 DEF EndsHeader
  <2>2. h \in Seq(S) /\ w \in Seq(S)
    BY <1>0, <1>1, <1>2, IncomingType, ClientPieces DEF TaskTyped
  <2> HIDE DEF h, w, S
  <2>3. /\ Len(h \o w) = Len(h) + Len(w) /\ Len(h) \in Nat /\ Len(w) \in Nat
        /\ \A i \in 1 .. Len(h) + Len(w) : (h \o w)[i] = IF i <= Len(h) THEN h[i] ELSE w[i - Len(h)]
    BY <2>2, ConcatProperties, LenProperties
  <2> SUFFICES ASSUME NEW i \in 1 .. Len(h \o w) PROVE (h \o w)[i].part # "end"
    OBVIOUS
  <2>4. CASE i <= Len(h)
    BY <1>5, <2>3, <2>4
  <2>5. CASE ~(i <= Len(h))
    <3>1. i - Len(h) \in 1 .. Len(w)
      BY <2>3, <2>5
    <3> QED
      BY <2>1, <2>3, <2>5, <3>1
  <2> QED
    BY <2>4, <2>5
<1>6. ASSUME ~Excused(script, c, net[c]) PROVE Lasting(p) /\ Rested(p)
  <2>1. Lasting(Me)
    BY <1>1, <1>6, HandlerFinds
  <2>2. \A i \in 1 .. Len(h) : h[i].part # "end"
    BY <1>1, <1>2, <2>1 DEF Lasting
  <2>3. \A i \in 1 .. Len(h \o w) : (h \o w)[i].part # "end"
    BY <1>5, <2>2
  <2> HIDE DEF h, w
  <2> QED
    BY <1>2, <1>3, <1>4, <2>1, <2>3 DEF Lasting, Rested
<1> QED
  BY <1>0, <1>1, <1>3, <1>4, <1>6, HandlerWelcome

LEMMA RefusesWelcome ==
  ASSUME Able, AnswerInv, Posted(script), WelcomeInv, HeaderTooLong \/ HeaderRefused
  PROVE  WelcomeInv'
<1>0. Full
  BY DEF Able
<1>1. /\ pc = "http" /\ script' = script /\ close_client_connection(cur, net) /\ NextSlot
  BY DEF HeaderTooLong, HeaderRefused, HeaderComplete, InHandler, ReturnCloseNow
<1>2. cur \in Slot /\ Me.socket # NULL
  BY <1>0, <1>1, CurrentTyped
<1>3. Welcome(cur)
  BY <1>1, <1>2 DEF WelcomeInv
<1>4. Excused(script, Me.socket, net[Me.socket])
  BY <1>3, RefusedExcused
<1>5. Halts(net, Me.socket, Me.sending_buffer)
  BY <1>2, NetHalts
<1> QED
  BY <1>1, <1>2, <1>4, <1>5, CloseWelcome

\* The handler goes on with a task that is neither at a header nor at a file.
LEMMA WorksOn ==
  ASSUME Able, AnswerInv, WelcomeInv, pc = "http", NEW p,
         connection_list' = [connection_list EXCEPT ![cur] = p],
         script' = script, net' = net, p.socket = Me.socket, p.close_conn = Me.close_conn,
         UNCHANGED loop,
         p.http_task.state \notin {"RECV_HEADER_STATE", "SEND_BODY_STATE", "FINISHED_STATE"}
  PROVE  WelcomeInv'
<1>0. Full
  BY DEF Able
<1>1. ~NextSlot
  BY StateAssumption DEF NextSlot, loop
<1>2. ASSUME ~Excused(script, Me.socket, net[Me.socket]) PROVE Lasting(p)
  <2>1. Lasting(Me)
    BY <1>2, HandlerFinds
  <2> QED
    BY <2>1 DEF Lasting
<1> QED
  BY <1>0, <1>1, <1>2, HandlerWelcome

LEMMA HeaderParsedWelcome ==
  ASSUME Able, AnswerInv, WelcomeInv, HeaderParsed PROVE WelcomeInv'
<1> DEFINE r == Header[1].req
           t == [Task EXCEPT !.parse_buf = Header, !.own = r, !.last_request = RequestOf(r).close]
           new == Dispatch(t, RequestOf(r))
           p == [Me EXCEPT !.http_task = new, !.receiving_buffer = Drop(@, HeaderSize)]
<1>1. /\ pc = "http"
      /\ connection_list' = [connection_list EXCEPT ![cur] = p]
      /\ script' = script /\ net' = net /\ UNCHANGED loop
  BY DEF HeaderParsed, HeaderComplete, InHandler, world
<1>2. DOMAIN Me = PeerFields /\ DOMAIN Task = TaskFields
  BY CurrentTyped DEF Able
<1>3. DOMAIN t = TaskFields
  BY <1>2
<1> HIDE DEF t
<1>4. new.state \in {"CHECK_CGI", "RECV_BODY_STATE", "GENERATE_HEADER_STATE"}
  BY <1>3 DEF Dispatch, TaskFields
<1> HIDE DEF new
<1>5. p.socket = Me.socket /\ p.close_conn = Me.close_conn /\ p.http_task = new
  BY <1>2 DEF PeerFields
<1> HIDE DEF p
<1> QED
  BY <1>1, <1>4, <1>5, WorksOn

LEMMA GenerateHeaderWelcome ==
  ASSUME Able, AnswerInv, WelcomeInv, GenerateHeader PROVE WelcomeInv'
<1> DEFINE new == [Task EXCEPT
                     !.response_buf = @ \o NonBodyResponse(Task.own, Task.response_code),
                     !.state = "SEND_HEADER_STATE"]
           p == [Me EXCEPT !.http_task = new]
<1>1. /\ pc = "http"
      /\ connection_list' = [connection_list EXCEPT ![cur].http_task = new]
      /\ script' = script /\ net' = net /\ UNCHANGED loop
  BY DEF GenerateHeader, InHandler, Continue, world
<1>2. /\ DOMAIN Me = PeerFields /\ DOMAIN Task = TaskFields
      /\ cur \in Slot /\ Me = connection_list[cur]
  BY CurrentTyped DEF Able
<1>3. new.state = "SEND_HEADER_STATE"
  BY <1>2 DEF TaskFields
<1> HIDE DEF new
<1>4. connection_list' = [connection_list EXCEPT ![cur] = p]
  BY <1>1, <1>2
<1>5. p.socket = Me.socket /\ p.close_conn = Me.close_conn /\ p.http_task = new
  BY <1>2 DEF PeerFields
<1> HIDE DEF p
<1> QED
  BY <1>1, <1>3, <1>4, <1>5, WorksOn

LEMMA CheckStaticWelcome ==
  ASSUME Able, AnswerInv, WelcomeInv, CheckStatic PROVE WelcomeInv'
<1> DEFINE new == IF IsRead THEN StaticGet
                  ELSE [Task EXCEPT !.response_code = 200, !.state = "GENERATE_HEADER_STATE"]
           p == [Me EXCEPT !.http_task = new]
<1>1. /\ pc = "http"
      /\ connection_list' = [connection_list EXCEPT ![cur].http_task = new]
      /\ script' = script /\ net' = net /\ UNCHANGED loop
  BY DEF CheckStatic, InHandler
<1>2. /\ DOMAIN Me = PeerFields /\ DOMAIN Task = TaskFields
      /\ cur \in Slot /\ Me = connection_list[cur]
  BY CurrentTyped DEF Able
<1>3. new.state \in {"GENERATE_HEADER_STATE", "SEND_HEADER_STATE"}
  <2>1. CASE ~IsRead
    BY <1>2, <2>1 DEF TaskFields
  <2>2. CASE IsRead
    BY <1>2, <2>2 DEF TaskFields, StaticGet
  <2> QED
    BY <2>1, <2>2
<1> HIDE DEF new
<1>4. connection_list' = [connection_list EXCEPT ![cur] = p]
  BY <1>1, <1>2
<1>5. p.socket = Me.socket /\ p.close_conn = Me.close_conn /\ p.http_task = new
  BY <1>2 DEF PeerFields
<1> HIDE DEF p
<1> QED
  BY <1>1, <1>3, <1>4, <1>5, WorksOn

LEMMA FinishWelcome ==
  ASSUME Able, AnswerInv, WelcomeInv, Finish PROVE WelcomeInv'
<1> DEFINE new == reset_http_task(Task)
           p == [Me EXCEPT !.http_task = new]
<1>0. Full
  BY DEF Able
<1>1. /\ pc = "http" /\ Task.state = "FINISHED_STATE"
      /\ connection_list' = [connection_list EXCEPT ![cur] = p]
      /\ script' = script /\ net' = net /\ NextSlot
  BY DEF Finish, InHandler, Return, reset_http_task, FreshTask, world
<1>2. DOMAIN Me = PeerFields
  BY <1>0, CurrentTyped
<1>3. new.state = "RECV_HEADER_STATE" /\ new.parse_buf = <<>>
  BY DEF reset_http_task, FreshTask
<1> HIDE DEF new
<1>4. /\ p.socket = Me.socket /\ p.receiving_buffer = Me.receiving_buffer
      /\ p.http_task = new /\ p.close_conn = Me.close_conn
  BY <1>2 DEF PeerFields
<1> HIDE DEF p
<1>5. ASSUME ~Excused(script, Me.socket, net[Me.socket]) PROVE Lasting(p) /\ Rested(p)
  <2>1. Lasting(Me) /\ Me.receiving_buffer = <<>>
    BY <1>1, <1>5, HandlerFinds
  <2>2. Len(<<>>) = 0
    OBVIOUS
  <2> QED
    BY <1>3, <1>4, <2>1, <2>2 DEF Lasting, Rested
<1> QED
  BY <1>0, <1>1, <1>3, <1>4, <1>5, HandlerWelcome

\* The body of a request, in pieces: the handler waits with an empty buffer.
LEMMA ReceiveBodyWelcome ==
  ASSUME Able, AnswerInv, WelcomeInv, ReceiveBody PROVE WelcomeInv'
<1> DEFINE c == Me.socket
           b == Me.receiving_buffer
           have == Task.post_body
           n == Least(Len(b), Task.body_bytes_num - Len(have))
           more == [Task EXCEPT !.post_body = have \o Take(b, n)]
           p == [Me EXCEPT !.receiving_buffer = Drop(@, n),
                           !.http_task.post_body = @ \o Take(Me.receiving_buffer, n)]
           q == [p EXCEPT !.http_task.state = "CHECK_CGI"]
<1>0. Full
  BY DEF Able
<1>1. /\ pc = "http" /\ Task.state = "RECV_BODY_STATE"
      /\ \/ /\ connection_list' = [connection_list EXCEPT ![cur] = p] /\ NextSlot
            /\ Len(p.http_task.post_body) < Task.body_bytes_num
         \/ connection_list' = [connection_list EXCEPT ![cur] = q] /\ UNCHANGED loop
      /\ script' = script /\ net' = net
  BY DEF ReceiveBody, InHandler, Return, world
<1>2. /\ DOMAIN Me = PeerFields /\ Task = Me.http_task /\ DOMAIN Task = TaskFields
      /\ cur \in Slot /\ Me = connection_list[cur] /\ c # NULL
      /\ SlotTyped(script, Me) /\ TaskTyped(script, Task)
  BY <1>0, <1>1, CurrentTyped
<1>3. /\ p.socket = c /\ p.close_conn = Me.close_conn /\ p.receiving_buffer = Drop(b, n)
      /\ p.http_task = more /\ DOMAIN p = PeerFields
  <2> HIDE DEF n
  <2> QED
    BY <1>2 DEF PeerFields
<1>4. more.state = "RECV_BODY_STATE" /\ more.post_body = have \o Take(b, n) /\ DOMAIN more = TaskFields
  <2> HIDE DEF n
  <2> QED
    BY <1>1, <1>2 DEF TaskFields
<1> HIDE DEF p, more
<1>5. /\ q.socket = c /\ q.close_conn = Me.close_conn /\ q.http_task.state = "CHECK_CGI"
  BY <1>3, <1>4 DEF PeerFields, TaskFields
<1> HIDE DEF q
<1>6. CASE connection_list' = [connection_list EXCEPT ![cur] = q] /\ UNCHANGED loop
  BY <1>1, <1>5, <1>6, WorksOn
<1>7. CASE /\ connection_list' = [connection_list EXCEPT ![cur] = p] /\ NextSlot
           /\ Len(p.http_task.post_body) < Task.body_bytes_num
  <2>1. p.receiving_buffer = <<>>
    <3> DEFINE S == Piece(script)
               T == PieceOf(script, c)
               l == Len(b)
               m == Len(have)
               w == Task.body_bytes_num
               r == Take(b, n)
    <3>1. b \in Seq(T) /\ have \in Seq(S) /\ w \in Nat /\ m <= w
      <4>1. Task.state = "RECV_BODY_STATE"
        BY <1>1
      <4>2. b \in Seq(T)
        BY <1>2 DEF SlotTyped
      <4>3. have \in Seq(S)
        BY <1>2 DEF TaskTyped
      <4>4. w \in Nat /\ m <= w
        BY <1>2, <4>1 DEF TaskTyped
      <4> QED
        BY <4>2, <4>3, <4>4
    <3>2. l \in Nat /\ m \in Nat
      BY <3>1, LenProperties
    <3>3. n \in 0 .. l
      <4> HIDE DEF l, m, w
      <4>1. Least(l, w - m) \in 0 .. l
        BY ONLY <3>1, <3>2 DEF Least
      <4> QED
        BY <4>1 DEF l, m, w
    <3> HIDE DEF n
    <3>4. r \in Seq(S) /\ Len(r) = n
      <4>1. r \in Seq(T) /\ Len(r) = n
        BY <3>1, <3>3, TakeType
      <4> QED
        BY <4>1, ClientPieces
    <3> HIDE DEF r, S, T
    <3>5. Len(have \o r) = m + n
      BY <3>1, <3>4, ConcatProperties
    <3>6. m + n < w
      BY <1>3, <1>4, <1>7, <3>5 DEF r
    <3>7. n = l
      <4>1. n = Least(l, w - m)
        BY DEF n
      <4> HIDE DEF l, m, w
      <4> QED
        BY ONLY <3>1, <3>2, <3>6, <4>1 DEF Least
    <3> QED
      BY <1>3, <3>1, <3>7, DropAll
  <2>2. ASSUME ~Excused(script, c, net[c]) PROVE Lasting(p) /\ Rested(p)
    <3>1. Lasting(Me)
      BY <1>1, <2>2, HandlerFinds
    <3> QED
      BY <1>3, <1>4, <2>1, <3>1 DEF Lasting, Rested
  <2> QED
    BY <1>0, <1>1, <1>3, <1>4, <1>7, <2>2, HandlerWelcome
<1> QED
  BY <1>1, <1>6, <1>7

\* The header goes into the sending buffer, with the file or nothing to follow.
LEMMA SendHeaderWelcome ==
  ASSUME Able, AnswerInv, Posted(script), WelcomeInv, SendHeader PROVE WelcomeInv'
<1> DEFINE c == Me.socket
           y == Task.response_buf
           n == Least(Len(y), Room(Me.sending_buffer))
           new == [Task EXCEPT !.response_buf = Drop(@, Least(Len(@), n + 1)),
                               !.state = AfterHeader(Task)]
           p == [Me EXCEPT !.sending_buffer = @ \o Take(y, n), !.http_task = new]
<1>0. Full
  BY DEF Able
<1>1. /\ pc = "http" /\ Task.state = "SEND_HEADER_STATE"
      /\ connection_list' =
          [connection_list EXCEPT
             ![cur] = [Me EXCEPT
               !.sending_buffer = @ \o Take(y, n),
               !.http_task.response_buf = Drop(@, Least(Len(@), n + 1)),
               !.http_task.state = AfterHeader(Task)]]
      /\ script' = script /\ net' = net /\ UNCHANGED loop
  BY DEF SendHeader, InHandler, world
<1>2. /\ DOMAIN Me = PeerFields /\ Task = Me.http_task /\ DOMAIN Task = TaskFields
      /\ cur \in Slot /\ Me = connection_list[cur] /\ c # NULL
  BY <1>0, <1>1, CurrentTyped
<1>3. new.state = AfterHeader(Task) /\ new.fp = Task.fp
  BY <1>2 DEF TaskFields
<1>4. connection_list' = [connection_list EXCEPT ![cur] = p]
  BY <1>1, <1>2
<1>5. /\ p.socket = c /\ p.receiving_buffer = Me.receiving_buffer
      /\ p.close_conn = Me.close_conn /\ p.http_task = new
  <2> HIDE DEF new, n
  <2> QED
    BY <1>2 DEF PeerFields
<1>6. AfterHeader(Task) \in {"SEND_BODY_STATE", "FINISHED_STATE"}
  BY DEF AfterHeader
<1> HIDE DEF p, new
<1>7. ~NextSlot
  BY <1>1 DEF NextSlot, loop
<1>8. ASSUME ~Excused(script, c, net[c]) PROVE Lasting(p) /\ Me.receiving_buffer = <<>>
  <2>1. Lasting(Me) /\ net[c].st # "gone"
    BY <1>1, <1>8, HandlerFinds
  <2>2. AfterHeader(Task) = "SEND_BODY_STATE" => Task.fp.pos <= FileLen
    <3>1. AfterHeader(Task) = "SEND_BODY_STATE" => SendsFile(Task)
      BY <1>1 DEF AfterHeader, SendsFile
    <3>2. AfterHeader(Task) = "SEND_BODY_STATE" => Task.fp.pos = 0
      BY <1>1, <2>1, <3>1, OwnFile
    <3> QED
      BY <3>2, StateAssumption
  <2>3. Me.receiving_buffer = <<>>
    BY <1>1, <1>2, <2>1, NothingUnread
  <2> QED
    BY <1>3, <1>5, <1>6, <2>1, <2>2, <2>3 DEF Lasting
<1> QED
  BY <1>0, <1>1, <1>4, <1>5, <1>7, <1>8, HandlerWelcome

\* Part of the file goes into the sending buffer, and nothing was behind the request.
LEMMA SendBodyWelcome ==
  ASSUME Able, AnswerInv, Posted(script), WelcomeInv, SendBody PROVE WelcomeInv'
<1> DEFINE c == Me.socket
           f == Task.fp
           file == FileStream(f.of)
           n == Least(Len(file) - f.pos, Room(Me.sending_buffer))
           more == [Task EXCEPT !.fp = [f EXCEPT !.pos = @ + n]]
           p == [Me EXCEPT !.sending_buffer = @ \o SubSeq(file, f.pos + 1, f.pos + n),
                           !.http_task.fp.pos = @ + n]
           q == [p EXCEPT !.http_task.state = "FINISHED_STATE"]
<1>0. Full
  BY DEF Able
<1>1. /\ pc = "http" /\ Task.state = "SEND_BODY_STATE" /\ RequestOf(f.of).target # "dir"
      /\ \/ /\ connection_list' = [connection_list EXCEPT ![cur] = p] /\ NextSlot
            /\ p.http_task.fp.pos < Len(file)
         \/ connection_list' = [connection_list EXCEPT ![cur] = q] /\ UNCHANGED loop
      /\ script' = script /\ net' = net
  BY DEF SendBody, InHandler, Return
<1>2. /\ DOMAIN Me = PeerFields /\ Task = Me.http_task /\ DOMAIN Task = TaskFields
      /\ cur \in Slot /\ Me = connection_list[cur] /\ c # NULL
      /\ SlotTyped(script, Me) /\ TaskTyped(script, Task)
  BY <1>0, <1>1, CurrentTyped
<1>3. f \in [of : Asked(script), pos : 0 .. FileLen + 1]
  BY <1>1, <1>2 DEF TaskTyped, SendsFile
<1>4. p.http_task = more
  <2> HIDE DEF n, file
  <2> QED
    BY <1>2, <1>3 DEF PeerFields, TaskFields
<1>5. /\ p.socket = c /\ p.receiving_buffer = Me.receiving_buffer
      /\ p.close_conn = Me.close_conn /\ DOMAIN p = PeerFields
  <2> HIDE DEF n, file
  <2> QED
    BY <1>2 DEF PeerFields
<1>6. /\ Len(file) = FileLen + 1 /\ FileLen \in Nat
      /\ Me.sending_buffer \in Seq(Piece(script))
      /\ Len(Me.sending_buffer) <= BUF_DATA_MAXSIZE
  BY <1>2, <1>3, FileType, StateAssumption DEF SlotTyped
<1> HIDE DEF file, p, q
<1>7. f.pos \in Nat /\ n \in Nat
  <2>1. Len(Me.sending_buffer) \in Nat /\ f.pos \in 0 .. FileLen + 1
    BY <1>3, <1>6, LenProperties
  <2> QED
    BY <1>6, <2>1, StateAssumption DEF Least, Room
<1> HIDE DEF n
<1>8. more.state = "SEND_BODY_STATE" /\ more.fp.pos = f.pos + n /\ DOMAIN more = TaskFields
  BY <1>1, <1>2, <1>3 DEF TaskFields
<1> HIDE DEF more
<1>9. /\ q.http_task.state = "FINISHED_STATE" /\ q.socket = c
      /\ q.receiving_buffer = Me.receiving_buffer /\ q.close_conn = Me.close_conn
  BY <1>4, <1>5, <1>8 DEF PeerFields, TaskFields, q
<1>10. ASSUME ~Excused(script, c, net[c]) PROVE Lasting(Me) /\ Me.receiving_buffer = <<>>
  <2>1. Lasting(Me) /\ net[c].st # "gone"
    BY <1>1, <1>10, HandlerFinds
  <2>2. f.of = Task.own
    BY <1>1, <2>1, OwnFile DEF SendsFile
  <2>3. f.pos <= FileLen
    BY <1>1, <1>2, <2>1 DEF Lasting
  <2>4. Me.receiving_buffer = <<>>
    BY <1>1, <1>2, <2>1, <2>2, <2>3, NothingUnread
  <2> QED
    BY <2>1, <2>4
<1>11. CASE connection_list' = [connection_list EXCEPT ![cur] = q] /\ UNCHANGED loop
  <2>1. ~NextSlot
    BY <1>1, <1>11 DEF NextSlot, loop
  <2>2. ~Excused(script, c, net[c]) => Lasting(q)
    BY <1>9, <1>10 DEF Lasting
  <2> QED
    BY <1>0, <1>1, <1>9, <1>10, <1>11, <2>1, <2>2, HandlerWelcome
<1>12. CASE /\ connection_list' = [connection_list EXCEPT ![cur] = p] /\ NextSlot
            /\ p.http_task.fp.pos < Len(file)
  <2>1. f.pos + n <= FileLen
    BY <1>4, <1>6, <1>7, <1>8, <1>12
  <2>2. ~Excused(script, c, net[c]) => Lasting(p) /\ Rested(p)
    BY <1>4, <1>5, <1>8, <1>10, <2>1 DEF Lasting, Rested
  <2> QED
    BY <1>0, <1>1, <1>4, <1>5, <1>8, <1>12, <2>2, HandlerWelcome
<1> QED
  BY <1>1, <1>11, <1>12

\* Only a client that has asked for a directory is sent one.
LEMMA SendBodyFailsWelcome ==
  ASSUME Able, AnswerInv, WelcomeInv, SendBodyFails PROVE WelcomeInv'
<1> DEFINE c == Me.socket
<1>0. Full
  BY DEF Able
<1>1. /\ pc = "http" /\ Task.state = "SEND_BODY_STATE" /\ RequestOf(Task.fp.of).target = "dir"
      /\ NextSlot /\ script' = script
      /\ \/ UNCHANGED <<connection_list, net>>
         \/ close_client_connection(cur, net)
  BY DEF SendBodyFails, InHandler, ReturnCloseNow, peers, world
<1>2. cur \in Slot /\ Me = connection_list[cur] /\ c # NULL
  BY <1>0, <1>1, CurrentTyped
<1>3. Excused(script, c, net[c])
  <2>1. CASE net[c].st = "gone"
    BY <2>1 DEF Excused
  <2>2. CASE net[c].st # "gone"
    <3> DEFINE m == Task.own[2]
    <3>1. Task.fp.of = Task.own /\ m \in 1 .. Len(script[c]) /\ Task.own = <<c, m>>
      BY <1>1, <2>2, OwnFile DEF SendsFile
    <3>2. RequestOf(Task.own) = script[c][m]
      <4>1. Task.own[1] = c
        BY <3>1
      <4> QED
        BY <4>1 DEF RequestOf
    <3>3. MayClose(script[c][m])
      BY <1>1, <3>1, <3>2 DEF MayClose
    <3> QED
      BY <3>1, <3>3 DEF Excused
  <2> QED
    BY <2>1, <2>2
<1>4. CASE UNCHANGED <<connection_list, net>>
  <2>1. Turn(Me, c)
    BY <1>1, <1>3 DEF Turn
  <2> QED
    BY <1>0, <1>1, <1>2, <1>4, <2>1, TurnWelcome
<1>5. CASE close_client_connection(cur, net)
  BY <1>1, <1>2, <1>3, <1>5, NetHalts, CloseWelcome
<1> QED
  BY <1>1, <1>4, <1>5

LEMMA HandlerStepWelcome ==
  ASSUME Able, AnswerInv, Posted(script), WelcomeInv, Handler PROVE WelcomeInv'
<1>1. ~ProcessingCgi
  <2> SUFFICES ASSUME pc = "http" PROVE Task.state # "PROCESSING_CGI"
    BY DEF ProcessingCgi, InHandler
  <2>1. cur \in Slot /\ connection_list[cur].socket # NULL /\ Task = connection_list[cur].http_task
    BY CurrentTyped DEF Able
  <2> QED
    BY <2>1, Serving
<1>2. CASE HandlerDies
  BY <1>2, DeadWelcome DEF HandlerDies, Die
<1> QED
  BY <1>1, <1>2, HeaderIncompleteWelcome, RefusesWelcome, HeaderParsedWelcome,
     ReceiveBodyWelcome, GenerateHeaderWelcome, SendHeaderWelcome, CheckStaticWelcome,
     NoCgiAsked, SendBodyWelcome, SendBodyFailsWelcome, FinishWelcome
  DEF Handler

LEMMA ServerStepWelcome ==
  ASSUME Able, AnswerInv, Posted(script), OneBytePart = {}, WelcomeInv, ServerStep
  PROVE  WelcomeInv'
<1>0. Full
  BY DEF Able
<1>1. CASE SelectDies \/ CgiDies
  BY <1>1, DeadWelcome DEF SelectDies, CgiDies, Die
<1>2. CASE NoCgi \/ SkipSlot
  <2>1. /\ pc \in {"cgi_write", "recv"} /\ UNCHANGED <<connection_list, script, net>>
        /\ NextSlot \/ (cur' = cur /\ rfds' = rfds /\ pc' = "recv")
    BY <1>2 DEF NoCgi, SkipSlot, GoTo, peers, world
  <2>2. \A s \in Slot : ~AtWork(s)
    BY <2>1 DEF AtWork
  <2> QED
    BY <1>0, <2>1, <2>2, SameWelcome
<1> QED
  BY <1>1, <1>2, SelectWelcome, AcceptWelcome, NoChild, RecvWelcome, RecvClosesWelcome,
     SendWelcome, SendClosesWelcome, HandlerStepWelcome
  DEF ServerStep
-----------------------------------------------------------------------------
\* A client or a child goes on, and no connection is closed or begins.
LEMMA SurroundWelcome ==
  ASSUME Able, AnswerInv, WelcomeInv, UNCHANGED <<connection_list, script>>, UNCHANGED loop,
         \A c \in Client : Endures(net[c], net'[c])
  PROVE  WelcomeInv'
<1>1. ASSUME NEW s \in Slot, pc \notin {"dead", "exit"} PROVE Welcome(s)'
  <2>1. Welcome(s)
    BY <1>1 DEF WelcomeInv
  <2>2. connection_list[s].socket # NULL => connection_list[s].socket \in Client
    BY Serving
  <2> QED
    BY <2>1, <2>2, WelcomeUnmoved
<1>2. pc' = pc /\ rfds' = rfds
  BY DEF loop
<1> QED
  BY <1>1, <1>2, WelcomeStep DEF Endures

\* The surroundings end no connection, and take no bytes back from who stays.
LEMMA EnvironmentEndures ==
  ASSUME Full, Environment
  PROVE  /\ UNCHANGED <<connection_list, script>> /\ UNCHANGED loop
         /\ \A d \in Client : Endures(net[d], net'[d])
<1>1. /\ UNCHANGED <<connection_list, script>> /\ UNCHANGED loop
      /\ DOMAIN net = Client /\ \A d \in Client : DOMAIN net[d] = NetFields
  <2>1. UnchangedServer
    BY DEF Environment, Connect, ClientSend, ClientRead, ClientShutdown, ClientVanish,
           ChildRead, ChildWrite, ChildExit, ChildFails
  <2> QED
    BY <2>1 DEF UnchangedServer, peers, Full, IInv, SlotInv, Shape
<1>2. SUFFICES \A d \in Client : Endures(net[d], net'[d])
  BY <1>1
<1>3. ASSUME NEW p \in Pids, ChildRead(p) \/ ChildWrite(p) \/ ChildExit(p) \/ ChildFails(p)
      PROVE  net' = net
  BY <1>3 DEF ChildRead, ChildWrite, ChildExit, ChildFails
<1>4. ASSUME NEW c \in Client, NEW d \in Client, Connect(c) \/ ClientShutdown(c) \/ ClientRead(c)
      PROVE  Endures(net[d], net'[d])
  <2>1. CASE Connect(c)
    BY <1>1, <2>1 DEF Connect, NetFields, Endures
  <2>2. CASE ClientShutdown(c)
    BY <1>1, <2>2 DEF ClientShutdown, NetFields, Endures
  <2>3. CASE ClientRead(c)
    BY <1>1, <2>3 DEF ClientRead, NetFields, Endures
  <2> QED
    BY <1>4, <2>1, <2>2, <2>3
<1>5. ASSUME NEW c \in Client, NEW d \in Client, ClientVanish(c) PROVE Endures(net[d], net'[d])
  <2>1. PICK q \in {net[c].inq, <<>>} :
          net' = [net EXCEPT ![c].st = "gone", ![c].inq = q, ![c].outq = <<>>]
    BY <1>5 DEF ClientVanish
  <2> QED
    BY <1>1, <2>1 DEF NetFields, Endures
<1>6. ASSUME NEW c \in Client, NEW d \in Client, ClientSend(c) PROVE Endures(net[d], net'[d])
  <2> DEFINE i == net[c].inq
             x == RequestToken(c, net[c].next[1], net[c].next[2])
             w == IF net[c].next[2] < 2 + BodyLen(script[c][net[c].next[1]])
                    THEN <<net[c].next[1], net[c].next[2] + 1>> ELSE <<net[c].next[1] + 1, 1>>
  <2>1. net' = [net EXCEPT ![c].inq = Append(@, x), ![c].next = w]
    BY <1>6 DEF ClientSend
  <2>2. Append(i, x) # <<>>
    <3>1. i \in Seq(PieceOf(script, c))
      BY DEF Full, Typed, NetTyped
    <3> DEFINE S == PieceOf(script, c) \cup {x}
    <3>2. i \in Seq(S) /\ x \in S
      BY <3>1, SeqMonotonic
    <3> HIDE DEF S, i, x
    <3>3. Len(Append(i, x)) = Len(i) + 1 /\ Len(i) \in Nat /\ Len(<<>>) = 0
      BY <3>2, AppendProperties, LenProperties
    <3> QED
      BY <3>3
  <2> HIDE DEF x, w
  <2>3. /\ d # c => net'[d] = net[d]
        /\ net'[c].inq = Append(i, x) /\ net'[c].st = net[c].st /\ net'[c].conn = net[c].conn
    BY <1>1, <2>1 DEF NetFields
  <2> QED
    BY <2>2, <2>3 DEF Endures
<1> QED
  BY <1>3, <1>4, <1>5, <1>6 DEF Environment, Endures

LEMMA EnvironmentWelcome ==
  ASSUME Able, AnswerInv, WelcomeInv, Environment PROVE WelcomeInv'
  BY EnvironmentEndures, SurroundWelcome DEF Able

\* No signal is sent to the server, and no count of bytes is taken for a failure.
Undisturbed == OneBytePart = {} /\ Faults \cap {"sigint", "sigterm"} = {}

Hung == Orderly(script) /\ Posted(script) /\ Undisturbed => WelcomeInv

LEMMA InitHung == Init => Hung
<1> SUFFICES ASSUME Init PROVE WelcomeInv
  BY DEF Hung
<1>1. \A c \in Client : net[c].conn = "none"
  BY DEF Init
<1>2. \A s \in Slot : connection_list[s].socket = NULL
  BY DEF Init, FreshPeer, NO_SOCKET
<1>3. rfds = {}
  BY DEF Init
<1> QED
  BY <1>1, <1>2, <1>3 DEF WelcomeInv, Undue, Heralds, Welcome

LEMMA NextHung == Known /\ Owed /\ Hung /\ [Next]_vars => Hung'
<1> SUFFICES ASSUME Known, Owed, Hung, [Next]_vars, Orderly(script)', Posted(script)', Undisturbed
             PROVE  WelcomeInv'
  BY DEF Hung, Undisturbed
<1>1. Orderly(script) /\ Posted(script)
  BY AsksStay, ScriptStays DEF Orderly, Posted, Asked
<1>2. Able /\ AnswerInv /\ WelcomeInv
  BY <1>1, KnownAble DEF Owed, Hung
<1>3. CASE UNCHANGED vars
  <2>1. UNCHANGED <<connection_list, script>> /\ UNCHANGED loop /\ net' = net
    BY <1>3 DEF vars, loop, peers, world
  <2> QED
    BY <1>2, <2>1, SurroundWelcome DEF Endures
<1>4. ~Interrupt /\ ~SelectFails
  BY DEF Interrupt, SelectFails, Undisturbed
<1> QED
  BY <1>1, <1>2, <1>3, <1>4, ServerStepWelcome, EnvironmentWelcome DEF Next, Undisturbed

\* When the clients are orderly as above and send a body with a POST only, the server
\* is left to itself and no recv of one byte fails, the server closes a connection only
\* on a client that has stopped or that has asked for it: by a malformed request, for a
\* directory, or with Connection: close.  No close through a full buffer, a short
\* receive, a stale read set, a file at its end or a header that has come in pieces.
THEOREM ClosesDue ==
  Spec /\ []Enough => [](Orderly(script) /\ Posted(script) /\ Undisturbed => NoUndueClose)
<1>1. Init => Known /\ Owed /\ Hung
  BY InitBase, InitFreed, InitGiven, InitAnswers, InitHung DEF Known, Owed
<1>2. (Known /\ Owed /\ Hung) /\ Enough /\ [Next]_vars => (Known /\ Owed /\ Hung)'
  BY NextBase, NextFreed, NextGiven, NextOwed, NextHung DEF Known
<1>3. Known /\ Owed /\ Hung => (Orderly(script) /\ Posted(script) /\ Undisturbed => NoUndueClose)
  BY UndueMeans DEF Hung, WelcomeInv
<1> QED
  BY <1>1, <1>2, <1>3, PTL DEF Spec
-----------------------------------------------------------------------------
(* Scripts that are left alone.                                            *)

\* No client leaves, no script dies, no signal comes, and the requests for scripts leave
\* the connection open and are followed by what fits into the receiving buffer.
Attended(sc) ==
  /\ Faults = {} /\ OneBytePart = {} /\ ~Pipelined
  /\ Unshared(sc) /\ Posted(sc)
  /\ \A c \in Client : \A j \in 1 .. Len(sc[c]) : sc[c][j].target = "cgi" =>
       /\ ~sc[c][j].close
       /\ \A m \in j + 1 .. Len(sc[c]) : Size(sc, c, m) <= BUF_DATA_MAXSIZE

\* The tokens of the answer to r, and those that client c may be sent when its task is
\* at spot f: they are about requests that came before it.
Made(sc, r) == {x \in Piece(sc) : x.req = r}
Told(sc, c, f) == {x \in Piece(sc) : x.req[1] = c => Before(<<x.req[2], 1>>, f)}

\* A task at spot f, where it is at the beginning of a request unless it reads a body.
Follows(sc, c, t, f) ==
  /\ t.state # "RECV_BODY_STATE" => f[2] = 1
  /\ t.state # "RECV_HEADER_STATE" => t.own \in Asked(sc) /\ Before(<<t.own[2], 1>>, f)
  /\ SendsFile(t) => t.fp.of = t.own
  /\ t.response_buf \in Seq(Told(sc, c, f))

Echoes(sc, p, k) ==
  LET c == p.socket
      f == From(k, Unread(p.http_task, p.receiving_buffer, k.inq))
  IN /\ Follows(sc, c, p.http_task, f)
     /\ k.got \in Seq(Told(sc, c, f)) /\ k.outq \in Seq(Told(sc, c, f))
     /\ p.sending_buffer \in Seq(Told(sc, c, f))

\* A client that stays, and has seen of each answer a token before it went on.
Patient(sc, c, k) ==
  /\ k.st \in {"off", "on"} /\ k.got \in Seq(Piece(sc))
  /\ k.conn = "none" => k.got = <<>> /\ k.outq = <<>> /\ From(k, k.inq) = <<1, 1>>
  /\ \A j \in 2 .. Len(sc[c]) : Before(<<j, 1>>, k.next) =>
       \E i \in 1 .. Len(k.got) : k.got[i].req = <<c, j - 1>>

SlotEchoes(s) ==
  connection_list[s].socket # NULL =>
    Echoes(script, connection_list[s], net[connection_list[s].socket])

EchoInv ==
  /\ \A c \in Client : Patient(script, c, net[c])
  /\ \A s \in Slot : SlotEchoes(s)

\* What a script writes is about its own request.
OutputInv == \A r \in Asked(script) : proc[r].stdout \in Seq(Made(script, r))

\* The executors are those of the tasks that wait for them; nothing is left in a free
\* slot, and no connection is about to be closed.
Engaged(s) ==
  LET p == connection_list[s]
      t == p.http_task
      e == p.cgi_executor
  IN /\ p.socket = NULL => Emptied(p)
     /\ e # NULL <=> p.socket # NULL /\ t.state = "PROCESSING_CGI"
     /\ e # NULL => /\ execs[e].live /\ execs[e].pid = t.own
                    /\ t.own \in Asked(script) /\ script[t.own[1]][t.own[2]].target = "cgi"

EngagedInv == \A s \in Slot : Engaged(s)

\* The rest of the invariant, for scripts as above.
Sure == Base /\ OwnInv /\ ExecInv /\ EngagedInv /\ OutputInv /\ Attended(script)

LEMMA SureFull == ASSUME Sure PROVE Full /\ InputInv
  BY DEF Sure, Base

NowEchoes(s) ==
  connection_list'[s].socket # NULL =>
    Echoes(script, connection_list'[s], net'[connection_list'[s].socket])

\* Steps of one client at most, and of its slot.
LEMMA EchoStep ==
  ASSUME Full, EchoInv, script' = script, NEW c \in Client,
         \A d \in Client : d # c => net'[d] = net[d],
         Patient(script, c, net'[c]),
         \A s \in Slot : \/ connection_list'[s] = connection_list[s] /\ connection_list[s].socket # c
                         \/ NowEchoes(s)
  PROVE  EchoInv'
<1>1. \A d \in Client : Patient(script, d, net'[d])
  BY DEF EchoInv
<1>2. ASSUME NEW s \in Slot PROVE NowEchoes(s)
  <2>1. ASSUME connection_list'[s] = connection_list[s], connection_list[s].socket # c
        PROVE  NowEchoes(s)
    <3>1. SlotEchoes(s)
      BY DEF EchoInv
    <3>2. connection_list[s].socket \in Client \cup {NULL}
      BY DEF Full, IInv, SlotInv, Sockets
    <3> QED
      BY <2>1, <3>1, <3>2 DEF SlotEchoes, NowEchoes
  <2> QED
    BY <2>1
<1>3. \A s \in Slot : SlotEchoes(s)'
  BY <1>2 DEF SlotEchoes, NowEchoes
<1>4. \A d \in Client : Patient(script, d, net[d])'
  BY <1>1
<1> QED
  BY <1>3, <1>4 DEF EchoInv, Slot

LEMMA EchoStays ==
  ASSUME EchoInv, UNCHANGED <<connection_list, script, net>> PROVE EchoInv'
<1>1. \A s \in Slot : SlotEchoes(s)'
  BY DEF EchoInv, SlotEchoes
<1>2. \A d \in Client : Patient(script, d, net[d])'
  BY DEF EchoInv
<1> QED
  BY <1>1, <1>2 DEF EchoInv, Slot

\* What is known of a slot that has a client.
LEMMA Echoing ==
  ASSUME Sure, EchoInv, NEW s \in Slot, connection_list[s].socket # NULL
  PROVE  LET p == connection_list[s]
             t == p.http_task
             c == p.socket
             k == net[c]
             q == Unread(t, p.receiving_buffer, k.inq)
             f == From(k, q)
         IN /\ c \in Client /\ k.conn = "open" /\ Len(script[c]) \in Nat
            /\ Patient(script, c, k) /\ Echoes(script, p, k)
            /\ TaskTyped(script, t) /\ SlotTyped(script, p)
            /\ Flow(script, c, k, q) /\ q \in Seq(PieceOf(script, c))
            /\ f[1] \in Int /\ f[2] \in Int
            /\ t.own # None => /\ t.own[2] \in 1 .. Len(script[c]) /\ t.own = <<c, t.own[2]>>
                               /\ t.own \in Asked(script)
<1> DEFINE p == connection_list[s]
           t == p.http_task
           c == p.socket
           k == net[c]
           b == p.receiving_buffer
           q == Unread(t, b, k.inq)
           f == From(k, q)
           S == PieceOf(script, c)
<1>0. Full /\ InputInv
  BY SureFull
<1>1. /\ c \in Client /\ k.conn = "open" /\ Len(script[c]) \in Nat
      /\ Reads(script, proc, c, t, b, k)
      /\ Held(t) \in Seq(S) /\ b \in Seq(S) /\ k.inq \in Seq(S)
      /\ t.own # None => /\ t.own[2] \in 1 .. Len(script[c]) /\ t.own = <<c, t.own[2]>>
                         /\ t.own \in Asked(script)
  BY <1>0, SlotOfClient
<1>2. Patient(script, c, k) /\ Echoes(script, p, k)
  BY <1>1 DEF EchoInv, SlotEchoes
<1>3. SlotTyped(script, p) /\ TaskTyped(script, t)
  BY <1>0 DEF Full, Typed, SlotsTyped, SlotTyped
<1>4. Flow(script, c, k, q)
  BY <1>1 DEF Reads
<1>5. q \in Seq(S)
  <2> DEFINE h == Held(t)
             i == k.inq
  <2>1. h \in Seq(S) /\ b \in Seq(S) /\ i \in Seq(S)
    BY <1>1
  <2> HIDE DEF h, b, i, S
  <2>2. h \o b \o i \in Seq(S)
    BY ONLY <2>1, Joined
  <2> QED
    BY <2>2 DEF Unread, h, i
<1>6. f[1] \in Int /\ f[2] \in Int
  <2> HIDE DEF q, k, c, S
  <2> QED
    BY <1>1, <1>4, <1>5, FromType
<1> QED
  BY <1>1, <1>2, <1>3, <1>4, <1>5, <1>6

\* What may be told at one spot may be told later.
LEMMA ToldLater ==
  ASSUME NEW sc, NEW c, NEW f, NEW g,
         \A j \in Int : Before(<<j, 1>>, f) => Before(<<j, 1>>, g)
  PROVE  \A q \in Seq(Told(sc, c, f)) : q \in Seq(Told(sc, c, g))
<1>1. Told(sc, c, f) \subseteq Told(sc, c, g)
  <2> SUFFICES ASSUME NEW x \in Told(sc, c, f), x.req[1] = c PROVE Before(<<x.req[2], 1>>, g)
    BY DEF Told
  <2>1. x.req \in Asked(sc) /\ Before(<<x.req[2], 1>>, f)
    BY DEF Told, Piece
  <2>2. x.req[2] \in Int
    BY <2>1, AskedForm
  <2> QED
    BY <2>1, <2>2
<1> QED
  BY <1>1, SeqMonotonic

\* The answer to a request that was read may be told.
LEMMA MadeTold ==
  ASSUME NEW sc, NEW c, NEW f, NEW r, r[1] = c => Before(<<r[2], 1>>, f)
  PROVE  Made(sc, r) \subseteq Told(sc, c, f)
  BY DEF Made, Told

\* The current slot becomes p, and nothing else changes for the clients.
LEMMA SlotEcho ==
  ASSUME Full, EchoInv, Me.socket # NULL, NEW p,
         connection_list' = [connection_list EXCEPT ![cur] = p],
         script' = script, net' = net, p.socket = Me.socket,
         Echoes(script, p, net[Me.socket])
  PROVE  EchoInv'
<1> DEFINE c == Me.socket
<1>1. /\ cur \in Slot /\ Me = connection_list[cur] /\ DOMAIN connection_list = Slot
      /\ c \in Client /\ c # NULL
  BY CurrentTyped DEF Full, IInv, SlotInv, Sockets
<1>2. Patient(script, c, net'[c])
  BY <1>1 DEF EchoInv
<1>3. NowEchoes(cur)
  BY <1>1 DEF NowEchoes
<1>4. ASSUME NEW s \in Slot, s # cur
      PROVE  connection_list'[s] = connection_list[s] /\ connection_list[s].socket # c
  <2>1. connection_list[cur].socket # connection_list[s].socket
    BY <1>1, <1>4, TwoClients
  <2> QED
    BY <1>1, <1>4, <2>1
<1> QED
  BY <1>1, <1>2, <1>3, <1>4, EchoStep

\* The task of the current slot goes on at the same spot.
LEMMA SameSpot ==
  ASSUME Sure, EchoInv, Me.socket # NULL, NEW p,
         connection_list' = [connection_list EXCEPT ![cur] = p],
         script' = script, net' = net, p.socket = Me.socket,
         p.receiving_buffer = Me.receiving_buffer,
         Task.state \notin {"RECV_HEADER_STATE", "RECV_BODY_STATE"},
         p.http_task.state # "RECV_BODY_STATE", Held(p.http_task) = <<>>,
         p.http_task.state # "RECV_HEADER_STATE" => p.http_task.own = Task.own,
         SendsFile(p.http_task) => p.http_task.fp.of = p.http_task.own,
         \A T : /\ Made(script, Task.own) \subseteq T
                /\ Task.response_buf \in Seq(T) /\ Me.sending_buffer \in Seq(T)
                => p.http_task.response_buf \in Seq(T) /\ p.sending_buffer \in Seq(T)
  PROVE  EchoInv'
<1> DEFINE c == Me.socket
           k == net[c]
           f == From(k, Unread(Task, Me.receiving_buffer, k.inq))
           T == Told(script, c, f)
           o == Task.own
<1>1. Full /\ cur \in Slot /\ Me = connection_list[cur] /\ Task = Me.http_task /\ c # NULL
  BY CurrentTyped, SureFull
<1>2. Echoes(script, Me, k)
  BY <1>1, Echoing
<1>3. /\ Follows(script, c, Task, f) /\ k.got \in Seq(T) /\ k.outq \in Seq(T)
      /\ Me.sending_buffer \in Seq(T)
  BY <1>1, <1>2 DEF Echoes
<1>4. From(k, Unread(p.http_task, p.receiving_buffer, k.inq)) = f
  <2>1. Held(Task) = <<>>
    BY DEF Held
  <2> QED
    BY <2>1 DEF Unread
<1> HIDE DEF f
<1>5. /\ f[2] = 1 /\ o \in Asked(script) /\ Before(<<o[2], 1>>, f)
      /\ Task.response_buf \in Seq(T)
  BY <1>3 DEF Follows
<1>6. Made(script, o) \subseteq T
  BY <1>5, MadeTold
<1>7. p.http_task.response_buf \in Seq(T) /\ p.sending_buffer \in Seq(T)
  <2> HIDE DEF T
  <2> QED
    BY <1>3, <1>5, <1>6
<1>8. Follows(script, c, p.http_task, f)
  BY <1>5, <1>7 DEF Follows
<1>9. Echoes(script, p, k)
  BY <1>3, <1>4, <1>7, <1>8 DEF Echoes
<1> QED
  BY <1>1, <1>9, SlotEcho

\* The current slot is given up.
LEMMA CloseEcho ==
  ASSUME Sure, EchoInv, Me.socket # NULL, NEW k,
         DOMAIN k = Client, DOMAIN k[Me.socket] = NetFields,
         \A d \in Client : d # Me.socket => k[d] = net[d],
         k[Me.socket].st = net[Me.socket].st, k[Me.socket].got = net[Me.socket].got,
         k[Me.socket].next = net[Me.socket].next,
         close_client_connection(cur, k), script' = script
  PROVE  EchoInv'
<1> DEFINE c == Me.socket
<1>0. Full
  BY SureFull
<1>1. /\ cur \in Slot /\ DOMAIN connection_list = Slot /\ Me = connection_list[cur]
      /\ DOMAIN Me = PeerFields
  BY <1>0, CurrentTyped
<1>2. c \in Client /\ Patient(script, c, net[c])
  BY <1>1, Echoing
<1>3. net' = [k EXCEPT ![c].conn = "closed", ![c].inq = <<>>]
  BY <1>1 DEF close_client_connection, Peer, NO_SOCKET
<1>4. /\ \A d \in Client : d # c => net'[d] = net[d]
      /\ net'[c].conn = "closed" /\ net'[c].st = net[c].st /\ net'[c].got = net[c].got
      /\ net'[c].next = net[c].next
  BY <1>2, <1>3 DEF NetFields
<1>5. Patient(script, c, net'[c])
  BY <1>2, <1>4 DEF Patient
<1>6. connection_list' = [connection_list EXCEPT ![cur] = Vacated(@)]
  BY DEF close_client_connection
<1>7. ASSUME NEW s \in Slot
      PROVE  \/ connection_list'[s] = connection_list[s] /\ connection_list[s].socket # c
             \/ NowEchoes(s)
  <2>1. CASE s = cur
    <3>1. connection_list'[s].socket = NULL
      BY <1>1, <1>6, <2>1 DEF Vacated, PeerFields, NO_SOCKET
    <3> QED
      BY <3>1 DEF NowEchoes
  <2>2. CASE s # cur
    <3>1. connection_list[cur].socket # connection_list[s].socket
      BY <1>0, <1>1, <2>2, TwoClients
    <3> QED
      BY <1>1, <1>6, <2>2, <3>1
  <2> QED
    BY <2>1, <2>2
<1> QED
  BY <1>0, <1>2, <1>4, <1>5, <1>7, EchoStep

\* send, as the kernel sees it.
LEMMA SentIs ==
  ASSUME Full, Me.socket # NULL
  PROVE  LET c == Me.socket
             h == SentByKernel[c]
         IN /\ DOMAIN SentByKernel = Client /\ DOMAIN h = NetFields
            /\ \A d \in Client : d # c => SentByKernel[d] = net[d]
            /\ h.st = net[c].st /\ h.got = net[c].got /\ h.next = net[c].next
            /\ h.inq = net[c].inq /\ h.conn = net[c].conn
            /\ net[c].st # "gone" => h.outq = net[c].outq \o Take(Me.sending_buffer, Taken)
            /\ Taken \in 0 .. Len(Me.sending_buffer)
<1> DEFINE c == Me.socket
<1>1. cur \in Slot /\ Me = connection_list[cur] /\ c \in Client
  BY CurrentTyped DEF Full, IInv, SlotInv, Sockets
<1>3. DOMAIN net = Client /\ DOMAIN net[c] = NetFields
  BY <1>1 DEF Full, IInv, SlotInv, Shape
<1>4. Taken \in 0 .. Len(Me.sending_buffer)
  BY TakenType
<1>5. CASE net[c].st = "gone"
  BY <1>3, <1>4, <1>5 DEF SentByKernel
<1>6. CASE net[c].st # "gone"
  <2>1. SentByKernel = [net EXCEPT ![c].outq = @ \o Take(Me.sending_buffer, Taken)]
    BY <1>6 DEF SentByKernel
  <2> QED
    BY <1>1, <1>3, <1>4, <1>6, <2>1 DEF NetFields
<1> QED
  BY <1>5, <1>6

\* A client whose kernel moves bytes, or ends the connection, stays as patient.
LEMMA StillPatient ==
  ASSUME NEW sc, NEW c, NEW k, NEW h, Patient(sc, c, k),
         h.st = k.st, h.got = k.got, h.next = k.next, h.conn # "none"
  PROVE  Patient(sc, c, h)
  BY DEF Patient

\* The slot of a script, and what it may be told.
LEMMA ScriptSlot ==
  ASSUME Sure, Me.cgi_executor # NULL
  PROVE  /\ Me.socket # NULL /\ Task.state = "PROCESSING_CGI"
         /\ Executor = execs[Me.cgi_executor] /\ Executor.live /\ Executor.pid = Task.own
         /\ Task.own \in Asked(script) /\ Me.cgi_executor \in ExecAddr
         /\ script[Task.own[1]][Task.own[2]].target = "cgi"
<1>1. Full /\ cur \in Slot /\ Me = connection_list[cur] /\ Task = Me.http_task
  BY CurrentTyped, SureFull
<1>2. Engaged(cur)
  BY <1>1 DEF Sure, EngagedInv
<1>3. Me.cgi_executor \in ExecAddr /\ Executor = execs[Me.cgi_executor]
  BY <1>1, ChildOfSlot
<1> QED
  BY <1>1, <1>2, <1>3 DEF Engaged

LEMMA PipeOutputEcho ==
  ASSUME Sure, EchoInv, PipeOutput, Me.cgi_executor # NULL, script' = script, net' = net
  PROVE  EchoInv'
<1> DEFINE r == Executor.pid
           out == proc[r].stdout
           n == Least(Len(out), Room(Me.sending_buffer))
           p == [Me EXCEPT !.sending_buffer = @ \o Take(out, n)]
<1>1. Full /\ DOMAIN Me = PeerFields /\ Task = Me.http_task /\ SlotTyped(script, Me)
  BY CurrentTyped, SureFull
<1>2. /\ Me.socket # NULL /\ Task.state = "PROCESSING_CGI" /\ r = Task.own
      /\ Task.own \in Asked(script)
  BY ScriptSlot
<1>3. connection_list' = [connection_list EXCEPT ![cur] = p]
  BY DEF PipeOutput, Me
<1>4. out \in Seq(Made(script, Task.own))
  BY <1>2 DEF Sure, OutputInv
<1>5. Take(out, n) \in Seq(Made(script, Task.own))
  <2>1. n \in 0 .. Len(out)
    BY <1>1, <1>4, FitType, StateAssumption DEF Room, SlotTyped
  <2> QED
    BY <1>4, <2>1, TakeType
<1> DEFINE x == Take(out, n)
<1>6. /\ p.socket = Me.socket /\ p.http_task = Task /\ p.receiving_buffer = Me.receiving_buffer
      /\ p.sending_buffer = Me.sending_buffer \o x
  BY <1>1 DEF PeerFields
<1>7. \A T : /\ Made(script, Task.own) \subseteq T
             /\ Task.response_buf \in Seq(T) /\ Me.sending_buffer \in Seq(T)
             => Task.response_buf \in Seq(T) /\ Me.sending_buffer \o x \in Seq(T)
  <2> DEFINE s == Me.sending_buffer
             M == Made(script, Task.own)
             b == Task.response_buf
  <2> HIDE DEF s, x, M
  <2>1. x \in Seq(M)
    BY <1>5 DEF x, M
  <2> SUFFICES ASSUME NEW T, M \subseteq T, s \in Seq(T) PROVE s \o x \in Seq(T)
    BY DEF s, M
  <2>2. x \in Seq(T)
    BY <2>1, SeqMonotonic
  <2> QED
    BY <2>2, ConcatProperties
<1>8. Held(Task) = <<>> /\ ~SendsFile(Task)
  BY <1>2 DEF Held, SendsFile
<1> HIDE DEF p, x, n, out, r
<1> QED
  BY <1>2, <1>3, <1>6, <1>7, <1>8, SameSpot

LEMMA PipeEofEcho ==
  ASSUME Sure, EchoInv, PipeEof, Me.cgi_executor # NULL, script' = script, net' = net
  PROVE  EchoInv'
<1> DEFINE new == [Task EXCEPT !.state = "FINISHED_STATE"]
           p == [Me EXCEPT !.cgi_executor = NULL, !.http_task.state = "FINISHED_STATE"]
<1>1. Full /\ DOMAIN Me = PeerFields /\ DOMAIN Task = TaskFields /\ Task = Me.http_task
  BY CurrentTyped, SureFull
<1>2. Me.socket # NULL /\ Task.state = "PROCESSING_CGI"
  BY ScriptSlot
<1>3. connection_list' = [connection_list EXCEPT ![cur] = p]
  BY DEF PipeEof, Me
<1>4. /\ p.socket = Me.socket /\ p.http_task = new
      /\ p.receiving_buffer = Me.receiving_buffer /\ p.sending_buffer = Me.sending_buffer
  BY <1>1 DEF PeerFields
<1>5. new.state = "FINISHED_STATE" /\ new.own = Task.own /\ new.response_buf = Task.response_buf
  BY <1>1 DEF TaskFields
<1> HIDE DEF p, new
<1>6. Held(new) = <<>> /\ ~SendsFile(new)
  BY <1>5 DEF Held, SendsFile
<1> QED
  BY <1>2, <1>3, <1>4, <1>5, <1>6, SameSpot

LEMMA CgiReadEcho == ASSUME Sure, EchoInv, CgiRead PROVE EchoInv'
<1>1. script' = script /\ net' = net
  BY DEF CgiRead
<1>2. Me.cgi_executor # NULL
  BY SureFull DEF CgiRead, Full, Typed, Control, Me
<1>3. CASE connection_list' = connection_list
  BY <1>1, <1>3, EchoStays
<1> QED
  BY <1>1, <1>2, <1>3, PipeOutputEcho, PipeEofEcho DEF CgiRead, PipeFull

\* A slot with a script is given up before anything is sent.
LEMMA CloseNowEcho ==
  ASSUME Sure, EchoInv, Me.socket # NULL, close_client_connection(cur, net), script' = script
  PROVE  EchoInv'
<1>1. cur \in Slot /\ Me = connection_list[cur] /\ Full
  BY CurrentTyped, SureFull
<1>2. Me.socket \in Client
  BY <1>1, Echoing
<1>3. DOMAIN net = Client /\ DOMAIN net[Me.socket] = NetFields
  BY <1>1, <1>2 DEF Full, IInv, SlotInv, Shape
<1> QED
  BY <1>3, CloseEcho

LEMMA CgiWriteEcho == ASSUME Sure, EchoInv, CgiWrite PROVE EchoInv'
<1>1. script' = script /\ Me.cgi_executor # NULL
  BY DEF CgiWrite
<1>2. Me.socket # NULL
  BY <1>1, ScriptSlot
<1>3. CASE UNCHANGED <<connection_list, net>>
  BY <1>1, <1>3, EchoStays
<1>4. CASE close_client_connection(cur, net)
  BY <1>1, <1>2, <1>4, CloseNowEcho
<1> QED
  BY <1>3, <1>4 DEF CgiWrite

LEMMA RecvClosesEcho == ASSUME Sure, EchoInv, RecvCloses PROVE EchoInv'
  BY CloseNowEcho DEF RecvCloses, CloseSlot, NO_SOCKET

LEMMA SendClosesEcho == ASSUME Sure, EchoInv, SendCloses PROVE EchoInv'
<1>1. Full /\ cur \in Slot /\ Me = connection_list[cur]
  BY CurrentTyped, SureFull
<1>2. Me.socket # NULL
  BY <1>1 DEF SendCloses, Full, Typed, Control
<1>3. /\ close_client_connection(cur, SentByKernel) /\ script' = script
  BY DEF SendCloses, CloseSlot
<1> QED
  BY <1>1, <1>2, <1>3, SentIs, CloseEcho

\* recv moves the front of the kernel's queue to the end of the buffer.
LEMMA RecvEcho == ASSUME Sure, EchoInv, Recv PROVE EchoInv'
<1>0. Full /\ InputInv
  BY SureFull
<1>1. Me.socket # NULL /\ script' = script
  BY DEF Recv, NO_SOCKET
<1>2. CASE UNCHANGED <<connection_list, net>>
  BY <1>1, <1>2, EchoStays
<1>3. CASE ReceiveFromPeer
  <2> DEFINE c == Me.socket
             k == net[c]
             S == PieceOf(script, c)
             inq == k.inq
             old == Me.receiving_buffer
             n == Least(Len(inq), Room(old))
             x == Take(inq, n)
             y == Drop(inq, n)
             p == [Me EXCEPT !.receiving_buffer = old \o x]
             h == [k EXCEPT !.inq = y]
  <2>1. /\ cur \in Slot /\ DOMAIN connection_list = Slot /\ Me = connection_list[cur]
        /\ DOMAIN Me = PeerFields /\ SlotTyped(script, Me)
    BY <1>0, CurrentTyped
  <2>2. Held(Task) \in Seq(S) /\ old \in Seq(S) /\ inq \in Seq(S) /\ c \in Client
    BY <1>0, <1>1, <2>1, SlotOfClient DEF Task, Me
  <2>3. DOMAIN net = Client /\ DOMAIN k = NetFields
    BY <1>0, <2>2 DEF Full, IInv, SlotInv, Shape
  <2>4. n \in 0 .. Len(inq)
    BY <2>1, <2>2, FitType, StateAssumption DEF Room, SlotTyped
  <2>5. x \in Seq(S) /\ Len(x) = n /\ y \in Seq(S)
    BY <2>2, <2>4, TakeType, DropType
  <2>6. /\ connection_list' = [connection_list EXCEPT ![cur] = p]
        /\ net' = [net EXCEPT ![c] = h]
    BY <1>3, <2>5 DEF ReceiveFromPeer, Me, Received
  <2>7. x \o y = inq
    BY <2>2, <2>4, TakeDrop
  <2>8. Patient(script, c, k) /\ Echoes(script, Me, k) /\ k.conn = "open"
    BY <1>1, <2>1, Echoing
  <2> HIDE DEF x, y, n
  <2>9. /\ h.inq = y /\ h.next = k.next /\ h.st = k.st /\ h.conn = k.conn
        /\ h.got = k.got /\ h.outq = k.outq
    BY <2>2, <2>3 DEF NetFields
  <2>10. /\ p.socket = c /\ p.http_task = Task /\ p.receiving_buffer = old \o x
         /\ p.sending_buffer = Me.sending_buffer
    BY <2>1 DEF PeerFields, Task, Me
  <2>11. \A d \in Client : net'[d] = IF d = c THEN h ELSE net[d]
    BY <2>3, <2>6
  <2>12. \A s \in Slot : connection_list'[s] = IF s = cur THEN p ELSE connection_list[s]
    BY <2>1, <2>6
  <2> HIDE DEF p, h, k, old, inq
  <2>13. Unread(Task, old \o x, y) = Unread(Task, old, inq)
    <3> DEFINE d == Held(Task)
    <3>1. d \in Seq(S)
      BY <2>2
    <3> HIDE DEF d, S
    <3>2. Cat(Cat(d, Cat(old, x)), y) = Cat(Cat(d, old), Cat(x, y))
      BY <2>2, <2>5, <3>1, Moved
    <3>3. Cat(x, y) = inq
      BY <2>7 DEF Cat
    <3> QED
      BY <3>2, <3>3 DEF Cat, Unread, d
  <2>14. Patient(script, c, h)
    BY <2>8, <2>9, StillPatient
  <2>15. Echoes(script, p, h)
    <3>1. From(h, Unread(Task, old \o x, y)) = From(k, Unread(Task, old, inq))
      BY <2>9, <2>13 DEF From
    <3> DEFINE f == From(k, Unread(Task, old, inq))
    <3>2. /\ Follows(script, c, Task, f) /\ k.got \in Seq(Told(script, c, f))
          /\ k.outq \in Seq(Told(script, c, f)) /\ Me.sending_buffer \in Seq(Told(script, c, f))
      BY <2>8 DEF Echoes, old, inq, Me, Task
    <3> HIDE DEF f
    <3> QED
      BY <2>9, <2>10, <3>1, <3>2 DEF Echoes, f
  <2>16. ASSUME NEW s \in Slot
         PROVE  \/ connection_list'[s] = connection_list[s] /\ connection_list[s].socket # c
                \/ NowEchoes(s)
    <3>1. CASE s = cur
      BY <2>2, <2>10, <2>11, <2>12, <2>15, <3>1 DEF NowEchoes
    <3>2. CASE s # cur
      <4>1. connection_list[cur].socket # connection_list[s].socket
        BY <1>0, <1>1, <2>1, <3>2, TwoClients
      <4> QED
        BY <2>1, <2>12, <3>2, <4>1
    <3> QED
      BY <3>1, <3>2
  <2>17. Patient(script, c, net'[c]) /\ \A d \in Client : d # c => net'[d] = net[d]
    BY <2>2, <2>11, <2>14
  <2> QED
    BY <1>0, <1>1, <2>2, <2>16, <2>17, EchoStep
<1> QED
  BY <1>2, <1>3 DEF Recv

\* send moves the front of the sending buffer to the kernel's queue.
LEMMA SendEcho == ASSUME Sure, EchoInv, Send PROVE EchoInv'
<1> DEFINE c == Me.socket
           b == Me.sending_buffer
           t == Me.http_task
           r == Me.receiving_buffer
           h == SentByKernel[c]
           n == Taken
<1>0. Full /\ script' = script
  BY SureFull DEF Send
<1>1. /\ cur \in Slot /\ Me = connection_list[cur] /\ DOMAIN connection_list = Slot
      /\ DOMAIN Me = PeerFields
  BY <1>0, CurrentTyped
<1>2. c # NULL
  BY <1>0, <1>1 DEF Send, Full, Typed, Control
<1>3. CASE ~Sends
  <2>1. UNCHANGED <<connection_list, net>>
    BY <1>3 DEF Send
  <2> QED
    BY <1>0, <2>1, EchoStays
<1>4. CASE Sends
  <2>1. connection_list' = [connection_list EXCEPT ![cur].sending_buffer = Drop(@, Taken)]
    BY <1>4 DEF Send, SendToPeer
  <2>2. net' = SentByKernel
    BY <1>4 DEF Send, SendToPeer
  <2>3. /\ c \in Client /\ Patient(script, c, net[c]) /\ Echoes(script, Me, net[c])
        /\ net[c].conn = "open"
    BY <1>1, <1>2, Echoing
  <2>4. /\ \A d \in Client : d # c => SentByKernel[d] = net[d]
        /\ h.st = net[c].st /\ h.got = net[c].got /\ h.next = net[c].next
        /\ h.inq = net[c].inq /\ h.conn = net[c].conn
        /\ net[c].st # "gone" => h.outq = net[c].outq \o Take(b, n)
        /\ n \in 0 .. Len(b)
    BY <1>0, <1>2, SentIs
  <2>5. net[c].st # "gone"
    BY <2>3 DEF Patient
  <2>6. Patient(script, c, h)
    BY <2>3, <2>4, StillPatient
  <2>7. /\ connection_list'[cur].socket = c /\ connection_list'[cur].http_task = t
        /\ connection_list'[cur].receiving_buffer = r
        /\ connection_list'[cur].sending_buffer = Drop(b, n)
    BY <1>1, <2>1 DEF PeerFields
  <2>8. NowEchoes(cur)
    <3> DEFINE f == From(net[c], Unread(t, r, net[c].inq))
               T == Told(script, c, f)
               o == net[c].outq
    <3>1. From(h, Unread(t, r, h.inq)) = f
      BY <2>4 DEF From
    <3>2. Follows(script, c, t, f) /\ net[c].got \in Seq(T) /\ o \in Seq(T) /\ b \in Seq(T)
      BY <2>3 DEF Echoes
    <3>3. h.got \in Seq(T) /\ h.outq = o \o Take(b, n)
      BY <2>4, <2>5, <3>2
    <3>4. Drop(b, n) \in Seq(T) /\ o \o Take(b, n) \in Seq(T)
      <4> HIDE DEF b, n, o, T
      <4>1. Drop(b, n) \in Seq(T) /\ Take(b, n) \in Seq(T)
        BY <2>4, <3>2, TakeType, DropType
      <4> QED
        BY <3>2, <4>1, ConcatProperties
    <3>5. net'[c] = h
      BY <2>2
    <3> HIDE DEF f, h, b, t, r, n, o
    <3> QED
      BY <2>7, <3>1, <3>2, <3>3, <3>4, <3>5 DEF NowEchoes, Echoes
  <2>9. ASSUME NEW s \in Slot, s # cur
        PROVE  connection_list'[s] = connection_list[s] /\ connection_list[s].socket # c
    <3>1. connection_list[cur].socket # connection_list[s].socket
      BY <1>0, <1>1, <1>2, <2>9, TwoClients
    <3> QED
      BY <1>1, <2>1, <2>9, <3>1
  <2>10. \A d \in Client : d # c => net'[d] = net[d]
    BY <2>2, <2>4
  <2>11. Patient(script, c, net'[c])
    BY <2>2, <2>6
  <2> QED
    BY <1>0, <2>3, <2>8, <2>9, <2>10, <2>11, EchoStep
<1> QED
  BY <1>3, <1>4

\* A client that is accepted was told nothing, and its slot has nothing to tell.
LEMMA AcceptedEcho ==
  ASSUME Sure, EchoInv, NEW s \in Slot, NEW c \in Client, net[c].conn = "none",
         connection_list[s].socket = NULL,
         connection_list' = [connection_list EXCEPT
           ![s] = [@ EXCEPT !.socket = c, !.close_conn = FALSE, !.http_task = FreshTask]],
         net' = [net EXCEPT ![c].conn = "open"], script' = script
  PROVE  EchoInv'
<1> DEFINE old == connection_list[s]
           p == [old EXCEPT !.socket = c, !.close_conn = FALSE, !.http_task = FreshTask]
           k == net[c]
           h == net'[c]
<1>0. Full
  BY SureFull
<1>1. /\ DOMAIN connection_list = Slot /\ DOMAIN old = PeerFields
      /\ DOMAIN net = Client /\ DOMAIN k = NetFields
  BY <1>0 DEF Full, IInv, SlotInv, Shape
<1>2. Emptied(old)
  <2>1. Engaged(s)
    BY DEF Sure, EngagedInv
  <2> QED
    BY <2>1 DEF Engaged
<1>3. /\ p.socket = c /\ p.http_task = FreshTask /\ p.receiving_buffer = <<>>
      /\ p.sending_buffer = <<>>
  BY <1>1, <1>2 DEF PeerFields, Emptied
<1>4. \A t \in Slot : connection_list'[t] = IF t = s THEN p ELSE connection_list[t]
  BY <1>1
<1>5. /\ \A d \in Client : d # c => net'[d] = net[d]
      /\ h.conn = "open" /\ h.st = k.st /\ h.inq = k.inq /\ h.next = k.next
      /\ h.got = k.got /\ h.outq = k.outq
  BY <1>1 DEF NetFields
<1>6. Patient(script, c, k)
  BY DEF EchoInv
<1> HIDE DEF p, h
<1>7. Patient(script, c, h)
  BY <1>5, <1>6, StillPatient
<1>8. Echoes(script, p, h)
  <2>1. k.got = <<>> /\ k.outq = <<>> /\ From(k, k.inq) = <<1, 1>>
    BY <1>6 DEF Patient
  <2>2. /\ FreshTask.state = "RECV_HEADER_STATE" /\ FreshTask.parse_buf = <<>>
        /\ FreshTask.response_buf = <<>>
    BY DEF FreshTask
  <2>3. Unread(FreshTask, <<>>, h.inq) = k.inq
    <3>1. k.inq \in Seq(PieceOf(script, c))
      BY <1>0 DEF Full, Typed, NetTyped
    <3> QED
      BY <1>5, <2>2, <3>1, ConcatEmptySeq DEF Unread, Held
  <2>4. From(h, k.inq) = <<1, 1>>
    BY <1>5, <2>1 DEF From
  <2>5. Follows(script, c, FreshTask, <<1, 1>>)
    BY <2>2, EmptySeq DEF Follows, SendsFile
  <2> QED
    BY <1>3, <1>5, <2>1, <2>3, <2>4, <2>5, EmptySeq DEF Echoes
<1>9. ASSUME NEW t \in Slot
      PROVE  \/ connection_list'[t] = connection_list[t] /\ connection_list[t].socket # c
             \/ NowEchoes(t)
  <2>1. CASE t = s
    BY <1>3, <1>4, <1>8, <2>1 DEF NowEchoes, h
  <2>2. CASE t # s
    <3>1. connection_list[t].socket # c
      BY <1>0 DEF Full, IInv, SlotInv, SlotsMatchConnections, Peer
    <3> QED
      BY <1>4, <2>2, <3>1
  <2> QED
    BY <2>1, <2>2
<1> QED
  BY <1>0, <1>5, <1>7, <1>9, EchoStep DEF h

LEMMA AcceptEcho == ASSUME Sure, EchoInv, Accept PROVE EchoInv'
<1>0. Full
  BY SureFull
<1>1. pc = "accept" /\ script' = script
  BY DEF Accept
<1>2. CASE UNCHANGED <<connection_list, net>>
  BY <1>1, <1>2, EchoStays
<1>3. CASE ListenFd \in rfds /\ handle_new_connection /\ ~UNCHANGED <<connection_list, net>>
  <2> DEFINE c == Head(backlog)
  <2>1. backlog \in Seq(Client) /\ backlog # <<>>
    BY <1>0, <1>1, <1>3 DEF Full, IInv, SlotInv, BacklogInv, AcceptInv
  <2>2. c \in Client /\ net[c].conn = "none"
    <3>1. c = backlog[1] /\ 1 \in 1 .. Len(backlog) /\ c \in Client
      BY <2>1
    <3> QED
      BY <1>0, <3>1 DEF Full, IInv, SlotInv, BacklogInv
  <2> HIDE DEF c
  <2>3. CASE \E s \in Slot :
               /\ connection_list[s].socket = NULL
               /\ connection_list' = [connection_list EXCEPT
                    ![s] = [@ EXCEPT !.socket = c, !.close_conn = FALSE,
                                     !.http_task = FreshTask]]
               /\ net' = [net EXCEPT ![c].conn = "open"]
    BY <1>1, <2>2, <2>3, AcceptedEcho
  <2>4. CASE /\ net' = [net EXCEPT ![c].conn = "refused", ![c].inq = <<>>]
             /\ connection_list' = connection_list
    <3> DEFINE h == net'[c]
    <3>1. DOMAIN net = Client /\ DOMAIN net[c] = NetFields
      BY <1>0, <2>2 DEF Full, IInv, SlotInv, Shape
    <3>2. /\ h.conn # "none" /\ h.st = net[c].st /\ h.got = net[c].got /\ h.next = net[c].next
          /\ \A d \in Client : d # c => net'[d] = net[d]
      BY <2>2, <2>4, <3>1 DEF NetFields
    <3>3. Patient(script, c, h)
      BY <2>2, <3>2, StillPatient DEF EchoInv
    <3>4. \A s \in Slot : connection_list'[s] = connection_list[s] /\ connection_list[s].socket # c
      BY <1>0, <2>2, <2>4 DEF Full, IInv, SlotInv, SlotsMatchConnections, Peer
    <3> QED
      BY <1>0, <1>1, <2>2, <3>2, <3>3, <3>4, EchoStep
  <2> QED
    BY <1>3, <2>3, <2>4 DEF handle_new_connection, Peer, NO_SOCKET, c
<1> QED
  BY <1>2, <1>3 DEF Accept

\* What is added to a sequence.
LEMMA Adds ==
  ASSUME NEW M, NEW x \in Seq(M), NEW T, M \subseteq T, NEW b \in Seq(T) PROVE b \o x \in Seq(T)
<1>1. x \in Seq(T)
  BY SeqMonotonic
<1> QED
  BY <1>1, ConcatProperties

\* The parts of an answer to r are about r.
LEMMA PartsMade ==
  ASSUME NEW r \in Asked(script)
  PROVE  /\ \A code \in Int : /\ NonBodyResponse(r, code) \in Seq(Made(script, r))
                              /\ StatusOf(r, code) \in Seq(Made(script, r))
         /\ FileStream(r) \in Seq(Made(script, r)) /\ Len(FileStream(r)) = FileLen + 1
<1> DEFINE M == Made(script, r)
<1>1. \A n \in Int : /\ Token(r, "head", n) \in M /\ Token(r, "end", n) \in M
                     /\ Token(r, "body", n) \in M /\ Token(r, "eof", n) \in M
  BY DEF Made, Token, Piece
<1>2. ASSUME NEW code \in Int
      PROVE  NonBodyResponse(r, code) \in Seq(M) /\ StatusOf(r, code) \in Seq(M)
  <2> DEFINE x == Token(r, "head", code)
             y == Token(r, "end", code)
  <2>1. x \in M /\ y \in M
    BY <1>1
  <2>2. /\ NonBodyResponse(r, code) \in {<<x>>, <<x, y>>}
        /\ StatusOf(r, code) = <<x, y>>
    BY DEF NonBodyResponse, StatusOf
  <2> HIDE DEF x, y, M
  <2> QED
    BY <2>1, <2>2, ShortSeq
<1>3. FileStream(r) \in [1 .. FileLen + 1 -> M]
  <2>1. \A i \in 1 .. FileLen + 1 :
          (IF i <= FileLen THEN Token(r, "body", i) ELSE Token(r, "eof", 0)) \in M
    BY <1>1, StateAssumption
  <2> QED
    BY <2>1 DEF FileStream
<1>4. FileLen + 1 \in Nat
  BY StateAssumption
<1>5. FileStream(r) \in Seq(M)
  BY <1>3, <1>4, SeqDef
<1> QED
  BY <1>2, <1>5, FileType

LEMMA HeaderIncompleteEcho == ASSUME Sure, EchoInv, HeaderIncomplete PROVE EchoInv'
<1> DEFINE c == Me.socket
           k == net[c]
           f == From(k, Unread(Task, Me.receiving_buffer, k.inq))
<1>1. Full /\ InputInv
  BY SureFull
<1>2. /\ pc = "http" /\ Task.state = "RECV_HEADER_STATE"
      /\ script' = script /\ net' = net
  BY <1>1, HeaderIncompleteLeaves
<1>3. PICK p :
        /\ connection_list' = [connection_list EXCEPT ![cur] = p]
        /\ p.socket = c /\ p.sending_buffer = Me.sending_buffer
        /\ p.http_task.state = "RECV_HEADER_STATE"
        /\ Unread(p.http_task, p.receiving_buffer, k.inq)
             = Unread(Task, Me.receiving_buffer, k.inq)
  BY <1>1, HeaderIncompleteLeaves
<1>4. /\ cur \in Slot /\ Me = connection_list[cur] /\ Task = Me.http_task /\ c # NULL
      /\ DOMAIN connection_list = Slot
  BY <1>1, <1>2, CurrentTyped
<1>5. Echoes(script, Me, k)
  BY <1>4, Echoing
<1>6. p.http_task.response_buf = <<>>
  <2>1. Typed'
    BY <1>1, HeaderIncompleteTyped
  <2>2. TaskTyped(script, p.http_task)
    BY <1>2, <1>3, <1>4, <2>1 DEF Typed, SlotsTyped, SlotTyped, Slot
  <2> QED
    BY <1>3, <2>2 DEF TaskTyped
<1>7. From(k, Unread(p.http_task, p.receiving_buffer, k.inq)) = f
  BY <1>3
<1> HIDE DEF f
<1>8. /\ Follows(script, c, Task, f) /\ k.got \in Seq(Told(script, c, f))
      /\ k.outq \in Seq(Told(script, c, f)) /\ Me.sending_buffer \in Seq(Told(script, c, f))
  BY <1>4, <1>5 DEF Echoes, f
<1>9. Follows(script, c, p.http_task, f)
  BY <1>2, <1>3, <1>6, <1>8, EmptySeq DEF Follows, SendsFile
<1>10. Echoes(script, p, k)
  BY <1>3, <1>7, <1>8, <1>9 DEF Echoes
<1> QED
  BY <1>1, <1>2, <1>3, <1>4, <1>10, SlotEcho

LEMMA GenerateHeaderEcho == ASSUME Sure, EchoInv, GenerateHeader PROVE EchoInv'
<1> DEFINE head == NonBodyResponse(Task.own, Task.response_code)
           new == [Task EXCEPT !.response_buf = @ \o head, !.state = "SEND_HEADER_STATE"]
           p == [Me EXCEPT !.http_task = new]
<1>1. /\ pc = "http" /\ Task.state = "GENERATE_HEADER_STATE"
      /\ connection_list' = [connection_list EXCEPT ![cur].http_task = new]
      /\ script' = script /\ net' = net
  BY DEF GenerateHeader, Continue, world, InHandler
<1>2. /\ DOMAIN Me = PeerFields /\ DOMAIN Task = TaskFields /\ TaskTyped(script, Task)
      /\ TaskOK(Task) /\ Me.socket # NULL
  BY <1>1, SureFull, CurrentTyped
<1>3. head \in Seq(Made(script, Task.own))
  BY <1>1, <1>2, PartsMade DEF TaskTyped, Parsed
<1> HIDE DEF head
<1>4. /\ new.state = "SEND_HEADER_STATE" /\ new.own = Task.own
      /\ new.response_buf = Task.response_buf \o head
      /\ new.method_type = Task.method_type /\ new.response_code = Task.response_code
  BY <1>2 DEF TaskFields
<1> HIDE DEF new
<1>5. /\ p.socket = Me.socket /\ p.receiving_buffer = Me.receiving_buffer
      /\ p.http_task = new /\ p.sending_buffer = Me.sending_buffer
  BY <1>2 DEF PeerFields
<1>6. connection_list' = [connection_list EXCEPT ![cur] = p]
  BY <1>1 DEF Me
<1> HIDE DEF p
<1>7. ~SendsFile(new) /\ Held(new) = <<>>
  BY <1>1, <1>2, <1>4 DEF TaskTyped, TaskOK, SendsFile, Held
<1> DEFINE b == Task.response_buf
<1>8. \A T : Made(script, Task.own) \subseteq T /\ b \in Seq(T) => b \o head \in Seq(T)
  <2> HIDE DEF b
  <2> QED
    BY <1>3, Adds
<1>9. \A T : /\ Made(script, Task.own) \subseteq T
             /\ Task.response_buf \in Seq(T) /\ Me.sending_buffer \in Seq(T)
             => p.http_task.response_buf \in Seq(T) /\ p.sending_buffer \in Seq(T)
  BY <1>4, <1>5, <1>8
<1>10. /\ p.http_task.state \notin {"RECV_BODY_STATE", "RECV_HEADER_STATE"}
       /\ Held(p.http_task) = <<>> /\ p.http_task.own = Task.own /\ ~SendsFile(p.http_task)
  BY <1>4, <1>5, <1>7
<1> QED
  BY <1>1, <1>2, <1>5, <1>6, <1>9, <1>10, SameSpot

LEMMA SendHeaderEcho == ASSUME Sure, EchoInv, SendHeader PROVE EchoInv'
<1> DEFINE y == Task.response_buf
           b == Me.sending_buffer
           n == Least(Len(y), Room(b))
           l == Least(Len(y), n + 1)
           sent == b \o Take(y, n)
           rest == Drop(y, l)
           new == [Task EXCEPT !.response_buf = rest, !.state = AfterHeader(Task)]
           p == [Me EXCEPT
                   !.sending_buffer = @ \o Take(y, n),
                   !.http_task.response_buf = Drop(@, Least(Len(@), n + 1)),
                   !.http_task.state = AfterHeader(Task)]
<1>0. Full
  BY SureFull
<1>1. /\ pc = "http" /\ Task.state = "SEND_HEADER_STATE"
      /\ connection_list' = [connection_list EXCEPT ![cur] = p]
      /\ script' = script /\ net' = net
  BY DEF SendHeader, world, InHandler
<1>2. /\ DOMAIN Me = PeerFields /\ DOMAIN Task = TaskFields /\ Task = Me.http_task
      /\ Me.socket # NULL /\ SlotTyped(script, Me) /\ TaskTyped(script, Task)
      /\ cur \in Slot /\ Me = connection_list[cur]
  BY <1>0, <1>1, CurrentTyped
<1>3. n \in 0 .. Len(y) /\ l \in 0 .. Len(y)
  <2>1. y \in Seq(Piece(script)) /\ b \in Seq(Piece(script)) /\ Len(b) <= BUF_DATA_MAXSIZE
    BY <1>2 DEF TaskTyped, SlotTyped
  <2>2. Len(y) \in Nat /\ Len(b) \in Nat
    BY <2>1, LenProperties
  <2> HIDE DEF y, b
  <2>3. n \in 0 .. Len(y)
    BY <2>1, <2>2, StateAssumption DEF Least, Room
  <2> HIDE DEF n
  <2> QED
    BY <2>2, <2>3 DEF Least
<1>4. \A T : y \in Seq(T) /\ b \in Seq(T) => rest \in Seq(T) /\ sent \in Seq(T)
  <2> SUFFICES ASSUME NEW T, y \in Seq(T), b \in Seq(T) PROVE rest \in Seq(T) /\ sent \in Seq(T)
    OBVIOUS
  <2> HIDE DEF y, b, n, l
  <2>1. Take(y, n) \in Seq(T) /\ rest \in Seq(T)
    BY <1>3, TakeType, DropType
  <2> QED
    BY <2>1, ConcatProperties
<1>5. /\ p.socket = Me.socket /\ p.receiving_buffer = Me.receiving_buffer /\ p.http_task = new
      /\ p.sending_buffer = sent
  <2> HIDE DEF n
  <2> QED
    BY <1>2 DEF PeerFields
<1> HIDE DEF p, sent, rest
<1>6. /\ new.state = AfterHeader(Task) /\ new.own = Task.own /\ new.response_buf = rest
      /\ new.fp = Task.fp
  BY <1>2 DEF TaskFields
<1> HIDE DEF new
<1>7. Held(new) = <<>> /\ new.state \notin {"RECV_BODY_STATE", "RECV_HEADER_STATE"}
  BY <1>6 DEF AfterHeader, Held
<1>8. SendsFile(new) => new.fp.of = new.own
  <2>1. SendsFile(new) => SendsFile(Task)
    BY <1>1, <1>6 DEF SendsFile, AfterHeader
  <2>2. Echoes(script, Me, net[Me.socket])
    BY <1>2, Echoing
  <2>3. SendsFile(Task) => Task.fp.of = Task.own
    BY <1>2, <2>2 DEF Echoes, Follows
  <2> QED
    BY <1>6, <2>1, <2>3
<1>9. \A T : /\ Made(script, Task.own) \subseteq T
             /\ Task.response_buf \in Seq(T) /\ Me.sending_buffer \in Seq(T)
             => p.http_task.response_buf \in Seq(T) /\ p.sending_buffer \in Seq(T)
  BY <1>4, <1>5, <1>6
<1>10. /\ p.http_task.state \notin {"RECV_BODY_STATE", "RECV_HEADER_STATE"}
       /\ Held(p.http_task) = <<>> /\ p.http_task.own = Task.own
       /\ SendsFile(p.http_task) => p.http_task.fp.of = p.http_task.own
  BY <1>5, <1>6, <1>7, <1>8
<1> QED
  BY <1>1, <1>2, <1>5, <1>9, <1>10, SameSpot

LEMMA CheckStaticEcho == ASSUME Sure, EchoInv, CheckStatic PROVE EchoInv'
<1> DEFINE o == Task.own
           b == Task.response_buf
           ok == <<Token(request.of, "head", 200), Token(request.of, "end", 200)>>
           new == IF IsRead THEN StaticGet
                  ELSE [Task EXCEPT !.response_code = 200, !.state = "GENERATE_HEADER_STATE"]
           p == [Me EXCEPT !.http_task = new]
<1>0. Full
  BY SureFull
<1>1. /\ connection_list' = [connection_list EXCEPT ![cur].http_task = new]
      /\ script' = script /\ net' = net /\ pc = "http" /\ Task.state = "CHECK_CGI"
  BY DEF CheckStatic, InHandler
<1>2. /\ DOMAIN Me = PeerFields /\ DOMAIN Task = TaskFields /\ Me.socket # NULL
      /\ cur \in Slot /\ Me = connection_list[cur] /\ Task = Me.http_task
      /\ TaskTyped(script, Task)
  BY <1>0, <1>1, CurrentTyped
<1>3. request.of = o
  <2>1. OwnRequest(cur)
    BY <1>2 DEF Sure, OwnInv
  <2> QED
    BY <1>1, <1>2, <2>1 DEF OwnRequest, TakesBody
<1>4. ok \in Seq(Made(script, o))
  <2>1. o \in Asked(script)
    BY <1>1, <1>2 DEF TaskTyped, Parsed
  <2>2. ok = StatusOf(o, 200)
    BY <1>3 DEF StatusOf
  <2> HIDE DEF ok, o
  <2>3. \A code \in Int : StatusOf(o, code) \in Seq(Made(script, o))
    BY <2>1, PartsMade
  <2> QED
    BY <2>2, <2>3
<1>5. /\ new.own = o /\ new.state \in {"GENERATE_HEADER_STATE", "SEND_HEADER_STATE"}
      /\ new.response_buf \in {b, b \o ok}
      /\ new.state = "SEND_HEADER_STATE" => new.fp.of = o
  <2> HIDE DEF ok
  <2>1. \A x : /\ [Task EXCEPT !.response_code = x, !.state = "GENERATE_HEADER_STATE"].own = o
               /\ [Task EXCEPT !.response_code = x, !.state = "GENERATE_HEADER_STATE"].state
                    = "GENERATE_HEADER_STATE"
               /\ [Task EXCEPT !.response_code = x, !.state = "GENERATE_HEADER_STATE"].response_buf
                    = b
    BY <1>2 DEF TaskFields
  <2>2. CASE ~IsRead
    <3>1. new = [Task EXCEPT !.response_code = 200, !.state = "GENERATE_HEADER_STATE"]
      BY <2>2
    <3> HIDE DEF new
    <3> QED
      BY <2>1, <3>1
  <2>3. CASE IsRead
    <3> DEFINE u == [Task EXCEPT !.response_buf = @ \o ok, !.response_code = 200,
                                 !.fp = [of |-> request.of, pos |-> 0],
                                 !.state = "SEND_HEADER_STATE"]
               v == [Task EXCEPT !.response_buf = @ \o ok, !.response_code = 500,
                                 !.state = "GENERATE_HEADER_STATE"]
               w == [Task EXCEPT !.response_code = 404, !.state = "GENERATE_HEADER_STATE"]
    <3>1. u.own = o /\ u.state = "SEND_HEADER_STATE" /\ u.response_buf = b \o ok /\ u.fp.of = o
      BY <1>2, <1>3 DEF TaskFields
    <3>2. v.own = o /\ v.state = "GENERATE_HEADER_STATE" /\ v.response_buf = b \o ok
      BY <1>2 DEF TaskFields
    <3>3. w.own = o /\ w.state = "GENERATE_HEADER_STATE" /\ w.response_buf = b
      BY <2>1
    <3>4. new \in {u, v, w}
      BY <2>3 DEF StaticGet, ok
    <3> HIDE DEF u, v, w, new
    <3> QED
      BY <3>1, <3>2, <3>3, <3>4
  <2> QED
    BY <2>2, <2>3
<1> HIDE DEF new, ok
<1>6. /\ p.socket = Me.socket /\ p.receiving_buffer = Me.receiving_buffer
      /\ p.http_task = new /\ p.sending_buffer = Me.sending_buffer
  BY <1>2 DEF PeerFields
<1>7. connection_list' = [connection_list EXCEPT ![cur] = p]
  BY <1>1 DEF Me
<1> HIDE DEF p
<1>8. \A T : Made(script, o) \subseteq T /\ b \in Seq(T) => b \o ok \in Seq(T)
  <2> HIDE DEF b, o
  <2> QED
    BY <1>4, Adds
<1>9. \A T : /\ Made(script, Task.own) \subseteq T
             /\ Task.response_buf \in Seq(T) /\ Me.sending_buffer \in Seq(T)
             => p.http_task.response_buf \in Seq(T) /\ p.sending_buffer \in Seq(T)
  BY <1>5, <1>6, <1>8
<1>10. /\ p.http_task.state \notin {"RECV_BODY_STATE", "RECV_HEADER_STATE"}
       /\ Held(p.http_task) = <<>> /\ p.http_task.own = Task.own
       /\ SendsFile(p.http_task) => p.http_task.fp.of = p.http_task.own
  BY <1>5, <1>6 DEF Held, SendsFile
<1> QED
  BY <1>1, <1>2, <1>6, <1>7, <1>9, <1>10, SameSpot

LEMMA SendBodyEcho == ASSUME Sure, EchoInv, SendBody PROVE EchoInv'
<1> DEFINE b == Me.sending_buffer
           o == Task.own
           f == Task.fp
           file == FileStream(f.of)
           n == Least(Len(file) - f.pos, Room(b))
           part == SubSeq(file, f.pos + 1, f.pos + n)
           more == [Task EXCEPT !.fp.pos = @ + n]
           done == [more EXCEPT !.state = "FINISHED_STATE"]
           p == [Me EXCEPT !.sending_buffer = @ \o SubSeq(file, f.pos + 1, f.pos + n),
                           !.http_task.fp.pos = @ + n]
           q == [p EXCEPT !.http_task.state = "FINISHED_STATE"]
<1>0. Full
  BY SureFull
<1>1. /\ Task.state = "SEND_BODY_STATE" /\ pc = "http"
      /\ \/ connection_list' = [connection_list EXCEPT ![cur] = p]
         \/ connection_list' = [connection_list EXCEPT ![cur] = q]
      /\ script' = script /\ net' = net
  BY DEF SendBody, InHandler, Return
<1>2. /\ DOMAIN Me = PeerFields /\ DOMAIN Task = TaskFields /\ Task = Me.http_task
      /\ cur \in Slot /\ Me = connection_list[cur] /\ Me.socket # NULL
      /\ TaskTyped(script, Task) /\ SlotTyped(script, Me)
  BY <1>0, <1>1, CurrentTyped
<1>3. f \in [of : Asked(script), pos : 0 .. FileLen + 1] /\ o \in Asked(script)
  BY <1>1, <1>2 DEF TaskTyped, SendsFile, Parsed
<1>4. f.of = o
  <2>1. Echoes(script, Me, net[Me.socket])
    BY <1>2, Echoing
  <2> QED
    BY <1>1, <1>2, <2>1 DEF Echoes, Follows, SendsFile
<1>5. file \in Seq(Made(script, o)) /\ Len(file) = FileLen + 1
  BY <1>3, <1>4, PartsMade
<1>6. part \in Seq(Made(script, o))
  <2>1. f.pos \in 0 .. FileLen + 1 /\ b \in Seq(Piece(script)) /\ Len(b) <= BUF_DATA_MAXSIZE
    BY <1>2, <1>3 DEF SlotTyped
  <2>2. Len(b) \in Nat
    BY <2>1, LenProperties
  <2> DEFINE i == f.pos
             M == Made(script, o)
  <2> HIDE DEF b, file, i, M
  <2>3. i \in Nat /\ n \in Nat /\ i + n <= Len(file)
    BY <1>5, <2>1, <2>2, StateAssumption DEF Least, Room, i
  <2> HIDE DEF n
  <2>4. file \in Seq(M)
    BY <1>5 DEF M
  <2>5. SubSeq(file, i + 1, i + n) \in Seq(M)
    BY <2>3, <2>4, NextPart
  <2> QED
    BY <2>5 DEF i, M
<1>7. /\ p.socket = Me.socket /\ p.receiving_buffer = Me.receiving_buffer
      /\ p.http_task = more /\ DOMAIN p = PeerFields /\ p.sending_buffer = b \o part
  <2> HIDE DEF n, file, f
  <2> QED
    BY <1>2 DEF PeerFields
<1>8. /\ more.state = "SEND_BODY_STATE" /\ DOMAIN more = TaskFields /\ more.own = o
      /\ more.response_buf = Task.response_buf /\ more.fp.of = f.of
  <2> HIDE DEF n
  <2> QED
    BY <1>1, <1>2, <1>3 DEF TaskFields
<1> HIDE DEF p, more, n, part
<1>9. /\ done.state = "FINISHED_STATE" /\ done.own = o
      /\ done.response_buf = Task.response_buf
  BY <1>8 DEF TaskFields
<1>10. /\ q.socket = Me.socket /\ q.receiving_buffer = Me.receiving_buffer
       /\ q.http_task = done /\ q.sending_buffer = b \o part
  BY <1>7 DEF PeerFields
<1> HIDE DEF q, done
<1>11. \A T : Made(script, o) \subseteq T /\ b \in Seq(T) => b \o part \in Seq(T)
  <2> HIDE DEF b, o
  <2> QED
    BY <1>6, Adds
<1>12. CASE connection_list' = [connection_list EXCEPT ![cur] = p]
  <2>1. \A T : /\ Made(script, Task.own) \subseteq T
               /\ Task.response_buf \in Seq(T) /\ Me.sending_buffer \in Seq(T)
               => p.http_task.response_buf \in Seq(T) /\ p.sending_buffer \in Seq(T)
    BY <1>7, <1>8, <1>11
  <2>2. /\ p.http_task.state \notin {"RECV_BODY_STATE", "RECV_HEADER_STATE"}
        /\ Held(p.http_task) = <<>> /\ p.http_task.own = Task.own
        /\ p.http_task.fp.of = p.http_task.own
    BY <1>4, <1>7, <1>8 DEF Held
  <2> QED
    BY <1>1, <1>2, <1>7, <1>12, <2>1, <2>2, SameSpot
<1>13. CASE connection_list' = [connection_list EXCEPT ![cur] = q]
  <2>1. \A T : /\ Made(script, Task.own) \subseteq T
               /\ Task.response_buf \in Seq(T) /\ Me.sending_buffer \in Seq(T)
               => q.http_task.response_buf \in Seq(T) /\ q.sending_buffer \in Seq(T)
    BY <1>9, <1>10, <1>11
  <2>2. /\ q.http_task.state \notin {"RECV_BODY_STATE", "RECV_HEADER_STATE"}
        /\ Held(q.http_task) = <<>> /\ q.http_task.own = Task.own
        /\ ~SendsFile(q.http_task)
    BY <1>9, <1>10 DEF Held, SendsFile
  <2> QED
    BY <1>1, <1>2, <1>10, <1>13, <2>1, <2>2, SameSpot
<1> QED
  BY <1>1, <1>12, <1>13

LEMMA FinishEcho == ASSUME Sure, EchoInv, Finish PROVE EchoInv'
<1> DEFINE new == reset_http_task(Task)
           p == [Me EXCEPT !.http_task = new]
<1>1. /\ pc = "http" /\ Task.state = "FINISHED_STATE"
      /\ connection_list' = [connection_list EXCEPT ![cur] = p]
      /\ script' = script /\ net' = net
  BY DEF Finish, InHandler, Return, reset_http_task, FreshTask, world
<1>2. DOMAIN Me = PeerFields /\ Me.socket # NULL
  BY <1>1, SureFull, CurrentTyped
<1>3. new.state = "RECV_HEADER_STATE" /\ new.parse_buf = <<>> /\ new.response_buf = <<>>
  BY DEF reset_http_task, FreshTask
<1> HIDE DEF new
<1>4. /\ p.socket = Me.socket /\ p.receiving_buffer = Me.receiving_buffer
      /\ p.http_task = new /\ p.sending_buffer = Me.sending_buffer
  BY <1>2 DEF PeerFields
<1> HIDE DEF p
<1>5. \A T : /\ Made(script, Task.own) \subseteq T
             /\ Task.response_buf \in Seq(T) /\ Me.sending_buffer \in Seq(T)
             => p.http_task.response_buf \in Seq(T) /\ p.sending_buffer \in Seq(T)
  BY <1>3, <1>4, EmptySeq
<1>6. /\ p.http_task.state = "RECV_HEADER_STATE" /\ Held(p.http_task) = <<>>
      /\ ~SendsFile(p.http_task)
  BY <1>3, <1>4 DEF Held, SendsFile
<1> QED
  BY <1>1, <1>2, <1>4, <1>5, <1>6, SameSpot

LEMMA CheckCgiEcho == ASSUME Sure, EchoInv, CheckCgi PROVE EchoInv'
<1> DEFINE new == [Task EXCEPT !.state = "PROCESSING_CGI"]
<1>1. /\ pc = "http" /\ Task.state = "CHECK_CGI" /\ script' = script /\ net' = net
  BY DEF CheckCgi, InHandler
<1>2. PICK a \in ExecAddr :
        Return([Me EXCEPT !.cgi_executor = a, !.http_task.state = "PROCESSING_CGI"],
               IF Task.last_request THEN "CLOSE_CONN" ELSE "KEEP_CONN")
  BY DEF CheckCgi
<1> DEFINE p == [Me EXCEPT !.cgi_executor = a, !.http_task.state = "PROCESSING_CGI"]
           q == [p EXCEPT !.close_conn = TRUE]
<1>3. \/ connection_list' = [connection_list EXCEPT ![cur] = p]
      \/ connection_list' = [connection_list EXCEPT ![cur] = q]
  BY <1>2 DEF Return
<1>4. /\ DOMAIN Me = PeerFields /\ Task = Me.http_task /\ DOMAIN Task = TaskFields
      /\ Me.socket # NULL
  BY <1>1, SureFull, CurrentTyped
<1>5. /\ p.socket = Me.socket /\ p.receiving_buffer = Me.receiving_buffer /\ p.http_task = new
      /\ p.sending_buffer = Me.sending_buffer /\ DOMAIN p = PeerFields
  BY <1>4 DEF PeerFields
<1>6. /\ new.state = "PROCESSING_CGI" /\ new.own = Task.own
      /\ new.response_buf = Task.response_buf
  BY <1>4 DEF TaskFields
<1> HIDE DEF p, new
<1>7. /\ q.socket = Me.socket /\ q.receiving_buffer = Me.receiving_buffer /\ q.http_task = new
      /\ q.sending_buffer = Me.sending_buffer
  BY <1>5 DEF PeerFields
<1> HIDE DEF q
<1>8. PICK x : /\ connection_list' = [connection_list EXCEPT ![cur] = x]
               /\ x.socket = Me.socket /\ x.receiving_buffer = Me.receiving_buffer
               /\ x.http_task = new /\ x.sending_buffer = Me.sending_buffer
  BY <1>3, <1>5, <1>7
<1>9. /\ x.http_task.state = "PROCESSING_CGI" /\ Held(x.http_task) = <<>>
      /\ x.http_task.own = Task.own /\ ~SendsFile(x.http_task)
      /\ x.http_task.response_buf = Task.response_buf
  BY <1>6, <1>8 DEF Held, SendsFile
<1> QED
  BY <1>1, <1>4, <1>8, <1>9, SameSpot

\* While a body is read, its request and those before were read.
LEMMA BodySpot ==
  ASSUME NEW sc, NEW pr, NEW t, NEW k, NEW q, Taking(sc, pr, t, k, q), Certain(k, q),
         t.state = "RECV_BODY_STATE", Len(t.post_body) \in Nat, t.own[2] \in Int
  PROVE  /\ \A j \in Int : Before(<<j, 1>>, From(k, q)) <=> j <= t.own[2]
         /\ Len(t.post_body) = t.body_bytes_num => From(k, q)[2] = 1
<1> DEFINE m == Len(t.post_body)
           l == sc[t.own[1]][t.own[2]].length
           f == From(k, q)
           o == t.own[2]
<1>1. /\ f = (IF m < l THEN <<o, 3 + m>> ELSE <<o + 1, 1>>) /\ l \in Nat
      /\ t.body_bytes_num = l
  BY DEF Taking
<1> HIDE DEF m, l, f, o
<1>2. m \in Nat /\ o \in Int
  BY DEF m, o
<1>3. \A j \in Int : Before(<<j, 1>>, f) <=> j <= o
  BY <1>1, <1>2 DEF Before
<1>4. m = l => f[2] = 1
  BY <1>1, <1>2
<1> QED
  BY <1>1, <1>3, <1>4 DEF m, f, o

LEMMA ReceiveBodyEcho == ASSUME Sure, EchoInv, ReceiveBody PROVE EchoInv'
<1> DEFINE c == Me.socket
           k == net[c]
           b == Me.sending_buffer
           o == Task.own
           z == Unread(Task, Me.receiving_buffer, k.inq)
           g == From(k, z)
<1>1. Full /\ InputInv
  BY SureFull
<1>2. PICK p, u :
        /\ connection_list' = [connection_list EXCEPT ![cur] = p]
        /\ p.socket = c /\ p.sending_buffer = b
        /\ p.http_task.state \in TakesBody /\ p.http_task.own = o
        /\ u.state = "RECV_BODY_STATE" /\ u.own = o /\ Len(u.post_body) \in Nat
        /\ p.http_task.state = "CHECK_CGI" => Len(u.post_body) = u.body_bytes_num
        /\ Reads(script, proc, c, u, p.receiving_buffer, k)
  BY <1>1, ReceiveBodyTakes
<1>3. /\ pc = "http" /\ Task.state = "RECV_BODY_STATE" /\ script' = script /\ net' = net
  BY <1>1, ReceiveBodyTakes
<1>4. /\ cur \in Slot /\ Me = connection_list[cur] /\ Task = Me.http_task /\ c # NULL
      /\ DOMAIN connection_list = Slot /\ TaskTyped(script, Task)
  BY <1>1, <1>3, CurrentTyped
<1>5. /\ Patient(script, c, k) /\ Echoes(script, Me, k)
      /\ o # None => o[2] \in 1 .. Len(script[c]) /\ o \in Asked(script)
      /\ Reads(script, proc, c, Task, Me.receiving_buffer, k)
  BY <1>1, <1>4, Echoing, SlotOfClient
<1> DEFINE t == p.http_task
           q == Unread(u, p.receiving_buffer, k.inq)
           f == From(k, q)
<1>6. Unread(t, p.receiving_buffer, k.inq) = q
  <2>1. Held(t) = <<>> /\ Held(u) = <<>>
    BY <1>2 DEF Held, TakesBody
  <2> QED
    BY <2>1 DEF Unread
<1>7. o \in Asked(script) /\ o[2] \in Int
  <2>1. o \in Asked(script)
    BY <1>3, <1>4 DEF TaskTyped, Parsed
  <2> QED
    BY <2>1, AskedForm
<1>8. Certain(k, z) /\ Certain(k, q)
  BY <1>5 DEF Patient, Certain
<1>9. \A j \in Int : Before(<<j, 1>>, g) <=> j <= o[2]
  <2>1. Taking(script, proc, Task, k, z)
    BY <1>3, <1>5 DEF Reads, TakesBody
  <2>2. Len(Task.post_body) \in Nat
    BY <1>4, LenProperties DEF TaskTyped
  <2> HIDE DEF k, z
  <2> QED
    BY <1>3, <1>7, <1>8, <2>1, <2>2, BodySpot
<1>10. /\ \A j \in Int : Before(<<j, 1>>, f) <=> j <= o[2]
       /\ t.state = "CHECK_CGI" => f[2] = 1
  <2>1. Taking(script, proc, u, k, q)
    BY <1>2 DEF Reads, TakesBody
  <2> HIDE DEF k, q
  <2> QED
    BY <1>2, <1>7, <1>8, <2>1, BodySpot
<1>11. t.response_buf = <<>>
  <2>1. Typed'
    BY <1>1, ReceiveBodyTyped
  <2>2. TaskTyped(script, t)
    BY <1>2, <1>3, <1>4, <2>1 DEF Typed, SlotsTyped, SlotTyped, Slot
  <2> QED
    BY <1>2, <2>2 DEF TaskTyped, TakesBody
<1> HIDE DEF f, g
<1>12. /\ k.got \in Seq(Told(script, c, g)) /\ k.outq \in Seq(Told(script, c, g))
       /\ b \in Seq(Told(script, c, g))
  BY <1>4, <1>5 DEF Echoes, g
<1>13. /\ k.got \in Seq(Told(script, c, f)) /\ k.outq \in Seq(Told(script, c, f))
       /\ b \in Seq(Told(script, c, f))
  <2> HIDE DEF k, b, c, o
  <2> QED
    BY <1>9, <1>10, <1>12, ToldLater
<1>14. Follows(script, c, t, f)
  <2>1. Before(<<o[2], 1>>, f)
    BY <1>7, <1>10
  <2> QED
    BY <1>2, <1>7, <1>10, <1>11, <2>1, EmptySeq DEF Follows, SendsFile, TakesBody
<1>15. Echoes(script, p, k)
  BY <1>2, <1>6, <1>13, <1>14 DEF Echoes, f
<1> QED
  BY <1>1, <1>2, <1>3, <1>4, <1>15, SlotEcho

LEMMA HeaderParsedEcho == ASSUME Sure, EchoInv, HeaderParsed PROVE EchoInv'
<1> DEFINE c == Me.socket
           k == net[c]
           b == Me.sending_buffer
           r == Header[1].req
           a == RequestOf(r)
           m == r[2]
           u == [Task EXCEPT !.parse_buf = Header, !.own = r, !.last_request = a.close]
<1>0. Full /\ InputInv
  BY SureFull
<1>1. /\ pc = "http" /\ Task.state = "RECV_HEADER_STATE" /\ a.method # "MALFORMED"
      /\ script' = script /\ net' = net
      /\ c \in Client /\ c # NULL /\ m \in 1 .. Len(script[c]) /\ r = <<c, m>>
      /\ a = script[c][m] /\ a \in Request
      /\ From(k, Unread(Task, Me.receiving_buffer, k.inq)) = <<m, 1>>
  BY <1>0, HeaderParsedTakes
<1>2. PICK p :
        LET d == Unread(p.http_task, p.receiving_buffer, k.inq)
        IN /\ connection_list' = [connection_list EXCEPT ![cur] = p]
           /\ p.socket = c /\ p.sending_buffer = b
           /\ p.http_task = Dispatch(u, a) /\ p.http_task.own = r
           /\ p.http_task.state # "RECV_HEADER_STATE"
           /\ Certain(k, d) => From(k, d) = After(script, c, <<m, 2>>)
  BY <1>0, HeaderParsedTakes
<1>3. /\ DOMAIN Task = TaskFields /\ Task = Me.http_task /\ TaskTyped(script, Task)
      /\ cur \in Slot /\ Me = connection_list[cur]
  BY <1>0, <1>1, CurrentTyped
<1>4. Patient(script, c, k) /\ Echoes(script, Me, k)
  BY <1>1, <1>3, Echoing
<1>5. r \in Asked(script) /\ m \in Int
  BY <1>1, AskedOf
<1>6. u.response_buf = <<>> /\ DOMAIN u = TaskFields
  BY <1>1, <1>3 DEF TaskTyped, TaskFields
<1> DEFINE t == p.http_task
           d == Unread(t, p.receiving_buffer, k.inq)
           f == From(k, d)
<1> HIDE DEF u
<1>7. /\ t.state \in TakesBody \cup {"GENERATE_HEADER_STATE"} /\ t.response_buf = <<>>
      /\ a.method = "POST" /\ HasLength(a) => t.state = "RECV_BODY_STATE"
  <2>1. t = Dispatch(u, a)
    BY <1>2
  <2> HIDE DEF t, a
  <2>2. CASE a.method \in {"GET", "HEAD"}
    BY <1>6, <2>1, <2>2 DEF Dispatch, TaskFields, TakesBody
  <2>3. CASE a.method = "POST" /\ HasLength(a)
    BY <1>6, <2>1, <2>3 DEF Dispatch, TaskFields, TakesBody
  <2>4. CASE a.method = "POST" /\ ~HasLength(a)
    BY <1>6, <2>1, <2>4 DEF Dispatch, TaskFields, TakesBody
  <2>5. CASE a.method = "OTHER"
    BY <1>6, <2>1, <2>5 DEF Dispatch, TaskFields, TakesBody
  <2> QED
    BY <1>1, <2>2, <2>3, <2>4, <2>5 DEF Request
<1>8. /\ f = <<m, 3>> \/ f = <<m + 1, 1>>
      /\ t.state # "RECV_BODY_STATE" => f[2] = 1
  <2>1. f = After(script, c, <<m, 2>>)
    BY <1>2, <1>4 DEF Certain, Patient
  <2>2. (f = <<m, 3>> /\ BodyLen(a) > 0) \/ f = <<m + 1, 1>>
    <3>1. BodyLen(a) \in Nat
      BY <1>1 DEF Request, BodyLen, HasLength
    <3>2. f = IF 2 < 2 + BodyLen(a) THEN <<m, 3>> ELSE <<m + 1, 1>>
      BY <1>1, <2>1 DEF After, Size
    <3> HIDE DEF f, a, m
    <3> QED
      BY <3>1, <3>2
  <2>3. BodyLen(a) > 0 => a.method = "POST" /\ HasLength(a)
    <3>1. Posted(script)
      BY DEF Sure, Attended
    <3> QED
      BY <1>1, <1>5, <3>1 DEF Posted, BodyLen
  <2> HIDE DEF f, a, m, t
  <2> QED
    BY <1>7, <2>2, <2>3
<1>9. \A j \in Int : Before(<<j, 1>>, <<m, 1>>) => Before(<<j, 1>>, f)
  <2> HIDE DEF f, m
  <2> QED
    BY <1>5, <1>8 DEF Before
<1>10. Before(<<m, 1>>, f)
  <2> HIDE DEF f, m
  <2> QED
    BY <1>5, <1>8 DEF Before
<1>11. /\ k.got \in Seq(Told(script, c, <<m, 1>>)) /\ k.outq \in Seq(Told(script, c, <<m, 1>>))
       /\ b \in Seq(Told(script, c, <<m, 1>>))
  BY <1>1, <1>3, <1>4 DEF Echoes
<1> HIDE DEF f
<1>12. /\ k.got \in Seq(Told(script, c, f)) /\ k.outq \in Seq(Told(script, c, f))
       /\ b \in Seq(Told(script, c, f))
  <2> HIDE DEF k, b, c, m
  <2> QED
    BY <1>9, <1>11, ToldLater
<1>13. Follows(script, c, t, f)
  <2>1. t.own \in Asked(script) /\ Before(<<t.own[2], 1>>, f)
    BY <1>2, <1>5, <1>10
  <2>2. t.response_buf \in Seq(Told(script, c, f))
    BY <1>7, EmptySeq
  <2>3. t.state \notin {"SEND_BODY_STATE", "SEND_HEADER_STATE"}
    BY <1>7 DEF TakesBody
  <2> HIDE DEF t
  <2> QED
    BY <1>8, <2>1, <2>2, <2>3 DEF Follows, SendsFile
<1>14. Echoes(script, p, k)
  BY <1>2, <1>12, <1>13 DEF Echoes, f
<1> QED
  BY <1>0, <1>1, <1>2, <1>14, SlotEcho

LEMMA HandlerEcho == ASSUME Sure, EchoInv, Handler PROVE EchoInv'
<1>1. CASE HeaderTooLong \/ HeaderRefused \/ SendBodyFails
  <2>1. Me.socket # NULL
    <3>1. pc = "http"
      BY <1>1 DEF HeaderTooLong, HeaderRefused, HeaderComplete, SendBodyFails, InHandler
    <3> QED
      BY <3>1, SureFull, CurrentTyped
  <2>2. CASE ReturnCloseNow
    BY <2>1, <2>2, CloseNowEcho DEF ReturnCloseNow
  <2>3. CASE UNCHANGED <<peers, world>>
    BY <2>3, EchoStays DEF peers, world
  <2> QED
    BY <1>1, <2>2, <2>3 DEF HeaderTooLong, HeaderRefused, SendBodyFails
<1>2. CASE ProcessingCgi \/ HandlerDies
  <2>1. UNCHANGED <<connection_list, script, net>>
    BY <1>2 DEF ProcessingCgi, HandlerDies, Die, peers, world
  <2> QED
    BY <2>1, EchoStays
<1> QED
  BY <1>1, <1>2, HeaderIncompleteEcho, HeaderParsedEcho, ReceiveBodyEcho, GenerateHeaderEcho,
     SendHeaderEcho, CheckStaticEcho, CheckCgiEcho, SendBodyEcho, FinishEcho
  DEF Handler
-----------------------------------------------------------------------------
(* The surroundings of scripts that are left alone.                        *)

\* A client that has an answer has seen a token of it.
LEMMA AnswerSeen ==
  ASSUME Full, NEW r \in Asked(script), Answered(r)
  PROVE  \E i \in 1 .. Len(net[r[1]].got) : net[r[1]].got[i].req = r
<1> DEFINE q == RequestOf(r)
           a == Answer(r)
<1>1. q \in Request
  BY AskedRequest DEF Full, Typed, ScriptTyped
<1>2. a # <<>>
  BY DEF Answered
<1>3. a \in Seq(Piece(script)) /\ \A i \in 1 .. Len(a) : a[i].req = r
  <2>1. \A code \in Int : Sound(r, StatusOf(r, code))
    BY StatusSound
  <2>2. CASE q.target # "cgi"
    BY <1>1, <2>2, AnswerType DEF Ending
  <2>3. CASE q.target = "cgi"
    <3>1. CASE q.method \in {"GET", "HEAD"} \/ (q.method = "POST" /\ HasLength(q))
      <4>1. a = OutputOf(r, OutputLen(q))
        BY <2>3, <3>1 DEF Answer, OutputOf
      <4>2. OutputLen(q) \in Nat
        BY StateAssumption DEF OutputLen, Least
      <4> DEFINE w == OutputLen(q)
      <4> HIDE DEF w
      <4>3. /\ OutputOf(r, w) \in Seq(Piece(script)) /\ Len(OutputOf(r, w)) = w
            /\ \A i \in 1 .. w : OutputOf(r, w)[i] = Token(r, "cgi", i)
        BY <4>2, OutputType DEF w
      <4>4. \A i \in 1 .. w : OutputOf(r, w)[i].req = r
        BY <4>3 DEF Token
      <4>5. a = OutputOf(r, w)
        BY <4>1 DEF w
      <4> HIDE DEF a
      <4> QED
        BY <4>3, <4>4, <4>5
    <3>2. CASE q.method = "OTHER" \/ (q.method = "POST" /\ ~HasLength(q))
      <4>1. a = StatusOf(r, 501) \/ a = StatusOf(r, 411)
        <5>1. q.method = "OTHER" => a = StatusOf(r, 501)
          BY DEF Answer, StatusOf
        <5>2. q.method = "POST" /\ ~HasLength(q) => a = StatusOf(r, 411)
          BY DEF Answer, StatusOf
        <5> HIDE DEF a, q
        <5> QED
          BY <3>2, <5>1, <5>2
      <4> HIDE DEF a
      <4>2. \A code \in Int : /\ StatusOf(r, code) \in Seq(Piece(script))
                              /\ \A i \in 1 .. Len(StatusOf(r, code)) : StatusOf(r, code)[i].req = r
        BY <2>1 DEF Sound, Ending
      <4>3. 501 \in Int /\ 411 \in Int
        OBVIOUS
      <4>4. PICK code \in Int : a = StatusOf(r, code)
        BY <4>1, <4>3
      <4> QED
        BY <4>2, <4>4
    <3>3. CASE q.method = "MALFORMED"
      <4>1. a = <<>>
        BY <3>3 DEF Answer
      <4> QED
        BY <1>2, <4>1
    <3> QED
      BY <1>1, <3>1, <3>2, <3>3 DEF Request
  <2> QED
    BY <2>2, <2>3
<1> HIDE DEF a
<1>4. Len(a) \in 1 .. Len(a)
  BY <1>2, <1>3, EmptySeq, LenProperties
<1>5. PICK i \in 1 .. Len(net[r[1]].got) : net[r[1]].got[i] = a[Len(a)]
  BY DEF Answered, a
<1> QED
  BY <1>3, <1>4, <1>5

\* A step of client c, which leaves the server alone.
LEMMA ClientEcho ==
  ASSUME Full, EchoInv, NEW c \in Client, UNCHANGED <<connection_list, script>>,
         \A d \in Client : d # c => net'[d] = net[d],
         Patient(script, c, net'[c]),
         \A s \in Slot : connection_list[s].socket = c =>
           Echoes(script, connection_list[s], net'[c])
  PROVE  EchoInv'
<1>1. ASSUME NEW s \in Slot
      PROVE  \/ connection_list'[s] = connection_list[s] /\ connection_list[s].socket # c
             \/ NowEchoes(s)
  <2>1. CASE connection_list[s].socket = c
    BY <2>1 DEF NowEchoes
  <2> QED
    BY <2>1
<1> QED
  BY <1>1, EchoStep

LEMMA ConnectEcho == ASSUME Sure, EchoInv, NEW c \in Client, Connect(c) PROVE EchoInv'
<1> DEFINE k == net[c]
           h == net'[c]
<1>0. Full
  BY SureFull
<1>1. /\ UNCHANGED <<connection_list, script>>
      /\ DOMAIN net = Client /\ \A d \in Client : DOMAIN net[d] = NetFields
  BY <1>0 DEF Connect, UnchangedServer, peers, Full, IInv, SlotInv, Shape
<1>2. /\ h.st = "on" /\ h.conn = k.conn /\ h.inq = k.inq /\ h.outq = k.outq /\ h.got = k.got
      /\ h.next = k.next
      /\ \A d \in Client : d # c => net'[d] = net[d]
  BY <1>1 DEF Connect, NetFields
<1> HIDE DEF h
<1>3. Patient(script, c, k)
  BY DEF EchoInv
<1>4. \A q : From(h, q) = From(k, q)
  BY <1>2 DEF From
<1>5. Patient(script, c, h)
  BY <1>2, <1>3, <1>4 DEF Patient
<1>6. ASSUME NEW s \in Slot, connection_list[s].socket = c
      PROVE  Echoes(script, connection_list[s], h)
  <2>1. c # NULL
    BY StateAssumption
  <2>2. Echoes(script, connection_list[s], k)
    BY <1>6, <2>1 DEF EchoInv, SlotEchoes
  <2> QED
    BY <1>2, <1>4, <2>2 DEF Echoes
<1> QED
  BY <1>0, <1>1, <1>2, <1>5, <1>6, ClientEcho DEF h

LEMMA ClientReadEcho == ASSUME Sure, EchoInv, NEW c \in Client, ClientRead(c) PROVE EchoInv'
<1> DEFINE k == net[c]
           h == net'[c]
           g == k.got
           o == k.outq
           S == Piece(script)
<1>0. Full
  BY SureFull
<1>1. /\ UNCHANGED <<connection_list, script>>
      /\ net' = [net EXCEPT ![c].got = @ \o o, ![c].outq = <<>>] /\ o # <<>>
  BY DEF ClientRead, UnchangedServer, peers
<1>2. /\ o \in Seq(S) /\ DOMAIN net = Client /\ \A d \in Client : DOMAIN net[d] = NetFields
  BY <1>0 DEF Full, Typed, NetTyped, IInv, SlotInv, Shape
<1>3. Patient(script, c, k) /\ g \in Seq(S)
  BY DEF EchoInv, Patient
<1>4. /\ h.got = g \o o /\ h.outq = <<>> /\ h.st = k.st /\ h.conn = k.conn /\ h.inq = k.inq
      /\ h.next = k.next
      /\ \A d \in Client : d # c => net'[d] = net[d]
  BY <1>1, <1>2 DEF NetFields
<1>5. k.conn # "none"
  BY <1>1, <1>3 DEF Patient
<1> HIDE DEF g, o, S, k, h
<1>6. /\ g \o o \in Seq(S) /\ Len(g) \in Nat /\ Len(o) \in Nat /\ Len(g \o o) = Len(g) + Len(o)
      /\ \A i \in 1 .. Len(g) : (g \o o)[i] = g[i]
  BY <1>2, <1>3, ConcatProperties, LenProperties
<1>7. \A q : From(h, q) = From(k, q)
  BY <1>4 DEF From
<1>8. Patient(script, c, h)
  <2>1. ASSUME NEW r, NEW i \in 1 .. Len(g), g[i].req = r
        PROVE  \E j \in 1 .. Len(g \o o) : (g \o o)[j].req = r
    <3>1. i \in 1 .. Len(g \o o) /\ (g \o o)[i] = g[i]
      BY <1>6
    <3> QED
      BY <2>1, <3>1
  <2>2. ASSUME NEW j \in 2 .. Len(script[c]), Before(<<j, 1>>, h.next)
        PROVE  \E i \in 1 .. Len(h.got) : h.got[i].req = <<c, j - 1>>
    <3>1. PICK i \in 1 .. Len(g) : g[i].req = <<c, j - 1>>
      BY <1>3, <1>4, <2>2 DEF Patient, g
    <3> QED
      BY <1>4, <2>1, <3>1
  <2> QED
    BY <1>3, <1>4, <1>5, <1>6, <2>2 DEF Patient, S
<1>9. ASSUME NEW s \in Slot, connection_list[s].socket = c
      PROVE  Echoes(script, connection_list[s], h)
  <2> DEFINE p == connection_list[s]
             f == From(k, Unread(p.http_task, p.receiving_buffer, k.inq))
  <2>1. c # NULL
    BY StateAssumption
  <2>2. Echoes(script, p, k) /\ p.socket = c
    BY <1>9, <2>1 DEF EchoInv, SlotEchoes, k
  <2>3. From(h, Unread(p.http_task, p.receiving_buffer, h.inq)) = f
    BY <1>4, <1>7
  <2> HIDE DEF f, p
  <2>4. /\ Follows(script, c, p.http_task, f) /\ g \in Seq(Told(script, c, f))
        /\ o \in Seq(Told(script, c, f)) /\ p.sending_buffer \in Seq(Told(script, c, f))
    BY <2>2 DEF Echoes, g, o, f
  <2>5. g \o o \in Seq(Told(script, c, f)) /\ <<>> \in Seq(Told(script, c, f))
    BY <2>4, ConcatProperties, EmptySeq
  <2>6. Echoes(script, p, h)
    BY <1>4, <2>2, <2>3, <2>4, <2>5 DEF Echoes
  <2> QED
    BY <2>6 DEF p
<1> QED
  BY <1>0, <1>1, <1>4, <1>8, <1>9, ClientEcho DEF h

LEMMA ClientSendEcho == ASSUME Sure, EchoInv, NEW c \in Client, ClientSend(c) PROVE EchoInv'
<1> DEFINE k == net[c]
           h == net'[c]
           S == PieceOf(script, c)
           tok == RequestToken(c, k.next[1], k.next[2])
           nxt == IF k.next[2] < 2 + BodyLen(script[c][k.next[1]])
                    THEN <<k.next[1], k.next[2] + 1>> ELSE <<k.next[1] + 1, 1>>
<1>0. Full /\ InputInv /\ ~Pipelined
  BY SureFull DEF Sure, Attended
<1>1. /\ UNCHANGED <<connection_list, script>>
      /\ k.st = "on" /\ k.next[1] <= Len(script[c])
      /\ net' = [net EXCEPT ![c].inq = Append(@, tok), ![c].next = nxt]
      /\ ~Pipelined /\ k.next[1] > 1 /\ k.next[2] = 1 => Answered(<<c, k.next[1] - 1>>)
  BY DEF ClientSend, UnchangedServer, peers, HasMore
<1>2. /\ k.inq \in Seq(S) /\ k.next \in (Nat \ {0}) \X Nat
      /\ DOMAIN net = Client /\ \A d \in Client : DOMAIN net[d] = NetFields
  BY <1>0 DEF Full, Typed, NetTyped, IInv, SlotInv, Shape
<1>3. /\ k.next[1] \in Nat \ {0} /\ k.next[2] \in Nat /\ k.next = <<k.next[1], k.next[2]>>
  BY <1>2
<1>4. tok = At(c, k.next) /\ nxt = After(script, c, k.next)
  BY <1>3 DEF At, After, Size
<1>5. \/ nxt[1] = k.next[1] /\ nxt[2] = k.next[2] + 1
      \/ nxt[1] = k.next[1] + 1 /\ nxt[2] = 1
  OBVIOUS
<1> HIDE DEF tok, nxt
<1>6. /\ h.inq = Append(k.inq, tok) /\ h.next = nxt /\ h.st = k.st /\ h.conn = k.conn
      /\ h.got = k.got /\ h.outq = k.outq
      /\ \A d \in Client : d # c => net'[d] = net[d]
  BY <1>1, <1>2 DEF NetFields
<1>7. script[c] \in Seq(Request) /\ Len(script[c]) \in Nat /\ k.next[1] \in 1 .. Len(script[c])
  BY <1>0, <1>1, <1>3, LenProperties DEF Full, Typed, ScriptTyped
<1>8. ASSUME NEW j \in 1 .. Len(script[c])
      PROVE  Size(script, c, j) \in Nat /\ Size(script, c, j) >= 2
  <2>1. script[c][j] \in Request
    BY <1>7, ElementOfSeq
  <2>2. script[c][j].length \in Int
    BY <2>1 DEF Request
  <2> QED
    BY <2>2 DEF Size, BodyLen, HasLength
<1>9. tok \in S
  <2>1. <<c, k.next[1]>> \in Asked(script)
    BY <1>7 DEF Asked
  <2> DEFINE x == k.next[1]
             y == k.next[2]
  <2> HIDE DEF x, y
  <2> QED
    BY <1>3, <2>1 DEF tok, RequestToken, Token, PieceOf, Piece, x, y
<1>10. k.next[1] # Len(script[c]) + 1
  BY <1>1, <1>3, <1>7
<1>11. Patient(script, c, k)
  BY DEF EchoInv
<1>12. k.next[1] > 1 /\ k.next[2] = 1 =>
         \E i \in 1 .. Len(k.got) : k.got[i].req = <<c, k.next[1] - 1>>
  <2> SUFFICES ASSUME k.next[1] > 1, k.next[2] = 1
               PROVE  \E i \in 1 .. Len(k.got) : k.got[i].req = <<c, k.next[1] - 1>>
    OBVIOUS
  <2> DEFINE r == <<c, k.next[1] - 1>>
  <2>1. r \in Asked(script)
    <3>1. k.next[1] - 1 \in 1 .. Len(script[c])
      BY <1>3, <1>7
    <3> QED
      BY <3>1, AskedOf
  <2>2. Answered(r) /\ r[1] = c
    BY <1>0, <1>1
  <2> HIDE DEF r
  <2>3. \E i \in 1 .. Len(net[c].got) : net[c].got[i].req = r
    BY <1>0, <2>1, <2>2, AnswerSeen
  <2> QED
    BY <2>3 DEF r
<1>13. k.next[2] # 0
  <2>1. k.conn \in {"none", "open"}
    BY DEF ClientSend
  <2>2. CASE k.conn = "none"
    BY <1>0, <1>10, <2>2 DEF InputInv, Unaccepted, Flow, IsSpot
  <2>3. CASE k.conn = "open"
    <3>1. PICK s \in Slot : connection_list[s].socket = c
      BY <1>0, <2>3 DEF Full, IInv, SlotInv, SlotsMatchConnections, Peer
    <3>2. c # NULL
      BY StateAssumption
    <3>3. SlotReads(s)
      BY <1>0 DEF InputInv
    <3> QED
      BY <1>10, <3>1, <3>2, <3>3 DEF SlotReads, Reads, Flow, IsSpot
  <2> QED
    BY <2>1, <2>2, <2>3
<1> HIDE DEF k, h, S
\* The next token is taken up behind what is on its way.
<1>14. ASSUME NEW q \in Seq(S), Flow(script, c, k, q)
       PROVE  From(h, Append(q, tok)) = From(k, q)
  <2>1. HasToken(script, c, k.next)
    BY <1>3, <1>7, <1>8, <1>10, <1>14 DEF Flow, HasToken
  <2> QED
    BY <1>1, <1>4, <1>6, <1>9, <1>14, <2>1, FlowAppend
<1>15. Patient(script, c, h)
  <2>1. ASSUME NEW j \in 2 .. Len(script[c]), Before(<<j, 1>>, nxt)
        PROVE  \E i \in 1 .. Len(k.got) : k.got[i].req = <<c, j - 1>>
    <3>1. CASE Before(<<j, 1>>, k.next)
      BY <1>11, <3>1 DEF Patient
    <3>2. CASE ~Before(<<j, 1>>, k.next)
      <4>1. j \in Nat /\ j > 1
        BY <1>7
      <4>2. j = k.next[1] /\ k.next[2] \in {0, 1}
        <5> DEFINE u == k.next[1]
                   v == k.next[2]
                   x == nxt[1]
                   y == nxt[2]
        <5>1. /\ u \in Nat /\ v \in Nat /\ ((x = u /\ y = v + 1) \/ (x = u + 1 /\ y = 1))
              /\ (j < x \/ (j = x /\ 1 < y))
              /\ ~(j < u \/ (j = u /\ 1 < v))
          BY <1>3, <1>5, <2>1, <3>2 DEF Before
        <5> HIDE DEF u, v, x, y
        <5>2. j = u /\ v \in {0, 1}
          BY <4>1, <5>1
        <5> QED
          BY <5>2 DEF u, v
      <4>3. k.next[2] = 1
        BY <1>13, <4>2
      <4> QED
        BY <1>12, <4>1, <4>2, <4>3
    <3> QED
      BY <3>1, <3>2
  <2>2. k.conn = "none" => From(h, h.inq) = From(k, k.inq)
    <3> SUFFICES ASSUME k.conn = "none" PROVE From(h, h.inq) = From(k, k.inq)
      OBVIOUS
    <3>1. Flow(script, c, k, k.inq)
      BY <1>0 DEF InputInv, Unaccepted, k
    <3> QED
      BY <1>2, <1>6, <1>14, <3>1 DEF k, S
  <2> QED
    BY <1>6, <1>11, <2>1, <2>2 DEF Patient
<1>16. ASSUME NEW s \in Slot, connection_list[s].socket = c
       PROVE  Echoes(script, connection_list[s], h)
  <2> DEFINE p == connection_list[s]
             t == p.http_task
             b == p.receiving_buffer
             q == Unread(t, b, k.inq)
  <2>1. c # NULL
    BY StateAssumption
  <2>2. Reads(script, proc, c, t, b, k) /\ Held(t) \in Seq(S) /\ b \in Seq(S)
    BY <1>0, <1>16, <2>1, SlotOfClient DEF k, S
  <2>3. Echoes(script, p, k) /\ p.socket = c
    BY <1>16, <2>1 DEF EchoInv, SlotEchoes, k
  <2>4. k.inq \in Seq(S)
    BY <1>2 DEF k, S
  <2> HIDE DEF p, t, b
  <2>5. q \in Seq(S) /\ Flow(script, c, k, q)
    BY <2>2, <2>4, Joined DEF Reads, Unread
  <2>6. Unread(t, b, h.inq) = Append(q, tok)
    <3> DEFINE x == Held(t) \o b
    <3>1. x \in Seq(S)
      BY <2>2, Joined
    <3> HIDE DEF x
    <3>2. x \o Append(k.inq, tok) = Append(x \o k.inq, tok)
      BY <1>9, <2>4, <3>1
    <3> QED
      BY <1>6, <3>2 DEF x, Unread
  <2>7. From(h, Unread(t, b, h.inq)) = From(k, q)
    BY <1>14, <2>5, <2>6
  <2>8. Echoes(script, p, h)
    BY <1>6, <2>3, <2>7 DEF Echoes, t, b
  <2> QED
    BY <2>8 DEF p
<1> QED
  BY <1>0, <1>1, <1>6, <1>15, <1>16, ClientEcho DEF h

LEMMA EnvironmentEcho == ASSUME Sure, EchoInv, Environment PROVE EchoInv'
<1>1. ~\E c \in Client : ClientShutdown(c) \/ ClientVanish(c)
  BY DEF Sure, Attended, ClientShutdown, ClientVanish
<1>2. ASSUME NEW p, ChildRead(p) \/ ChildWrite(p) \/ ChildExit(p) \/ ChildFails(p) PROVE EchoInv'
  <2>1. UNCHANGED <<connection_list, script, net>>
    BY <1>2 DEF ChildRead, ChildWrite, ChildExit, ChildFails, UnchangedServer, peers
  <2> QED
    BY <2>1, EchoStays
<1> QED
  BY <1>1, <1>2, ConnectEcho, ClientSendEcho, ClientReadEcho DEF Environment

LEMMA LoopStepEcho == ASSUME Sure, EchoInv, ServerStep PROVE EchoInv'
<1>1. CASE Select \/ SelectDies \/ NoCgi \/ CgiDies \/ SkipSlot
  <2>1. UNCHANGED <<connection_list, script, net>>
    BY <1>1 DEF Select, SelectDies, NoCgi, CgiDies, SkipSlot, Die, peers, world
  <2> QED
    BY <2>1, EchoStays
<1> QED
  BY <1>1, AcceptEcho, CgiWriteEcho, CgiReadEcho, RecvEcho, RecvClosesEcho, SendEcho,
     SendClosesEcho, HandlerEcho
  DEF ServerStep

LEMMA NextEcho == ASSUME Sure, EchoInv, [Next]_vars PROVE EchoInv'
<1>1. ~Interrupt /\ ~SelectFails
  BY DEF Sure, Attended, Interrupt, SelectFails
<1>2. CASE UNCHANGED vars
  BY <1>2, EchoStays DEF vars
<1> QED
  BY <1>1, <1>2, LoopStepEcho, EnvironmentEcho DEF Next

LEMMA InitEcho == ASSUME Init, Attended(script) PROVE EchoInv
<1>1. ASSUME NEW c \in Client PROVE Patient(script, c, net[c])
  <2>1. /\ net[c].st = "off" /\ net[c].conn = "none" /\ net[c].inq = <<>> /\ net[c].outq = <<>>
        /\ net[c].got = <<>> /\ net[c].next = <<1, 1>>
    BY DEF Init
  <2>2. ~\E j \in 2 .. Len(script[c]) : Before(<<j, 1>>, <<1, 1>>)
    BY DEF Before
  <2> QED
    BY <2>1, <2>2, EmptySeq DEF Patient, From
<1>2. \A s \in Slot : SlotEchoes(s)
  BY DEF Init, FreshPeer, SlotEchoes, NO_SOCKET
<1> QED
  BY <1>1, <1>2 DEF EchoInv
-----------------------------------------------------------------------------
(* No slot with a script is given up.                                      *)

\* A script that is done has read all that it is given.
Drained ==
  \A a \in ExecAddr :
    execs[a].live /\ proc[execs[a].pid].st = "done" => execs[a].cgi_buffer = <<>>

\* A task ends its connection only when its request says so, which one for a script
\* does not.
Keeping(p) ==
  LET t == p.http_task
  IN /\ ~p.close_conn
     /\ p.socket # NULL /\ t.state \in TakesBody =>
          t.last_request = script[t.own[1]][t.own[2]].close

KeepingInv == \A s \in Slot : Keeping(connection_list[s])

\* What select has found to be received is still there at the turn of the slot.
Awaited(s) ==
  LET c == connection_list[s].socket
  IN c # NULL /\ SockFd(c) \in rfds /\ ~Past(s) => net[c].inq # <<>>

AwaitedInv == pc \notin {"dead", "exit"} => Heralds /\ \A s \in Slot : Awaited(s)

Tended == Sure /\ EchoInv /\ Drained /\ KeepingInv /\ AwaitedInv

\* What follows a request for a script fits into the receiving buffer, as the client
\* waits for an answer to it before it goes on.
LEMMA LeavesRoom ==
  ASSUME Sure, EchoInv, Me.cgi_executor # NULL, net[Me.socket].inq # <<>>
  PROVE  Room(Me.receiving_buffer) > 0
<1> DEFINE c == Me.socket
           k == net[c]
           b == Me.receiving_buffer
           i == k.inq
           q == Unread(Task, b, i)
           f == From(k, q)
           S == PieceOf(script, c)
           m == Task.own[2]
           n == Len(script[c])
           j == f[1]
<1>1. /\ Full /\ cur \in Slot /\ Me = connection_list[cur] /\ Task = Me.http_task
      /\ SlotTyped(script, Me)
  BY CurrentTyped, SureFull
<1>2. /\ c # NULL /\ Task.state = "PROCESSING_CGI" /\ Task.own \in Asked(script)
      /\ script[Task.own[1]][m].target = "cgi"
  BY ScriptSlot
<1>3. Task.own # None
  BY <1>1, <1>2, AskedRequest DEF Full, Typed, ScriptTyped
<1>4. /\ c \in Client /\ n \in Nat /\ Patient(script, c, k) /\ Echoes(script, Me, k)
      /\ Flow(script, c, k, q) /\ q \in Seq(S) /\ f[1] \in Int /\ f[2] \in Int
      /\ m \in 1 .. n /\ Task.own = <<c, m>>
  BY <1>1, <1>2, <1>3, Echoing
<1>5. b \in Seq(S) /\ i \in Seq(S)
  BY <1>1, <1>2, SlotOfClient, SureFull
<1>6. /\ f[2] = 1 /\ Before(<<m, 1>>, f) /\ k.got \in Seq(Told(script, c, f))
  BY <1>1, <1>2, <1>4 DEF Echoes, Follows
<1>7. q = b \o i
  <2>1. Held(Task) = <<>>
    BY <1>2 DEF Held
  <2> HIDE DEF b, i, S
  <2>2. <<>> \o b = b
    BY <1>5, ConcatEmptySeq
  <2> QED
    BY <2>1, <2>2 DEF Unread
<1> DEFINE l == Len(q)
           lb == Len(b)
           li == Len(i)
<1>8. l = lb + li /\ lb \in Nat /\ li \in Nat /\ li > 0
  <2> HIDE DEF b, i, S, q
  <2>1. Len(b \o i) = Len(b) + Len(i) /\ Len(b) \in Nat /\ Len(i) \in Nat
    BY <1>5, ConcatProperties, LenProperties
  <2>2. Len(i) # 0
    BY <1>5, EmptySeq DEF i
  <2> QED
    BY <1>7, <2>1, <2>2
<1> HIDE DEF b, i, q, S, k, n
<1>9. q # <<>> /\ 1 \in 1 .. Len(q) /\ Len(q) \in Nat
  <2>1. l \in Nat /\ l > 0
    BY <1>8
  <2> QED
    BY <1>4, <2>1, EmptySeq
<1>10. f = SpotOf(q[1])
  BY <1>9 DEF From
<1>11. IsSpot(script, c, f) /\ f = <<j, 1>>
  <2>1. IsSpot(script, c, SpotOf(q[1]))
    BY <1>4, <1>9 DEF Flow, InOrder
  <2>2. SpotOf(q[1]) = <<SpotOf(q[1])[1], SpotOf(q[1])[2]>>
    BY DEF SpotOf
  <2> QED
    BY <1>6, <1>10, <2>1, <2>2
<1> HIDE DEF f
<1>12. j \in m + 1 .. n /\ j \in Nat
  BY <1>4, <1>6, <1>11 DEF Before, IsSpot, n
<1> DEFINE z == Size(script, c, j)
<1>13. z \in Nat /\ z <= BUF_DATA_MAXSIZE /\ z >= 2
  <2>1. z <= BUF_DATA_MAXSIZE
    BY <1>2, <1>4, <1>12 DEF Sure, Attended, n
  <2>2. script[c] \in Seq(Request) /\ j \in 1 .. Len(script[c])
    BY <1>1, <1>4, <1>12 DEF Full, Typed, ScriptTyped, n
  <2>3. script[c][j] \in Request
    BY <2>2, ElementOfSeq
  <2>4. script[c][j].length \in Int
    BY <2>3 DEF Request
  <2> QED
    BY <2>1, <2>4 DEF Size, BodyLen, HasLength
<1>14. l <= z
  <2> SUFFICES ASSUME z < l PROVE FALSE
    BY <1>9, <1>13
  <2>1. z \in 1 .. l /\ 1 + z - 1 <= z
    BY <1>9, <1>13
  <2>2. \A x \in 1 .. z : SpotOf(q[x]) = <<j, 1 + x - 1>>
    <3> HIDE DEF z, j
    <3>1. /\ q \in Seq(S) /\ InOrder(script, c, q) /\ z \in 1 .. Len(q) /\ j \in Nat /\ 1 \in Nat
          /\ SpotOf(q[1]) = <<j, 1>> /\ 1 + z - 1 <= Size(script, c, j)
          /\ Size(script, c, j) \in Nat
      BY <1>4, <1>10, <1>11, <1>12, <1>13, <2>1 DEF Flow, z
    <3> HIDE DEF c
    <3> QED
      BY ONLY <3>1, Consecutive
  <2>3. z \in 1 .. z /\ z \in 1 .. Len(q) - 1 /\ z + 1 \in 1 .. Len(q)
    BY <1>9, <1>13
  <2>4. SpotOf(q[z]) = <<j, z>>
    BY <1>13, <2>2, <2>3
  <2>5. SpotOf(q[z + 1]) = After(script, c, <<j, z>>)
    BY <1>4, <2>3, <2>4 DEF Flow, InOrder
  <2>6. After(script, c, <<j, z>>) = <<j + 1, 1>>
    BY <1>13 DEF After
  <2>7. IsSpot(script, c, <<j + 1, 1>>) /\ Before(<<j + 1, 1>>, k.next)
    <3>1. IsSpot(script, c, SpotOf(q[z + 1])) /\ Before(SpotOf(q[z + 1]), k.next)
      BY <1>4, <2>3 DEF Flow, InOrder
    <3> QED
      BY <2>5, <2>6, <3>1
  <2>8. j + 1 \in 2 .. Len(script[c]) /\ (j + 1) - 1 = j
    <3>1. m \in Nat /\ m >= 1 /\ j + 1 \in 1 .. Len(script[c])
      BY <1>4, <2>7 DEF IsSpot
    <3> HIDE DEF j, m
    <3> QED
      BY <1>12, <3>1
  <2>9. PICK x \in 1 .. Len(k.got) : k.got[x].req = <<c, j>>
    BY <1>4, <2>7, <2>8 DEF Patient
  <2>10. k.got[x] \in Told(script, c, f)
    BY <1>6, <2>9, ElementOfSeq
  <2>11. Before(<<j, 1>>, <<j, 1>>)
    <3> HIDE DEF j
    <3> QED
      BY <1>11, <2>9, <2>10 DEF Told
  <2> QED
    BY <1>12, <2>11 DEF Before
<1> HIDE DEF l, lb, li, z
<1>15. lb < BUF_DATA_MAXSIZE
  BY <1>8, <1>13, <1>14, StateAssumption DEF l
<1> QED
  BY <1>8, <1>15, StateAssumption DEF Room, lb, b

\* recv returns 0 for no slot with a script.
LEMMA RecvClosesNone == ASSUME Tended, RecvCloses PROVE Me.cgi_executor = NULL
<1> SUFFICES ASSUME Me.cgi_executor # NULL PROVE FALSE
  OBVIOUS
<1> DEFINE c == Me.socket
           i == net[c].inq
           b == Me.receiving_buffer
           S == PieceOf(script, c)
<1>1. /\ pc = "recv" /\ c # NULL /\ SockFd(c) \in rfds /\ ReceiveFails
  BY DEF RecvCloses, NO_SOCKET
<1>2. /\ Full /\ InputInv /\ cur \in Slot /\ Me = connection_list[cur] /\ cur \in Nat
      /\ SlotTyped(script, Me)
  BY CurrentTyped, SureFull DEF Slot, Tended
<1>3. ~Past(cur)
  BY <1>1, <1>2 DEF AtWork, Past
<1>4. i # <<>>
  BY <1>1, <1>2, <1>3 DEF Tended, AwaitedInv, Awaited
<1>5. Room(b) > 0
  BY <1>4, LeavesRoom DEF Tended
<1>6. Len(b) \in Nat
  BY <1>2, LenProperties DEF SlotTyped
<1>7. i \in Seq(S)
  BY <1>1, <1>2, SlotOfClient
<1>8. Received = <<>>
  BY <1>1 DEF ReceiveFails, TakenForFailure, Tended, Sure, Attended
<1> DEFINE r == Room(b)
           l == Len(i)
           n == Least(l, r)
<1>9. Received = Take(i, n)
  BY DEF Received
<1>10. r \in Nat /\ r > 0
  BY <1>5, <1>6, StateAssumption DEF Room
<1> HIDE DEF i, S, r
<1>11. l \in Nat /\ l > 0
  <2>1. Len(i) # 0
    BY <1>4, <1>7, EmptySeq DEF i
  <2> QED
    BY <1>7, <2>1, LenProperties
<1> HIDE DEF l
<1>12. n \in 0 .. l /\ n > 0
  BY <1>10, <1>11 DEF Least
<1> HIDE DEF n
<1>13. Len(Take(i, n)) = n
  BY <1>7, <1>12, TakeType DEF l
<1>14. Len(<<>>) = 0
  OBVIOUS
<1> QED
  BY <1>8, <1>9, <1>12, <1>13, <1>14

\* send closes nothing: no connection is to be closed, and no client has left.
LEMMA NoSendCloses == ASSUME Tended PROVE ~SendCloses
<1> SUFFICES ASSUME SendCloses PROVE FALSE
  OBVIOUS
<1>1. Full /\ cur \in Slot /\ Me = connection_list[cur]
  BY CurrentTyped, SureFull DEF Tended
<1>2. Me.socket # NULL /\ SendSaysClose
  BY <1>1 DEF SendCloses, Full, Typed, Control
<1>3. ~Me.close_conn
  BY <1>1 DEF Tended, KeepingInv, Keeping
<1>4. Me.socket \in Client
  BY <1>1, <1>2 DEF Full, IInv, SlotInv, Sockets
<1>5. net[Me.socket].st # "gone"
  BY <1>4 DEF Tended, EchoInv, Patient
<1> QED
  BY <1>2, <1>3, <1>5 DEF SendSaysClose

\* What is written to a script finds it reading.
LEMMA NoPipeBreaks == ASSUME Tended, Me.cgi_executor # NULL PROVE ~SendToCGIFails
<1>1. /\ Executor = execs[Me.cgi_executor] /\ Executor.live /\ Me.cgi_executor \in ExecAddr
  BY ScriptSlot DEF Tended
<1> QED
  BY <1>1 DEF SendToCGIFails, Tended, Drained

\* handle_http gives up no slot with a script.
LEMMA HandlerCloses ==
  ASSUME Tended, HeaderTooLong \/ HeaderRefused \/ SendBodyFails PROVE Me.cgi_executor = NULL
<1>1. Task.state # "PROCESSING_CGI"
  BY DEF HeaderTooLong, HeaderRefused, HeaderComplete, SendBodyFails, InHandler
<1> QED
  BY <1>1, ScriptSlot DEF Tended
-----------------------------------------------------------------------------
(* What scripts write, and what they are still given.                      *)

Scripted == OutputInv /\ Drained

LEMMA SameScripted == ASSUME Scripted, UNCHANGED <<execs, proc, script>> PROVE Scripted'
  BY DEF Scripted, OutputInv, Drained

LEMMA FreesNone ==
  ASSUME Me.cgi_executor = NULL, NEW k, close_client_connection(cur, k) PROVE execs' = execs
  BY DEF close_client_connection, free_CGI_executor, Peer, Me

LEMMA SendToCGIScripted ==
  ASSUME Tended, Me.cgi_executor # NULL, SendToCGI, script' = script PROVE Scripted'
<1>1. CASE UNCHANGED <<execs, proc>>
  BY <1>1, SameScripted DEF Tended, Sure, Scripted
<1>2. CASE ~UNCHANGED <<execs, proc>>
  <2> DEFINE a == Me.cgi_executor
             r == execs[a].pid
             b == execs[a].cgi_buffer
  <2>1. PICK n \in 1 .. Len(b) :
          /\ execs' = [execs EXCEPT ![a].cgi_buffer = Drop(@, n)]
          /\ proc' = [proc EXCEPT ![r].stdin = @ \o Take(b, n)]
    BY <1>2 DEF SendToCGI, Executor
  <2>2. proc[r].st = "run"
    BY <1>2 DEF SendToCGI, Executor
  <2>3. /\ a \in ExecAddr /\ r \in Asked(script) /\ DOMAIN proc = Asked(script)
        /\ DOMAIN proc[r] = ProcFields /\ DOMAIN execs = ExecAddr /\ DOMAIN execs[a] = ExecFields
    BY ChildOfSlot, SureFull DEF Tended, Executor, Full, Typed, ExecTyped, ProcTyped
  <2> DEFINE y == Drop(b, n)
             i == proc[r].stdin \o Take(b, n)
  <2>4. /\ execs' = [execs EXCEPT ![a].cgi_buffer = y]
        /\ proc' = [proc EXCEPT ![r].stdin = i]
    BY <2>1
  <2> HIDE DEF y, i, b, r
  <2>5. \A x \in Asked(script) : proc'[x].st = proc[x].st /\ proc'[x].stdout = proc[x].stdout
    BY <2>3, <2>4 DEF ProcFields
  <2>6. \A x \in ExecAddr : x # a => execs'[x] = execs[x]
    BY <2>3, <2>4
  <2>7. execs'[a].pid = r
    BY <2>3, <2>4 DEF ExecFields, r
  <2>8. OutputInv'
    BY <2>5 DEF Tended, Sure, OutputInv
  <2>9. ASSUME NEW x \in ExecAddr, execs'[x].live, proc'[execs'[x].pid].st = "done"
        PROVE  execs'[x].cgi_buffer = <<>>
    <3>1. x # a
      BY <2>2, <2>3, <2>5, <2>7, <2>9
    <3>2. execs[x].pid \in Asked(script)
      BY <2>6, <2>9, <3>1, SureFull DEF Tended, Full, Typed, ExecTyped
    <3> QED
      BY <2>5, <2>6, <2>9, <3>1, <3>2 DEF Tended, Drained
  <2> QED
    BY <2>8, <2>9 DEF Scripted, Drained
<1> QED
  BY <1>1, <1>2

LEMMA CgiWriteScripted == ASSUME Tended, CgiWrite PROVE Scripted'
<1>1. script' = script /\ Me.cgi_executor # NULL
  BY DEF CgiWrite
<1>2. CASE UNCHANGED <<execs, proc>>
  BY <1>1, <1>2, SameScripted DEF Tended, Sure, Scripted
<1> QED
  BY <1>1, <1>2, NoPipeBreaks, SendToCGIScripted DEF CgiWrite

LEMMA CgiReadScripted == ASSUME Tended, CgiRead PROVE Scripted'
<1>0. Full
  BY SureFull DEF Tended
<1>1. script' = script
  BY DEF CgiRead
<1>2. Me.cgi_executor # NULL
  BY <1>0 DEF CgiRead, Full, Typed, Control, Me
<1> DEFINE a == Me.cgi_executor
           r == Executor.pid
           out == proc[r].stdout
           n == Least(Len(out), Room(Me.sending_buffer))
<1>3. /\ a \in ExecAddr /\ r \in Asked(script) /\ DOMAIN proc = Asked(script)
      /\ DOMAIN proc[r] = ProcFields /\ DOMAIN execs = ExecAddr /\ DOMAIN execs[a] = ExecFields
  BY <1>0, <1>2, ChildOfSlot, ScriptSlot DEF Tended, Full, Typed, ExecTyped, ProcTyped
<1>4. CASE UNCHANGED <<execs, proc>>
  BY <1>1, <1>4, SameScripted DEF Tended, Sure, Scripted
<1>5. CASE PipeOutput
  <2>1. proc' = [proc EXCEPT ![r].stdout = Drop(out, n)] /\ execs' = execs
    BY <1>5 DEF PipeOutput
  <2>2. out \in Seq(Made(script, r))
    BY <1>3 DEF Tended, Sure, OutputInv
  <2>3. n \in 0 .. Len(out)
    <3>1. SlotTyped(script, Me)
      BY <1>0, CurrentTyped
    <3> QED
      BY <2>2, <3>1, FitType, StateAssumption DEF Room, SlotTyped
  <2>4. Drop(out, n) \in Seq(Made(script, r))
    BY <2>2, <2>3, DropType
  <2> DEFINE d == Drop(out, n)
  <2> HIDE DEF r, out, n, d
  <2>5. proc' = [proc EXCEPT ![r].stdout = d]
    BY <2>1 DEF d
  <2>6. /\ \A x \in Asked(script) : x # r => proc'[x] = proc[x]
        /\ proc'[r].stdout = d /\ proc'[r].st = proc[r].st
    BY <1>3, <2>5 DEF ProcFields
  <2>7. OutputInv'
    BY <1>1, <2>4, <2>6 DEF Tended, Sure, OutputInv, d
  <2>8. \A x \in ExecAddr : execs[x].live => execs[x].pid \in Asked(script)
    BY <1>0 DEF Full, Typed, ExecTyped
  <2>9. Drained'
    BY <2>1, <2>6, <2>8 DEF Tended, Drained
  <2> QED
    BY <2>7, <2>9 DEF Scripted
<1>6. CASE PipeEof
  <2>1. proc' = proc /\ execs' = [execs EXCEPT ![a].live = FALSE, ![a].cgi_buffer = <<>>]
    BY <1>2, <1>6 DEF PipeEof, free_CGI_executor
  <2> HIDE DEF a
  <2>2. \A x \in ExecAddr : execs'[x] = execs[x] \/ ~execs'[x].live
    BY <1>3, <2>1 DEF ExecFields
  <2> QED
    BY <1>1, <2>1, <2>2 DEF Tended, Sure, Scripted, OutputInv, Drained
<1> QED
  BY <1>4, <1>5, <1>6 DEF CgiRead, PipeFull

\* A child that was not started has an empty pipe, and runs when it is.
LEMMA CheckCgiScripted == ASSUME Tended, CheckCgi PROVE Scripted'
<1> DEFINE own == Task.own
           body == IF Wanted.method = "POST" THEN Task.post_body ELSE <<>>
           in == IF Len(body) <= BUF_DATA_MAXSIZE THEN body ELSE <<>>
           holds == {Peer(s).socket : s \in Connected}
           e == [live |-> TRUE, pid |-> own, cgi_buffer |-> in]
           x == [proc[own] EXCEPT !.st = "run", !.env = request.of, !.holds = holds]
<1>0. Full /\ InputInv /\ OwnInv /\ ExecInv
  BY SureFull DEF Tended, Sure
<1>1. own \in Asked(script) /\ proc[own].st = "none" /\ script' = script
  BY <1>0, StartsWhole DEF CheckCgi
<1>2. PICK a \in ExecAddr : ~execs[a].live /\ start_CGI_script(a, body)
  BY DEF CheckCgi
<1>3. /\ DOMAIN proc = Asked(script) /\ DOMAIN proc[own] = ProcFields /\ DOMAIN execs = ExecAddr
  BY <1>0, <1>1 DEF Full, Typed, ProcTyped, ExecTyped
<1>4. execs' = [execs EXCEPT ![a] = e] /\ proc' = [proc EXCEPT ![own] = x]
  BY <1>2, <1>3 DEF start_CGI_script, build_CGI_param
<1> HIDE DEF in, holds
<1>5. e.pid = own /\ x.st = "run" /\ x.stdout = proc[own].stdout
  BY <1>3 DEF ProcFields
<1> HIDE DEF e, x, own
<1>6. /\ \A r \in Asked(script) : proc'[r] = IF r = own THEN x ELSE proc[r]
      /\ \A y \in ExecAddr : execs'[y] = IF y = a THEN e ELSE execs[y]
  BY <1>3, <1>4
<1>7. OutputInv'
  BY <1>1, <1>5, <1>6 DEF Tended, Sure, OutputInv
<1>8. ASSUME NEW y \in ExecAddr, execs'[y].live, proc'[execs'[y].pid].st = "done"
      PROVE  execs'[y].cgi_buffer = <<>>
  <2>1. y # a
    BY <1>1, <1>5, <1>6, <1>8
  <2>2. execs'[y] = execs[y] /\ execs[y].live
    BY <1>6, <1>8, <2>1
  <2>3. execs[y].pid \in Asked(script)
    BY <1>0, <2>2 DEF Full, Typed, ExecTyped
  <2>4. proc[execs[y].pid].st # "none"
    BY <1>0, <2>2 DEF ExecInv, BufferIn
  <2>5. execs[y].pid # own
    BY <1>1, <2>4
  <2> QED
    BY <1>6, <1>8, <2>2, <2>3, <2>5 DEF Tended, Drained
<1> QED
  BY <1>7, <1>8 DEF Scripted, Drained

LEMMA HandlerScripted == ASSUME Tended, Handler PROVE Scripted'
<1>1. CASE ReturnCloseNow /\ (HeaderTooLong \/ HeaderRefused \/ SendBodyFails)
  <2>1. execs' = execs
    BY <1>1, FreesNone, HandlerCloses DEF ReturnCloseNow
  <2> QED
    BY <1>1, <2>1, SameScripted DEF ReturnCloseNow, Tended, Sure, Scripted
<1>2. CASE UNCHANGED <<execs, proc, script>>
  BY <1>2, SameScripted DEF Tended, Sure, Scripted
<1> QED
  BY <1>1, <1>2, CheckCgiScripted
  DEF Handler, HeaderIncomplete, HeaderTooLong, HeaderRefused, HeaderParsed, ReceiveBody,
      GenerateHeader, SendHeader, CheckStatic, ProcessingCgi, SendBody, SendBodyFails,
      Finish, HandlerDies, Continue, Die, peers, world

LEMMA ServerStepScripted == ASSUME Tended, ServerStep PROVE Scripted'
<1>1. CASE RecvCloses
  <2>1. UNCHANGED <<proc, script>> /\ close_client_connection(cur, net)
    BY <1>1 DEF RecvCloses, CloseSlot
  <2>2. execs' = execs
    BY <1>1, <2>1, RecvClosesNone, FreesNone
  <2> QED
    BY <2>1, <2>2, SameScripted DEF Tended, Sure, Scripted
<1>2. CASE \/ Select \/ SelectDies \/ Accept \/ NoCgi \/ CgiDies \/ SkipSlot \/ Recv \/ Send
  <2>1. UNCHANGED <<execs, proc, script>>
    BY <1>2 DEF Select, SelectDies, Accept, NoCgi, CgiDies, SkipSlot, Recv, Send, Die, peers, world
  <2> QED
    BY <2>1, SameScripted DEF Tended, Sure, Scripted
<1> QED
  BY <1>1, <1>2, NoSendCloses, CgiWriteScripted, CgiReadScripted, HandlerScripted
  DEF ServerStep

\* A child goes on.
LEMMA ChildScripted ==
  ASSUME Tended, NEW r \in Asked(script), ChildRead(r) \/ ChildWrite(r) \/ ChildExit(r)
  PROVE  Scripted'
<1>0. Full /\ ExecInv
  BY SureFull DEF Tended, Sure
<1>1. UNCHANGED <<execs, script>> /\ proc[r].st = "run"
  BY DEF ChildRead, ChildWrite, ChildExit, UnchangedServer, peers
<1>2. DOMAIN proc = Asked(script) /\ DOMAIN proc[r] = ProcFields
  BY <1>0 DEF Full, Typed, ProcTyped
<1>3. ChildIn(script, r, proc[r]) /\ proc[r].env = r /\ proc[r].stdout \in Seq(Made(script, r))
  BY <1>0, <1>1 DEF ExecInv, ChildIn, Tended, Sure, OutputInv
<1>4. \A x \in ExecAddr : execs[x].live => execs[x].pid \in Asked(script)
  BY <1>0 DEF Full, Typed, ExecTyped
<1>5. CASE ChildRead(r)
  <2>1. \A x \in Asked(script) : proc'[x].st = proc[x].st /\ proc'[x].stdout = proc[x].stdout
    BY <1>2, <1>5 DEF ChildRead, ProcFields
  <2> QED
    BY <1>1, <1>4, <2>1 DEF Tended, Sure, Scripted, OutputInv, Drained
<1>6. CASE ChildWrite(r)
  <2> DEFINE w == proc[r].wrote + 1
             tok == Token(r, "cgi", w)
             out == Append(proc[r].stdout, tok)
  <2>1. proc' = [proc EXCEPT ![r].wrote = w, ![r].stdout = out]
    BY <1>2, <1>3, <1>6 DEF ChildWrite
  <2>2. tok \in Made(script, r)
    <3>1. w \in Int
      BY <1>0 DEF Full, Typed, ProcTyped
    <3> HIDE DEF w
    <3> QED
      BY <3>1 DEF Made, Piece, Token
  <2>3. out \in Seq(Made(script, r))
    <3> HIDE DEF tok
    <3> QED
      BY <1>3, <2>2, AppendProperties
  <2> HIDE DEF w, out
  <2>4. \A x \in Asked(script) :
          /\ proc'[x].st = proc[x].st
          /\ proc'[x].stdout = IF x = r THEN out ELSE proc[x].stdout
    BY <1>2, <2>1 DEF ProcFields
  <2> QED
    BY <1>1, <1>4, <2>3, <2>4 DEF Tended, Sure, Scripted, OutputInv, Drained
<1>7. CASE ChildExit(r)
  <2>1. proc' = [proc EXCEPT ![r].st = "done"] /\ InputRead(r)
    BY <1>7 DEF ChildExit
  <2>2. \A x \in Asked(script) :
          /\ proc'[x].stdout = proc[x].stdout
          /\ x # r => proc'[x].st = proc[x].st
    BY <1>2, <2>1 DEF ProcFields
  <2>3. ASSUME NEW a \in ExecAddr, execs[a].live, execs[a].pid = r
        PROVE  execs[a].cgi_buffer = <<>>
    <3> DEFINE S == Piece(script)
               q == script[r[1]][r[2]]
               d == proc[r].read
               i == proc[r].stdin
               b == execs[a].cgi_buffer
               w == Whole(script, r)
    <3>1. /\ d \in Seq(S) /\ i \in Seq(S) /\ b \in Seq(S) /\ (d \o i) \o b = w
      BY <1>0, <1>3, <2>3 DEF ExecInv, BufferIn, ChildIn, Cat
    <3>2. q.method = "POST" => Len(d) = BodyLen(q)
      BY <1>3, <2>1 DEF InputRead, RequestOf
    <3>3. w = <<>> \/ (q.method = "POST" /\ w = Body(r, BodyLen(q)))
      BY DEF Whole
    <3>4. BodyLen(q) \in Nat
      <4>1. q \in Request
        BY <1>0, AskedRequest DEF Full, Typed, ScriptTyped
      <4>2. q.length \in Int
        BY <4>1 DEF Request
      <4> HIDE DEF q
      <4> QED
        BY <4>2 DEF BodyLen, HasLength
    <3>5. Len(w) = 0 \/ Len(w) = Len(d)
      <4>1. Len(Body(r, BodyLen(q))) = BodyLen(q)
        BY <3>4 DEF Body
      <4>2. Len(<<>>) = 0
        OBVIOUS
      <4> HIDE DEF w, d, q
      <4> QED
        BY <3>2, <3>3, <4>1, <4>2
    <3> HIDE DEF d, i, b, w, S
    <3>6. /\ Len((d \o i) \o b) = Len(d) + Len(i) + Len(b)
          /\ Len(d) \in Nat /\ Len(i) \in Nat /\ Len(b) \in Nat
      BY ONLY <3>1, Joined
    <3> DEFINE ld == Len(d)
               li == Len(i)
               lb == Len(b)
    <3>7. (ld + li + lb = 0 \/ ld + li + lb = ld) /\ ld \in Nat /\ li \in Nat /\ lb \in Nat
      BY <3>1, <3>5, <3>6
    <3> HIDE DEF ld, li, lb
    <3>8. lb = 0
      BY <3>7
    <3> QED
      BY <3>1, <3>8, EmptySeq DEF lb, b
  <2>4. OutputInv'
    BY <1>1, <2>2 DEF Tended, Sure, OutputInv
  <2>5. ASSUME NEW a \in ExecAddr, execs'[a].live, proc'[execs'[a].pid].st = "done"
        PROVE  execs'[a].cgi_buffer = <<>>
    <3>1. CASE execs[a].pid = r
      BY <1>1, <2>3, <2>5, <3>1
    <3>2. CASE execs[a].pid # r
      <4>1. execs[a].pid \in Asked(script)
        BY <1>1, <1>4, <2>5
      <4> QED
        BY <1>1, <2>2, <2>5, <3>2, <4>1 DEF Tended, Drained
    <3> QED
      BY <3>1, <3>2
  <2> QED
    BY <2>4, <2>5 DEF Scripted, Drained
<1> QED
  BY <1>5, <1>6, <1>7

LEMMA NextScripted == ASSUME Tended, [Next]_vars PROVE Scripted'
<1>1. ~Interrupt /\ ~SelectFails
  BY DEF Tended, Sure, Attended, Interrupt, SelectFails
<1>2. CASE UNCHANGED vars
  BY <1>2, SameScripted DEF vars, Tended, Sure, Scripted
<1>3. CASE Environment
  <2>1. Pids = Asked(script) /\ UNCHANGED <<execs, script>>
    BY <1>3, EnvironmentStays DEF Pids, Asked
  <2>2. ASSUME NEW c \in Client, \/ Connect(c) \/ ClientSend(c) \/ ClientRead(c)
                                 \/ ClientShutdown(c) \/ ClientVanish(c)
        PROVE  proc' = proc
    BY <2>2 DEF Connect, ClientSend, ClientRead, ClientShutdown, ClientVanish
  <2>3. ~\E r : ChildFails(r)
    BY DEF Tended, Sure, Attended, ChildFails
  <2>4. CASE proc' = proc
    BY <2>1, <2>4, SameScripted DEF Tended, Sure, Scripted
  <2> QED
    BY <1>3, <2>1, <2>2, <2>3, <2>4, ChildScripted DEF Environment
<1> QED
  BY <1>1, <1>2, <1>3, ServerStepScripted DEF Next

LEMMA InitScripted == ASSUME Init PROVE Scripted
<1>1. Pids = Asked(script)
  BY DEF Pids, Asked
<1>2. /\ \A a \in ExecAddr : ~execs[a].live
      /\ \A r \in Asked(script) : proc[r].stdout = <<>>
  BY <1>1 DEF Init, FreeExecutor
<1> QED
  BY <1>2, EmptySeq DEF Scripted, OutputInv, Drained
-----------------------------------------------------------------------------
(* No connection is about to be closed.                                    *)

\* The tasks stay.
LEMMA SameKeeping ==
  ASSUME KeepingInv, script' = script,
         \A s \in Slot : LET p == connection_list[s]
                             q == connection_list'[s]
                         IN /\ q.http_task = p.http_task /\ q.socket \in {p.socket, NULL}
                            /\ q.close_conn \in {p.close_conn, FALSE}
  PROVE  KeepingInv'
<1>1. ASSUME NEW s \in Slot PROVE Keeping(connection_list[s])'
  BY <1>1 DEF KeepingInv, Keeping
<1> QED
  BY <1>1 DEF KeepingInv, Slot

\* The current slot becomes p.
LEMMA CurrentKeeping ==
  ASSUME Full, KeepingInv, script' = script, NEW p,
         connection_list' = [connection_list EXCEPT ![cur] = p], Keeping(p)
  PROVE  KeepingInv'
<1>1. \A s \in Slot : connection_list'[s] = IF s = cur THEN p ELSE connection_list[s]
  BY CurrentTyped
<1>2. ASSUME NEW s \in Slot PROVE Keeping(connection_list[s])'
  BY <1>1 DEF KeepingInv, Keeping
<1> QED
  BY <1>2 DEF KeepingInv, Slot

\* The bytes of the current slot are other ones.
LEMMA TransferKeeping ==
  ASSUME Full, KeepingInv, script' = script, NEW p,
         connection_list' = [connection_list EXCEPT ![cur] = p],
         p.http_task = Me.http_task, p.socket \in {Me.socket, NULL},
         p.close_conn \in {Me.close_conn, FALSE}
  PROVE  KeepingInv'
<1>1. \A s \in Slot : connection_list'[s] = IF s = cur THEN p ELSE connection_list[s]
  BY CurrentTyped
<1>2. Me = connection_list[cur]
  BY CurrentTyped
<1> QED
  BY <1>1, <1>2, SameKeeping

LEMMA CloseKeeping ==
  ASSUME Full, KeepingInv, script' = script, NEW k, close_client_connection(cur, k)
  PROVE  KeepingInv'
<1>1. /\ cur \in Slot /\ Me = connection_list[cur] /\ DOMAIN Me = PeerFields
  BY CurrentTyped
<1>2. connection_list' = [connection_list EXCEPT ![cur] = Vacated(Me)]
  BY <1>1 DEF close_client_connection
<1>3. /\ Vacated(Me).http_task = Me.http_task /\ Vacated(Me).socket = NULL
      /\ Vacated(Me).close_conn = FALSE
  BY <1>1 DEF Vacated, PeerFields, NO_SOCKET
<1> QED
  BY <1>2, <1>3, TransferKeeping

LEMMA AcceptKeeping == ASSUME Full, KeepingInv, Accept PROVE KeepingInv'
<1>1. script' = script
  BY DEF Accept
<1>2. CASE connection_list' = connection_list
  BY <1>1, <1>2, SameKeeping
<1>3. ASSUME NEW s \in Slot, NEW c,
             connection_list' = [connection_list EXCEPT
               ![s] = [@ EXCEPT !.socket = c, !.close_conn = FALSE, !.http_task = FreshTask]]
      PROVE  KeepingInv'
  <2> DEFINE q == [connection_list[s] EXCEPT
                     !.socket = c, !.close_conn = FALSE, !.http_task = FreshTask]
  <2>1. DOMAIN connection_list = Slot /\ DOMAIN connection_list[s] = PeerFields
    BY DEF Full, IInv, SlotInv, Shape
  <2>2. q.close_conn = FALSE /\ q.http_task = FreshTask
    BY <2>1 DEF PeerFields
  <2>3. \A t \in Slot : connection_list'[t] = IF t = s THEN q ELSE connection_list[t]
    BY <1>3, <2>1
  <2> HIDE DEF q
  <2>4. FreshTask.state \notin TakesBody
    BY DEF FreshTask, TakesBody
  <2>5. ASSUME NEW t \in Slot PROVE Keeping(connection_list[t])'
    BY <1>1, <2>2, <2>3, <2>4 DEF KeepingInv, Keeping
  <2> QED
    BY <2>5 DEF KeepingInv, Slot
<1> QED
  BY <1>2, <1>3 DEF Accept, handle_new_connection

LEMMA CgiReadKeeping == ASSUME Full, KeepingInv, CgiRead PROVE KeepingInv'
<1>1. script' = script
  BY DEF CgiRead
<1>2. /\ cur \in Slot /\ Me = connection_list[cur] /\ DOMAIN Me = PeerFields
      /\ DOMAIN Task = TaskFields /\ Task = Me.http_task
  BY CurrentTyped
<1>3. CASE connection_list' = connection_list
  BY <1>1, <1>3, SameKeeping
<1>4. CASE PipeOutput
  <2> DEFINE b == Me.sending_buffer \o
                    Take(proc[Executor.pid].stdout,
                         Least(Len(proc[Executor.pid].stdout), Room(Me.sending_buffer)))
             p == [Me EXCEPT !.sending_buffer = b]
  <2>1. connection_list' = [connection_list EXCEPT ![cur] = p]
    BY <1>2, <1>4 DEF PipeOutput
  <2> HIDE DEF b
  <2>2. p.http_task = Me.http_task /\ p.socket = Me.socket /\ p.close_conn = Me.close_conn
    BY <1>2 DEF PeerFields
  <2> QED
    BY <1>1, <2>1, <2>2, TransferKeeping
<1>5. CASE PipeEof
  <2> DEFINE t == [Task EXCEPT !.state = "FINISHED_STATE"]
             p == [Me EXCEPT !.cgi_executor = NULL, !.http_task = t]
  <2>1. connection_list' = [connection_list EXCEPT ![cur] = p]
    BY <1>2, <1>5 DEF PipeEof
  <2>2. t.state = "FINISHED_STATE"
    BY <1>2 DEF TaskFields
  <2> HIDE DEF t
  <2>3. p.close_conn = Me.close_conn /\ p.http_task = t
    BY <1>2 DEF PeerFields
  <2> HIDE DEF p
  <2>4. Keeping(p)
    BY <1>2, <2>2, <2>3 DEF Keeping, KeepingInv, TakesBody
  <2> QED
    BY <1>1, <2>1, <2>4, CurrentKeeping
<1> QED
  BY <1>3, <1>4, <1>5 DEF CgiRead, PipeFull

LEMMA TransfersKeeping == ASSUME Full, KeepingInv, Recv \/ Send PROVE KeepingInv'
<1>1. script' = script
  BY DEF Recv, Send
<1>2. /\ cur \in Slot /\ Me = connection_list[cur] /\ DOMAIN Me = PeerFields
  BY CurrentTyped
<1>3. CASE connection_list' = connection_list
  BY <1>1, <1>3, SameKeeping
<1>4. ASSUME NEW b, \/ connection_list' = [connection_list EXCEPT ![cur].receiving_buffer = b]
                    \/ connection_list' = [connection_list EXCEPT ![cur].sending_buffer = b]
      PROVE  KeepingInv'
  <2> DEFINE p == [Me EXCEPT !.receiving_buffer = b]
             q == [Me EXCEPT !.sending_buffer = b]
  <2>1. \/ connection_list' = [connection_list EXCEPT ![cur] = p]
        \/ connection_list' = [connection_list EXCEPT ![cur] = q]
    BY <1>2, <1>4
  <2>2. /\ p.http_task = Me.http_task /\ p.socket = Me.socket /\ p.close_conn = Me.close_conn
        /\ q.http_task = Me.http_task /\ q.socket = Me.socket /\ q.close_conn = Me.close_conn
    BY <1>2 DEF PeerFields
  <2> HIDE DEF p, q
  <2> QED
    BY <1>1, <2>1, <2>2, TransferKeeping
<1>5. CASE ReceiveFromPeer
  <2>1. connection_list' = [connection_list EXCEPT
                              ![cur].receiving_buffer = Me.receiving_buffer \o Received]
    BY <1>2, <1>5 DEF ReceiveFromPeer
  <2> QED
    BY <1>4, <2>1
<1>6. CASE SendToPeer
  <2>1. connection_list' = [connection_list EXCEPT
                              ![cur].sending_buffer = Drop(Me.sending_buffer, Taken)]
    BY <1>2, <1>6 DEF SendToPeer
  <2> QED
    BY <1>4, <2>1
<1> QED
  BY <1>3, <1>5, <1>6 DEF Recv, Send

\* The handler leaves the connection open, at a state that takes nothing in.
LEMMA LeavesKeeping ==
  ASSUME Full, KeepingInv, script' = script, NEW p,
         connection_list' = [connection_list EXCEPT ![cur] = p],
         p.close_conn = Me.close_conn, p.http_task.state \notin TakesBody
  PROVE  KeepingInv'
<1>1. cur \in Slot /\ Me = connection_list[cur]
  BY CurrentTyped
<1>2. Keeping(p)
  BY <1>1 DEF Keeping, KeepingInv
<1> QED
  BY <1>2, CurrentKeeping

LEMMA ReceiveBodyKeeping == ASSUME Full, KeepingInv, ReceiveBody PROVE KeepingInv'
<1> DEFINE n == Least(Len(Me.receiving_buffer), Task.body_bytes_num - Len(Task.post_body))
           more == [Task EXCEPT !.post_body = @ \o Take(Me.receiving_buffer, n)]
           done == [more EXCEPT !.state = "CHECK_CGI"]
           p == [Me EXCEPT !.receiving_buffer = Drop(@, n),
                           !.http_task.post_body = @ \o Take(Me.receiving_buffer, n)]
           q == [p EXCEPT !.http_task.state = "CHECK_CGI"]
<1>1. /\ Task.state = "RECV_BODY_STATE" /\ script' = script
      /\ \/ connection_list' = [connection_list EXCEPT ![cur] = p]
         \/ connection_list' = [connection_list EXCEPT ![cur] = q]
  BY DEF ReceiveBody, InHandler, Return, world
<1>2. /\ DOMAIN Me = PeerFields /\ DOMAIN Task = TaskFields /\ Task = Me.http_task
      /\ cur \in Slot /\ Me = connection_list[cur]
  BY CurrentTyped
<1> HIDE DEF n
<1>3. /\ p.socket = Me.socket /\ p.close_conn = Me.close_conn
      /\ p.http_task = more /\ DOMAIN p = PeerFields
  BY <1>2 DEF PeerFields
<1> HIDE DEF p
<1>4. /\ more.state = "RECV_BODY_STATE" /\ more.own = Task.own /\ DOMAIN more = TaskFields
      /\ more.last_request = Task.last_request
  BY <1>1, <1>2 DEF TaskFields
<1> HIDE DEF more
<1>5. done.own = Task.own /\ done.last_request = Task.last_request
  BY <1>4 DEF TaskFields
<1>6. q.socket = Me.socket /\ q.close_conn = Me.close_conn /\ q.http_task = done
  BY <1>3 DEF PeerFields
<1> HIDE DEF q, done
<1>7. Keeping(Me)
  BY <1>2 DEF KeepingInv
<1>8. Keeping(p) /\ Keeping(q)
  BY <1>1, <1>2, <1>3, <1>4, <1>5, <1>6, <1>7 DEF Keeping, TakesBody
<1> QED
  BY <1>1, <1>8, CurrentKeeping

LEMMA HeaderParsedKeeping == ASSUME Full, KeepingInv, HeaderParsed PROVE KeepingInv'
<1> DEFINE r == Header[1].req
           t == [Task EXCEPT !.parse_buf = Header, !.own = r,
                             !.last_request = RequestOf(r).close]
           d == Dispatch(t, RequestOf(r))
           p == [Me EXCEPT !.http_task = d, !.receiving_buffer = Drop(@, HeaderSize)]
<1>1. script' = script /\ connection_list' = [connection_list EXCEPT ![cur] = p]
  BY DEF HeaderParsed, HeaderComplete, InHandler, world
<1>2. /\ DOMAIN Me = PeerFields /\ DOMAIN Task = TaskFields /\ Task = Me.http_task
      /\ cur \in Slot /\ Me = connection_list[cur]
  BY CurrentTyped
<1>3. DOMAIN t = TaskFields /\ t.own = r /\ t.last_request = RequestOf(r).close
  BY <1>2 DEF TaskFields
<1> HIDE DEF t, r
<1>4. d.own = r /\ d.last_request = RequestOf(r).close
  <2>1. d \in {[t EXCEPT !.method_type = RequestOf(r).method, !.state = "CHECK_CGI"],
               [t EXCEPT !.method_type = "POST", !.body_bytes_num = RequestOf(r).length,
                         !.state = "RECV_BODY_STATE"],
               [t EXCEPT !.method_type = "POST", !.response_code = 411,
                         !.state = "GENERATE_HEADER_STATE"],
               [t EXCEPT !.response_code = 501, !.state = "GENERATE_HEADER_STATE"]}
    BY DEF Dispatch
  <2> DEFINE m == RequestOf(r).method
             l == RequestOf(r).length
             z == RequestOf(r).close
  <2> HIDE DEF d, m, l, z
  <2>2. CASE d = [t EXCEPT !.method_type = m, !.state = "CHECK_CGI"]
    BY <1>3, <2>2 DEF TaskFields, z
  <2>3. CASE d = [t EXCEPT !.method_type = "POST", !.body_bytes_num = l,
                           !.state = "RECV_BODY_STATE"]
    BY <1>3, <2>3 DEF TaskFields, z
  <2>4. CASE d = [t EXCEPT !.method_type = "POST", !.response_code = 411,
                           !.state = "GENERATE_HEADER_STATE"]
    BY <1>3, <2>4 DEF TaskFields, z
  <2>5. CASE d = [t EXCEPT !.response_code = 501, !.state = "GENERATE_HEADER_STATE"]
    BY <1>3, <2>5 DEF TaskFields, z
  <2> QED
    BY <2>1, <2>2, <2>3, <2>4, <2>5 DEF m, l
<1> HIDE DEF d
<1>5. p.close_conn = Me.close_conn /\ p.http_task = d
  BY <1>2 DEF PeerFields
<1> HIDE DEF p
<1>6. Keeping(Me)
  BY <1>2 DEF KeepingInv
<1>7. Keeping(p)
  BY <1>4, <1>5, <1>6 DEF Keeping, RequestOf
<1> QED
  BY <1>1, <1>7, CurrentKeeping

\* A request for a script leaves the connection open.
LEMMA CheckCgiKeeping == ASSUME Tended, CheckCgi PROVE KeepingInv'
<1>0. Full /\ InputInv /\ OwnInv /\ KeepingInv
  BY SureFull DEF Tended, Sure
<1>1. pc = "http" /\ Task.state = "CHECK_CGI" /\ Wanted.target = "cgi" /\ script' = script
  BY DEF CheckCgi, InHandler
<1>2. /\ DOMAIN Me = PeerFields /\ DOMAIN Task = TaskFields /\ Task = Me.http_task
      /\ cur \in Slot /\ Me = connection_list[cur] /\ Me.socket # NULL
      /\ SlotTyped(script, Me)
  BY <1>0, <1>1, CurrentTyped
<1>3. request.of = Task.own /\ Task.own \in Asked(script)
  BY <1>0, StartsWhole
<1>4. script[Task.own[1]][Task.own[2]].target = "cgi"
  BY <1>1, <1>3 DEF Wanted, RequestOf
<1>5. ~script[Task.own[1]][Task.own[2]].close
  <2>1. Task.own[1] \in Client /\ Task.own[2] \in 1 .. Len(script[Task.own[1]])
    BY <1>3 DEF Asked
  <2> QED
    BY <1>4, <2>1 DEF Tended, Sure, Attended
<1>6. Task.last_request = script[Task.own[1]][Task.own[2]].close
  BY <1>0, <1>1, <1>2 DEF KeepingInv, Keeping, TakesBody
<1>7. PICK a \in ExecAddr :
        Return([Me EXCEPT !.cgi_executor = a, !.http_task.state = "PROCESSING_CGI"],
               IF Task.last_request THEN "CLOSE_CONN" ELSE "KEEP_CONN")
  BY DEF CheckCgi
<1> DEFINE new == [Task EXCEPT !.state = "PROCESSING_CGI"]
           p == [Me EXCEPT !.cgi_executor = a, !.http_task.state = "PROCESSING_CGI"]
<1>8. connection_list' = [connection_list EXCEPT ![cur] = p]
  BY <1>5, <1>6, <1>7 DEF Return
<1>9. p.close_conn = Me.close_conn /\ p.http_task = new
  BY <1>2 DEF PeerFields
<1>10. new.state \notin TakesBody
  BY <1>2 DEF TaskFields, TakesBody
<1> HIDE DEF new, p
<1> QED
  BY <1>0, <1>1, <1>8, <1>9, <1>10, LeavesKeeping

\* The steps of a request that is being answered.
LEMMA AnswersKeeping ==
  ASSUME Full, KeepingInv, GenerateHeader \/ SendHeader \/ CheckStatic \/ SendBody
  PROVE  KeepingInv'
<1>1. script' = script /\ Works /\ Task.state # "RECV_BODY_STATE"
  BY GenerateHeaderKind, SendHeaderKind, CheckStaticKind, SendBodyKind
  DEF GenerateHeader, SendHeader, CheckStatic, SendBody, Continue, InHandler, world
<1>2. TaskThen.state \notin TakesBody
  BY <1>1 DEF Works
<1>3. /\ DOMAIN Me = PeerFields /\ DOMAIN Task = TaskFields /\ Task = Me.http_task
      /\ cur \in Slot /\ Me = connection_list[cur] /\ DOMAIN connection_list = Slot
  BY CurrentTyped
<1>4. ASSUME NEW x, NEW y, \/ connection_list' = [connection_list EXCEPT ![cur] =
                                [Me EXCEPT !.http_task = x]]
                           \/ connection_list' = [connection_list EXCEPT ![cur] =
                                [Me EXCEPT !.sending_buffer = y, !.http_task = x]]
      PROVE  KeepingInv'
  <2> DEFINE p == [Me EXCEPT !.http_task = x]
             q == [Me EXCEPT !.sending_buffer = y, !.http_task = x]
  <2>1. p.close_conn = Me.close_conn /\ q.close_conn = Me.close_conn
    BY <1>3 DEF PeerFields
  <2>2. \/ connection_list' = [connection_list EXCEPT ![cur] = p]
        \/ connection_list' = [connection_list EXCEPT ![cur] = q]
    BY <1>4
  <2> HIDE DEF p, q
  <2>3. CASE connection_list' = [connection_list EXCEPT ![cur] = p]
    BY <1>1, <1>2, <1>3, <2>1, <2>3, LeavesKeeping DEF TaskThen
  <2>4. CASE connection_list' = [connection_list EXCEPT ![cur] = q]
    BY <1>1, <1>2, <1>3, <2>1, <2>4, LeavesKeeping DEF TaskThen
  <2> QED
    BY <2>2, <2>3, <2>4
<1>5. CASE GenerateHeader
  <2>1. PICK x : connection_list' = [connection_list EXCEPT ![cur].http_task = x]
    BY <1>5 DEF GenerateHeader, Continue
  <2>2. connection_list' = [connection_list EXCEPT ![cur] = [Me EXCEPT !.http_task = x]]
    BY <1>3, <2>1
  <2> QED
    BY <1>4, <2>2
<1>6. CASE CheckStatic
  <2>1. PICK x : connection_list' = [connection_list EXCEPT ![cur].http_task = x]
    BY <1>6 DEF CheckStatic
  <2>2. connection_list' = [connection_list EXCEPT ![cur] = [Me EXCEPT !.http_task = x]]
    BY <1>3, <2>1
  <2> QED
    BY <1>4, <2>2
<1>7. CASE SendHeader
  <2> DEFINE n == Least(Len(Task.response_buf), Room(Me.sending_buffer))
             y == Me.sending_buffer \o Take(Task.response_buf, n)
             x == [Task EXCEPT
                     !.response_buf = Drop(Task.response_buf, Least(Len(Task.response_buf), n + 1)),
                     !.state = AfterHeader(Task)]
             p == [Me EXCEPT
                     !.sending_buffer = @ \o Take(Task.response_buf, n),
                     !.http_task.response_buf = Drop(@, Least(Len(@), n + 1)),
                     !.http_task.state = AfterHeader(Task)]
  <2>1. connection_list' = [connection_list EXCEPT ![cur] = p]
    BY <1>7 DEF SendHeader
  <2> HIDE DEF n
  <2>2. p = [Me EXCEPT !.sending_buffer = y, !.http_task = x]
    BY <1>3 DEF PeerFields, TaskFields
  <2> HIDE DEF p, x, y
  <2> QED
    BY <1>4, <2>1, <2>2
<1>8. CASE SendBody
  <2> DEFINE f == Task.fp
             file == FileStream(f.of)
             n == Least(Len(file) - f.pos, Room(Me.sending_buffer))
             y == Me.sending_buffer \o SubSeq(file, f.pos + 1, f.pos + n)
             more == [Task EXCEPT !.fp.pos = @ + n]
             done == [more EXCEPT !.state = "FINISHED_STATE"]
             p == [Me EXCEPT !.sending_buffer = @ \o SubSeq(file, f.pos + 1, f.pos + n),
                             !.http_task.fp.pos = @ + n]
             q == [p EXCEPT !.http_task.state = "FINISHED_STATE"]
  <2>1. \/ connection_list' = [connection_list EXCEPT ![cur] = p]
        \/ connection_list' = [connection_list EXCEPT ![cur] = q]
    BY <1>8 DEF SendBody, Return
  <2> HIDE DEF n, file, f
  <2>2. p = [Me EXCEPT !.sending_buffer = y, !.http_task = more]
    BY <1>3 DEF PeerFields, TaskFields
  <2> HIDE DEF p
  <2>3. q = [Me EXCEPT !.sending_buffer = y, !.http_task = done]
    BY <1>3, <2>2 DEF PeerFields
  <2> HIDE DEF q, more, done, y
  <2> QED
    BY <1>4, <2>1, <2>2, <2>3
<1> QED
  BY <1>5, <1>6, <1>7, <1>8

LEMMA BeginsKeeping ==
  ASSUME Full, KeepingInv, HeaderIncomplete \/ Finish PROVE KeepingInv'
<1>1. script' = script
  BY DEF HeaderIncomplete, Finish, world
<1>2. /\ DOMAIN Me = PeerFields /\ DOMAIN Task = TaskFields /\ Task = Me.http_task
  BY CurrentTyped
<1>3. CASE HeaderIncomplete
  <2> DEFINE new == [Task EXCEPT !.parse_buf = @ \o Incoming]
             p == [Me EXCEPT !.receiving_buffer = <<>>, !.http_task.parse_buf = @ \o Incoming]
  <2>1. /\ Task.state = "RECV_HEADER_STATE"
        /\ connection_list' = [connection_list EXCEPT ![cur] = p]
    BY <1>3 DEF HeaderIncomplete, InHandler, Return
  <2>2. p.close_conn = Me.close_conn /\ p.http_task = new
    BY <1>2 DEF PeerFields
  <2>3. new.state \notin TakesBody
    BY <1>2, <2>1 DEF TaskFields, TakesBody
  <2> HIDE DEF new, p
  <2> QED
    BY <1>1, <2>1, <2>2, <2>3, LeavesKeeping
<1>4. CASE Finish
  <2> DEFINE new == reset_http_task(Task)
             p == [Me EXCEPT !.http_task = new]
  <2>1. connection_list' = [connection_list EXCEPT ![cur] = p]
    BY <1>4 DEF Finish, Return, reset_http_task, FreshTask
  <2>2. new.state \notin TakesBody
    BY DEF reset_http_task, FreshTask, TakesBody
  <2> HIDE DEF new
  <2>3. p.close_conn = Me.close_conn /\ p.http_task = new
    BY <1>2 DEF PeerFields
  <2> HIDE DEF p
  <2> QED
    BY <1>1, <2>1, <2>2, <2>3, LeavesKeeping
<1> QED
  BY <1>3, <1>4

LEMMA HandlerKeeping == ASSUME Tended, Handler PROVE KeepingInv'
<1>0. Full /\ KeepingInv
  BY SureFull DEF Tended
<1>1. CASE ReturnCloseNow
  BY <1>0, <1>1, CloseKeeping DEF ReturnCloseNow
<1>2. CASE UNCHANGED <<connection_list, script>>
  BY <1>0, <1>2, SameKeeping
<1> QED
  BY <1>0, <1>1, <1>2, BeginsKeeping, HeaderParsedKeeping, ReceiveBodyKeeping,
     AnswersKeeping, CheckCgiKeeping
  DEF Handler, HeaderTooLong, HeaderRefused, ProcessingCgi, SendBodyFails, HandlerDies, Die,
      peers, world

LEMMA ServerStepKeeping == ASSUME Tended, ServerStep PROVE KeepingInv'
<1>0. Full /\ KeepingInv
  BY SureFull DEF Tended
<1>1. CASE RecvCloses \/ SendCloses \/ CgiWrite
  <2>1. script' = script
    BY <1>1 DEF RecvCloses, SendCloses, CloseSlot, CgiWrite
  <2>2. \/ connection_list' = connection_list
        \/ \E k : close_client_connection(cur, k)
    BY <1>1 DEF RecvCloses, SendCloses, CloseSlot, CgiWrite
  <2> QED
    BY <1>0, <2>1, <2>2, SameKeeping, CloseKeeping
<1>2. CASE \/ Select \/ SelectDies \/ NoCgi \/ CgiDies \/ SkipSlot
  <2>1. UNCHANGED <<connection_list, script>>
    BY <1>2 DEF Select, SelectDies, NoCgi, CgiDies, SkipSlot, Die, peers, world
  <2> QED
    BY <1>0, <2>1, SameKeeping
<1> QED
  BY <1>0, <1>1, <1>2, AcceptKeeping, CgiReadKeeping, TransfersKeeping, HandlerKeeping
  DEF ServerStep

LEMMA NextKeeping == ASSUME Tended, [Next]_vars PROVE KeepingInv'
<1>0. KeepingInv
  BY DEF Tended
<1>1. ~Interrupt /\ ~SelectFails
  BY DEF Tended, Sure, Attended, Interrupt, SelectFails
<1>2. CASE UNCHANGED vars \/ Environment
  <2>1. UNCHANGED <<connection_list, script>>
    BY <1>2, EnvironmentStays DEF vars
  <2> QED
    BY <1>0, <2>1, SameKeeping
<1> QED
  BY <1>1, <1>2, ServerStepKeeping DEF Next

LEMMA InitKeeping == ASSUME Init PROVE KeepingInv
  BY DEF Init, KeepingInv, Keeping, FreshPeer, NO_SOCKET
-----------------------------------------------------------------------------
(* What select has found stays until the turn of its slot.                 *)

\* A slot that is not at work, with a connection from which nothing is taken.
LEMMA StillAwaited ==
  ASSUME Full, NEW s \in Slot, Awaited(s), ~AtWork(s),
         connection_list'[s].socket \in {connection_list[s].socket, NULL},
         LET c == connection_list[s].socket
         IN c # NULL => (net'[c].inq = <<>> => net[c].inq = <<>>),
         NextSlot \/ (cur' = cur /\ rfds' = rfds)
  PROVE  Awaited(s)'
<1> DEFINE c == connection_list[s].socket
<1>1. cur \in Nat /\ s \in Nat
  BY CurrentTyped DEF Slot
<1>2. ASSUME SockFd(c) \in rfds', ~Past(s)' PROVE SockFd(c) \in rfds /\ ~Past(s)
  BY <1>1, <1>2 DEF Past, AtWork, NextSlot
<1> QED
  BY <1>2 DEF Awaited

\* The step of the slot at work, or the beginning of its work.
LEMMA TurnAwaited ==
  ASSUME Full, AwaitedInv, pc \notin {"dead", "exit"},
         \A s \in Slot : s # cur => connection_list'[s] = connection_list[s],
         \A d \in Client : /\ d # Me.socket => net'[d] = net[d]
                           /\ net'[d].conn = "none" => net[d].conn = "none",
         NextSlot \/ (cur' = cur /\ rfds' = rfds /\ pc' \in {"send", "http"})
  PROVE  AwaitedInv'
<1>1. cur \in Slot /\ Me = connection_list[cur] /\ cur \in Nat
  BY CurrentTyped DEF Slot
<1>2. Heralds'
  <2>1. rfds' \subseteq rfds
    BY DEF NextSlot
  <2> QED
    BY <2>1 DEF AwaitedInv, Heralds, SockFd
<1>3. ASSUME NEW s \in Slot, s # cur PROVE Awaited(s)'
  <2>1. Awaited(s) /\ ~AtWork(s) /\ connection_list'[s] = connection_list[s]
    BY <1>3 DEF AwaitedInv, AtWork
  <2>2. LET c == connection_list[s].socket
        IN c # NULL => net'[c] = net[c]
    BY <1>1, <1>3, TwoClients
  <2> QED
    BY <2>1, <2>2, StillAwaited
<1>4. ASSUME NEW s \in Slot, s = cur PROVE Awaited(s)'
  <2>1. rfds' = {} \/ Past(s)'
    BY <1>1, <1>4 DEF NextSlot, Past, AtWork
  <2> QED
    BY <2>1 DEF Awaited
<1> QED
  BY <1>2, <1>3, <1>4 DEF AwaitedInv, Slot

\* Nobody's turn comes or goes, and nothing is taken from a connection.
LEMMA CalmAwaited ==
  ASSUME Full, AwaitedInv, pc \notin {"dead", "exit"}, \A s \in Slot : ~AtWork(s),
         \A s \in Slot : connection_list'[s].socket \in {connection_list[s].socket, NULL},
         \A d \in Client : /\ net'[d].conn = "none" => net[d].conn = "none"
                           /\ net[d].conn = "open" /\ net'[d].inq = <<>> => net[d].inq = <<>>,
         cur' = cur, rfds' = rfds
  PROVE  AwaitedInv'
<1>1. Heralds'
  BY DEF AwaitedInv, Heralds, SockFd
<1>2. ASSUME NEW s \in Slot PROVE Awaited(s)'
  <2>1. Awaited(s) /\ ~AtWork(s)
    BY DEF AwaitedInv
  <2>2. LET c == connection_list[s].socket
        IN c # NULL => c \in Client /\ net[c].conn = "open"
    BY DEF Full, IInv, SlotInv, Sockets, SlotsMatchConnections, Peer
  <2> QED
    BY <2>1, <2>2, StillAwaited
<1> QED
  BY <1>1, <1>2 DEF AwaitedInv, Slot

LEMMA SelectAwaited == ASSUME Tended, Select PROVE AwaitedInv'
<1>0. Full /\ EchoInv
  BY SureFull DEF Tended
<1>1. /\ net' = net /\ connection_list' = connection_list
      /\ pc = "select" /\ pc' = "accept" /\ rfds' = ReadyToRead
  BY DEF Select, peers, world
<1>2. ASSUME NEW c \in Client, SockFd(c) \in ReadyToRead
      PROVE  net[c].conn # "none" /\ net[c].inq # <<>>
  <2>1. PICK t \in Connected : SockFd(c) = SockFd(Peer(t).socket) /\ Readable(Peer(t).socket)
    BY <1>2 DEF ReadyToRead, SockFd, ListenFd, StdoutFd
  <2>2. t \in Slot /\ connection_list[t].socket = c /\ connection_list[t].socket # NULL
    BY <2>1 DEF SockFd, Connected, Peer, NO_SOCKET
  <2>3. net[c].conn = "open" /\ net[c].st \in {"off", "on"}
    BY <1>0, <2>2, Echoing, SureFull DEF Tended, EchoInv, Patient
  <2> QED
    BY <2>1, <2>2, <2>3 DEF Readable, Peer
<1>3. Heralds'
  BY <1>1, <1>2 DEF Heralds, SockFd
<1>4. ASSUME NEW s \in Slot PROVE Awaited(s)'
  <2>1. connection_list[s].socket # NULL => connection_list[s].socket \in Client
    BY <1>0 DEF Full, IInv, SlotInv, Sockets
  <2> QED
    BY <1>1, <1>2, <2>1 DEF Awaited
<1> QED
  BY <1>1, <1>3, <1>4 DEF AwaitedInv, Slot

\* The connection of the current slot is given up, and no other one changes.
LEMMA CloseMoves ==
  ASSUME Full, NEW k, close_client_connection(cur, k), \A d \in Client : d # Me.socket => k[d] = net[d],
         DOMAIN k = Client, Me.socket # NULL => DOMAIN k[Me.socket] = NetFields
  PROVE  /\ OnlyCurrent
         /\ \A d \in Client : /\ d # Me.socket => net'[d] = net[d]
                              /\ net'[d].conn = "none" => net[d].conn = "none"
<1>1. /\ cur \in Slot /\ Me = connection_list[cur] /\ DOMAIN connection_list = Slot
      /\ Me.socket \in Client \cup {NULL}
  BY CurrentTyped DEF Full, IInv, SlotInv, Sockets
<1>2. net' = IF Me.socket = NULL THEN k
             ELSE [k EXCEPT ![Me.socket].conn = "closed", ![Me.socket].inq = <<>>]
  BY <1>1 DEF close_client_connection, Peer, NO_SOCKET
<1>3. OnlyCurrent
  BY <1>1 DEF close_client_connection, OnlyCurrent
<1>4. CASE Me.socket = NULL
  BY <1>2, <1>3, <1>4, StateAssumption
<1>5. CASE Me.socket # NULL
  BY <1>1, <1>2, <1>3, <1>5 DEF NetFields
<1> QED
  BY <1>4, <1>5

\* One run of a state of the handler, for the other slots and clients.
LEMMA HandlerMoves ==
  ASSUME Full, Handler, pc' # "dead"
  PROVE  /\ OnlyCurrent /\ pc = "http" /\ (NextSlot \/ UNCHANGED loop)
         /\ \A d \in Client : /\ d # Me.socket => net'[d] = net[d]
                              /\ net'[d].conn = "none" => net[d].conn = "none"
<1>1. pc = "http" /\ (NextSlot \/ UNCHANGED loop)
  BY DEF Handler, HeaderIncomplete, HeaderTooLong, HeaderRefused, HeaderParsed, HeaderComplete,
         ReceiveBody, GenerateHeader, SendHeader, CheckStatic, CheckCgi, ProcessingCgi,
         SendBody, SendBodyFails, Finish, HandlerDies, Die, InHandler, Return, ReturnCloseNow,
         Continue
<1>2. CASE ReturnCloseNow
  <2>1. close_client_connection(cur, net)
    BY <1>2 DEF ReturnCloseNow
  <2>2. DOMAIN net = Client /\ \A d \in Client : DOMAIN net[d] = NetFields
    BY DEF Full, IInv, SlotInv, Shape
  <2>3. Me.socket # NULL => Me.socket \in Client
    BY <1>1, CurrentTyped
  <2> QED
    BY <1>1, <2>1, <2>2, <2>3, CloseMoves
<1>3. CASE ~ReturnCloseNow
  <2>1. net' = net
    BY <1>3 DEF Handler, HeaderIncomplete, HeaderTooLong, HeaderRefused, HeaderParsed,
         ReceiveBody, GenerateHeader, SendHeader, CheckStatic, CheckCgi, ProcessingCgi,
         SendBody, SendBodyFails, Finish, HandlerDies, Die, Continue, world
  <2>2. CASE connection_list' = connection_list
    BY <1>1, <2>1, <2>2 DEF OnlyCurrent
  <2>3. CASE Works \/ Begins \/ Starts \/ Finishes
    BY <1>1, <2>1, <2>3 DEF Works, Begins, Starts, Finishes, StaysConnected
  <2> QED
    BY <1>3, <2>2, <2>3, HeaderIncompleteKind, HeaderParsedKind,
     ReceiveBodyKind, GenerateHeaderKind, SendHeaderKind, CheckStaticKind, CheckCgiKind,
     SendBodyKind, FinishKind
    DEF Handler, HeaderTooLong, HeaderRefused, ProcessingCgi, SendBodyFails, HandlerDies, Die,
        peers
<1> QED
  BY <1>2, <1>3

LEMMA HandlerAwaited == ASSUME Full, AwaitedInv, Handler PROVE AwaitedInv'
<1>1. CASE pc' = "dead"
  BY <1>1 DEF AwaitedInv
<1>2. CASE pc' # "dead"
  <2>1. /\ OnlyCurrent /\ pc = "http" /\ (NextSlot \/ UNCHANGED loop)
        /\ \A d \in Client : /\ d # Me.socket => net'[d] = net[d]
                             /\ net'[d].conn = "none" => net[d].conn = "none"
    BY <1>2, HandlerMoves
  <2>2. NextSlot \/ (cur' = cur /\ rfds' = rfds /\ pc' \in {"send", "http"})
    BY <2>1 DEF loop
  <2> QED
    BY <2>1, <2>2, TurnAwaited DEF OnlyCurrent
<1> QED
  BY <1>1, <1>2

LEMMA TransfersAwaited ==
  ASSUME Full, AwaitedInv, \/ Recv \/ Send \/ RecvCloses \/ SkipSlot
  PROVE  AwaitedInv'
<1>1. /\ cur \in Slot /\ Me = connection_list[cur] /\ DOMAIN connection_list = Slot
      /\ Me.socket \in Client \cup {NULL}
      /\ DOMAIN net = Client /\ \A d \in Client : DOMAIN net[d] = NetFields
  BY CurrentTyped DEF Full, IInv, SlotInv, Sockets, Shape
<1>2. pc \in {"recv", "send"}
  BY DEF Recv, Send, RecvCloses, SkipSlot
<1>3. NextSlot \/ (cur' = cur /\ rfds' = rfds /\ pc' \in {"send", "http"})
  BY DEF Recv, Send, RecvCloses, SkipSlot, CloseSlot, GoTo
<1>4. CASE RecvCloses
  <2>1. close_client_connection(cur, net)
    BY <1>4 DEF RecvCloses, CloseSlot
  <2>2. /\ OnlyCurrent
        /\ \A d \in Client : /\ d # Me.socket => net'[d] = net[d]
                             /\ net'[d].conn = "none" => net[d].conn = "none"
    BY <1>1, <2>1, CloseMoves
  <2> QED
    BY <1>2, <1>3, <2>2, TurnAwaited DEF OnlyCurrent
<1>5. CASE ~RecvCloses
  <2>1. OnlyCurrent
    BY <1>1, <1>5 DEF Recv, Send, SkipSlot, peers, ReceiveFromPeer, SendToPeer, OnlyCurrent
  <2>2. \/ net' = net
        \/ \E x : net' = [net EXCEPT ![Me.socket].inq = x]
        \/ \E x : net' = [net EXCEPT ![Me.socket].outq = x]
    BY <1>1, <1>5 DEF Recv, Send, SkipSlot, world, ReceiveFromPeer, SendToPeer, SentByKernel
  <2>3. \A d \in Client : /\ d # Me.socket => net'[d] = net[d]
                          /\ net'[d].conn = net[d].conn
    <3>1. ASSUME NEW x, \/ net' = [net EXCEPT ![Me.socket].inq = x]
                        \/ net' = [net EXCEPT ![Me.socket].outq = x],
                 NEW d \in Client
          PROVE  (d # Me.socket => net'[d] = net[d]) /\ net'[d].conn = net[d].conn
      BY <1>1, <3>1 DEF NetFields
    <3> QED
      BY <2>2, <3>1
  <2> QED
    BY <1>2, <1>3, <2>1, <2>3, TurnAwaited DEF OnlyCurrent
<1> QED
  BY <1>4, <1>5

\* A client that has just been accepted has not been looked at by select.
LEMMA AcceptAwaited == ASSUME Full, AwaitedInv, Accept PROVE AwaitedInv'
<1>1. pc = "accept" /\ cur' = cur /\ rfds' = rfds /\ pc' = "cgi_write" /\ \A s \in Slot : ~AtWork(s)
  BY DEF Accept, GoTo, AtWork
<1>2. /\ DOMAIN connection_list = Slot /\ \A s \in Slot : DOMAIN connection_list[s] = PeerFields
      /\ DOMAIN net = Client /\ \A d \in Client : DOMAIN net[d] = NetFields
  BY DEF Full, IInv, SlotInv, Shape
<1>3. CASE UNCHANGED <<connection_list, net>>
  BY <1>1, <1>3, CalmAwaited
<1>4. CASE ListenFd \in rfds /\ handle_new_connection /\ ~UNCHANGED <<connection_list, net>>
  <2> DEFINE c == Head(backlog)
  <2>1. backlog \in Seq(Client) /\ backlog # <<>>
    BY <1>1, <1>4 DEF Full, IInv, SlotInv, BacklogInv, AcceptInv
  <2>2. c \in Client /\ net[c].conn = "none"
    <3>1. c = backlog[1] /\ 1 \in 1 .. Len(backlog) /\ c \in Client
      BY <2>1
    <3> QED
      BY <3>1 DEF Full, IInv, SlotInv, BacklogInv
  <2> HIDE DEF c
  <2>3. ASSUME NEW s \in Slot, connection_list[s].socket = NULL,
               connection_list' = [connection_list EXCEPT
                 ![s] = [@ EXCEPT !.socket = c, !.close_conn = FALSE, !.http_task = FreshTask]],
               net' = [net EXCEPT ![c].conn = "open"]
        PROVE  AwaitedInv'
    <3>1. connection_list'[s].socket = c
      BY <1>2, <2>3 DEF PeerFields
    <3>2. \A t \in Slot : t # s => connection_list'[t] = connection_list[t]
      BY <2>3
    <3>3. /\ \A d \in Client : d # c => net'[d] = net[d]
          /\ net'[c].conn = "open" /\ net'[c].inq = net[c].inq
      BY <1>2, <2>2, <2>3 DEF NetFields
    <3>4. Heralds'
      BY <1>1, <3>3 DEF AwaitedInv, Heralds, SockFd
    <3>5. ASSUME NEW t \in Slot, t # s PROVE Awaited(t)'
      <4>1. Awaited(t) /\ ~AtWork(t)
        BY <1>1 DEF AwaitedInv
      <4>2. LET e == connection_list[t].socket
            IN e # NULL => e \in Client /\ net[e].conn = "open"
        BY DEF Full, IInv, SlotInv, Sockets, SlotsMatchConnections, Peer
      <4> QED
        BY <1>1, <2>2, <3>2, <3>3, <3>5, <4>1, <4>2, StillAwaited
    <3>6. Awaited(s)'
      <4>1. SockFd(c) \notin rfds
        BY <1>1, <2>2 DEF AwaitedInv, Heralds
      <4> QED
        BY <1>1, <3>1, <4>1 DEF Awaited
    <3> QED
      BY <3>4, <3>5, <3>6 DEF AwaitedInv, Slot
  <2>4. CASE /\ net' = [net EXCEPT ![c].conn = "refused", ![c].inq = <<>>]
             /\ connection_list' = connection_list
    <3>1. /\ net'[c].conn = "refused"
          /\ \A d \in Client : d # c => net'[d] = net[d]
      BY <1>2, <2>2, <2>4 DEF NetFields
    <3> QED
      BY <1>1, <2>2, <2>4, <3>1, CalmAwaited
  <2> QED
    BY <1>4, <2>3, <2>4 DEF handle_new_connection, Peer, NO_SOCKET, c
<1> QED
  BY <1>3, <1>4 DEF Accept

\* The two pipes of a slot.
LEMMA PipesStay ==
  ASSUME Tended, NoCgi \/ CgiWrite \/ CgiRead
  PROVE  \A s \in Slot : connection_list'[s].socket = connection_list[s].socket
<1>1. /\ cur \in Slot /\ Me = connection_list[cur] /\ DOMAIN connection_list = Slot
      /\ DOMAIN Me = PeerFields
  BY SureFull, CurrentTyped DEF Tended
<1>2. CASE connection_list' = connection_list
  BY <1>2
<1>3. CASE PipeOutput
  <2>1. PICK x : connection_list' = [connection_list EXCEPT ![cur].sending_buffer = x]
    BY <1>1, <1>3 DEF PipeOutput
  <2> QED
    BY <1>1, <2>1 DEF PeerFields
<1>4. CASE PipeEof
  <2> DEFINE t == [Task EXCEPT !.state = "FINISHED_STATE"]
  <2>1. connection_list' = [connection_list EXCEPT
           ![cur] = [Me EXCEPT !.cgi_executor = NULL, !.http_task = t]]
    BY SureFull, <1>1, <1>4, CurrentTyped DEF PipeEof, Tended
  <2> HIDE DEF t
  <2> QED
    BY <1>1, <2>1 DEF PeerFields
<1> QED
  BY <1>2, <1>3, <1>4, NoPipeBreaks DEF NoCgi, CgiWrite, CgiRead, PipeFull, peers

LEMMA PipesAwaited ==
  ASSUME Tended, NoCgi \/ CgiWrite \/ CgiRead PROVE AwaitedInv'
<1>0. Full /\ AwaitedInv
  BY SureFull DEF Tended
<1>1. /\ cur' = cur /\ rfds' = rfds /\ \A s \in Slot : ~AtWork(s)
      /\ pc \notin {"dead", "exit"}
  BY DEF NoCgi, CgiWrite, CgiRead, GoTo, AtWork
<1>2. net' = net
  BY NoPipeBreaks DEF NoCgi, CgiWrite, CgiRead, peers, world
<1> QED
  BY <1>0, <1>1, <1>2, PipesStay, CalmAwaited

LEMMA NextAwaited == ASSUME Tended, [Next]_vars PROVE AwaitedInv'
<1>0. Full /\ AwaitedInv
  BY SureFull DEF Tended
<1>1. ~Interrupt /\ ~SelectFails
  BY DEF Tended, Sure, Attended, Interrupt, SelectFails
<1>2. CASE SelectDies \/ CgiDies
  BY <1>2 DEF SelectDies, CgiDies, Die, AwaitedInv
<1>3. CASE UNCHANGED vars \/ Environment
  <2>1. /\ UNCHANGED connection_list /\ UNCHANGED loop
        /\ \A d \in Client : Endures(net[d], net'[d])
    BY <1>0, <1>3, EnvironmentEndures DEF vars, loop, Endures
  <2>2. EchoInv'
    BY NextEcho DEF Tended
  <2>3. \A d \in Client : /\ net'[d].conn = net[d].conn
                          /\ net'[d].inq = <<>> => net[d].inq = <<>>
    BY <2>1, <2>2 DEF Endures, EchoInv, Patient
  <2>4. ASSUME NEW s \in Slot PROVE Awaited(s)' <=> LET c == connection_list[s].socket IN
                 c # NULL /\ SockFd(c) \in rfds /\ ~Past(s) => net'[c].inq # <<>>
    BY <2>1 DEF Awaited, Past, AtWork, loop
  <2>5. \A s \in Slot : connection_list[s].socket # NULL => connection_list[s].socket \in Client
    BY <1>0 DEF Full, IInv, SlotInv, Sockets
  <2> QED
    BY <1>0, <2>1, <2>3, <2>4, <2>5 DEF AwaitedInv, Heralds, Awaited, SockFd, loop, Slot
<1> QED
  BY <1>0, <1>1, <1>2, <1>3, SelectAwaited, AcceptAwaited, PipesAwaited, TransfersAwaited,
     NoSendCloses, HandlerAwaited
  DEF Next, ServerStep

LEMMA InitAwaited == ASSUME Init PROVE AwaitedInv
  BY DEF Init, AwaitedInv, Heralds, Awaited
-----------------------------------------------------------------------------
(* Executors are those of the tasks that wait for them.                    *)

\* A slot with a script keeps its client.
LEMMA KeepsClient ==
  ASSUME Tended, [Next]_vars, NEW s \in Slot, connection_list[s].cgi_executor # NULL
  PROVE  connection_list'[s].socket = connection_list[s].socket /\ connection_list[s].socket # NULL
<1>0. /\ Full /\ cur \in Slot /\ Me = connection_list[cur] /\ Task = Me.http_task
      /\ DOMAIN Me = PeerFields
  BY CurrentTyped, SureFull DEF Tended
<1>1. connection_list[s].socket # NULL
  BY DEF Tended, Sure, EngagedInv, Engaged
<1>2. ~Interrupt /\ ~SelectFails
  BY DEF Tended, Sure, Attended, Interrupt, SelectFails
<1>3. CASE connection_list' = connection_list
  BY <1>1, <1>3
<1>4. CASE OnlyCurrent /\ Me.cgi_executor = NULL
  BY <1>0, <1>1, <1>4 DEF OnlyCurrent
<1>5. CASE RecvCloses
  <2>1. OnlyCurrent
    BY <1>5 DEF RecvCloses, CloseSlot, close_client_connection, OnlyCurrent
  <2> QED
    BY <1>4, <1>5, <2>1, RecvClosesNone
<1>6. CASE Handler /\ connection_list' # connection_list
  <2>1. ~HandlerDies /\ ~ProcessingCgi
    BY <1>6 DEF HandlerDies, ProcessingCgi, Die, peers
  <2>2. Task.state # "PROCESSING_CGI" /\ pc' # "dead"
    BY <1>6, <2>1 DEF Handler, HeaderIncomplete, HeaderTooLong, HeaderRefused, HeaderParsed,
       HeaderComplete, ReceiveBody, GenerateHeader, SendHeader, CheckStatic, CheckCgi,
       SendBody, SendBodyFails, Finish, InHandler, Return, ReturnCloseNow, Continue,
       NextSlot, loop
  <2>3. OnlyCurrent /\ Me.cgi_executor = NULL
    BY <1>0, <1>6, <2>2, HandlerMoves, ScriptSlot DEF Tended
  <2> QED
    BY <1>4, <2>3
<1>7. CASE Recv \/ Send
  <2>1. \/ connection_list' = connection_list
        \/ \E x : connection_list' = [connection_list EXCEPT ![cur].receiving_buffer = x]
        \/ \E x : connection_list' = [connection_list EXCEPT ![cur].sending_buffer = x]
    BY <1>0, <1>7 DEF Recv, Send, ReceiveFromPeer, SendToPeer
  <2>2. ASSUME NEW x, \/ connection_list' = [connection_list EXCEPT ![cur].receiving_buffer = x]
                      \/ connection_list' = [connection_list EXCEPT ![cur].sending_buffer = x]
        PROVE  connection_list'[s].socket = connection_list[s].socket
    <3>1. \A t \in Slot : connection_list'[t] =
            IF t = cur THEN connection_list'[cur] ELSE connection_list[t]
      BY <1>0, <2>2, CurrentTyped
    <3>2. connection_list'[cur].socket = Me.socket
      BY <1>0, <2>2, CurrentTyped DEF PeerFields
    <3> QED
      BY <1>0, <3>1, <3>2
  <2> QED
    BY <1>1, <2>1, <2>2
<1>8. CASE Accept
  <2>1. CASE connection_list' = connection_list
    BY <1>1, <2>1
  <2>2. ASSUME NEW t \in Slot, connection_list[t].socket = NULL, NEW x,
               connection_list' = [connection_list EXCEPT ![t] = x]
        PROVE  connection_list'[s].socket = connection_list[s].socket
    BY <1>1, <2>2
  <2>3. \/ connection_list' = connection_list
        \/ \E t \in Slot : \E x : connection_list[t].socket = NULL
                                  /\ connection_list' = [connection_list EXCEPT ![t] = x]
    BY <1>8 DEF Accept, handle_new_connection, Peer, NO_SOCKET
  <2> QED
    BY <1>1, <2>1, <2>2, <2>3
<1>9. CASE UNCHANGED vars \/ Environment \/ Select \/ SelectDies \/ CgiDies \/ SkipSlot
  <2>1. connection_list' = connection_list
    BY <1>9, EnvironmentStays DEF vars, Select, SelectDies, CgiDies, SkipSlot, Die, peers
  <2> QED
    BY <1>3, <2>1
<1> QED
  BY <1>1, <1>2, <1>3, <1>5, <1>6, <1>7, <1>8, <1>9, PipesStay, NoSendCloses DEF Next, ServerStep

\* An executor is only freed with the end of its script's output.
LEMMA ExecsSpared ==
  ASSUME Tended, [Next]_vars, NEW x \in ExecAddr, execs[x].live,
         ~(pc = "cgi_read" /\ x = Me.cgi_executor /\ ExecutorThen = NULL)
  PROVE  execs'[x].live /\ execs'[x].pid = execs[x].pid
<1>0. /\ Full /\ cur \in Slot /\ Me = connection_list[cur] /\ DOMAIN Me = PeerFields
      /\ DOMAIN execs = ExecAddr /\ \A a \in ExecAddr : DOMAIN execs[a] = ExecFields
      /\ DOMAIN connection_list = Slot
  BY CurrentTyped, SureFull DEF Tended, Full, Typed, ExecTyped
<1>1. ~Interrupt /\ ~SelectFails
  BY DEF Tended, Sure, Attended, Interrupt, SelectFails
<1>2. CASE execs' = execs
  BY <1>2
<1>3. CASE CgiWrite
  <2>1. Me.cgi_executor # NULL
    BY <1>3 DEF CgiWrite
  <2>2. CASE SendToCGI /\ execs' # execs
    <3>1. PICK b : execs' = [execs EXCEPT ![Me.cgi_executor].cgi_buffer = b]
      BY <2>2 DEF SendToCGI
    <3> QED
      BY <1>0, <3>1 DEF ExecFields
  <2> QED
    BY <1>2, <1>3, <2>1, <2>2, NoPipeBreaks DEF CgiWrite
<1>4. CASE CgiRead /\ execs' # execs
  <2>1. PipeEof /\ pc = "cgi_read"
    BY <1>4 DEF CgiRead, PipeFull, PipeOutput
  <2>2. ExecutorThen = NULL
    BY <1>0, <2>1 DEF PipeEof, PeerFields, ExecutorThen
  <2>3. x # Me.cgi_executor
    BY <2>1, <2>2
  <2> QED
    BY <1>0, <2>1, <2>3 DEF PipeEof, free_CGI_executor
<1>5. CASE CheckCgi
  <2>1. PICK a \in ExecAddr : ~execs[a].live /\ \E e : execs' = [execs EXCEPT ![a] = e]
    BY <1>5 DEF CheckCgi, start_CGI_script
  <2> QED
    BY <1>0, <2>1
<1>6. CASE RecvCloses \/ HeaderTooLong \/ HeaderRefused \/ SendBodyFails
  <2>1. Me.cgi_executor = NULL
    BY <1>6, RecvClosesNone, HandlerCloses
  <2> QED
    BY <1>2, <1>6, <2>1, FreesNone
    DEF RecvCloses, CloseSlot, HeaderTooLong, HeaderRefused, SendBodyFails, ReturnCloseNow, peers
<1>7. CASE UNCHANGED vars \/ Environment
  BY <1>2, <1>7, EnvironmentStays DEF vars
<1> QED
  BY <1>1, <1>2, <1>3, <1>4, <1>5, <1>6, <1>7, NoSendCloses
  DEF Next, ServerStep, Select, SelectDies, Accept, NoCgi, CgiDies, SkipSlot, Recv, Send, Die,
      Handler, HeaderIncomplete, HeaderParsed, ReceiveBody, GenerateHeader, SendHeader,
      CheckStatic, ProcessingCgi, SendBody, Finish, HandlerDies, Continue, peers

\* Two slots have two executors.
LEMMA TwoExecutors ==
  ASSUME Tended, NEW s \in Slot, NEW t \in Slot, s # t, connection_list[s].cgi_executor # NULL
  PROVE  connection_list[s].cgi_executor # connection_list[t].cgi_executor
<1> SUFFICES ASSUME connection_list[s].cgi_executor = connection_list[t].cgi_executor
             PROVE  FALSE
  OBVIOUS
<1> DEFINE p == connection_list[s]
           q == connection_list[t]
<1>1. Full /\ EngagedInv
  BY SureFull DEF Tended, Sure
<1>2. /\ p.socket # NULL /\ q.socket # NULL
      /\ p.http_task.own = q.http_task.own /\ p.http_task.own \in Asked(script)
  BY <1>1 DEF EngagedInv, Engaged
<1>3. p.http_task.own # None
  BY <1>1, <1>2, AskedRequest DEF Full, Typed, ScriptTyped
<1>4. p.http_task.own[1] = p.socket /\ q.http_task.own[1] = q.socket
  BY <1>1, <1>2, <1>3 DEF Full, Typed, SlotsTyped, SlotTyped, Owned
<1> QED
  BY <1>1, <1>2, <1>4, TwoClients

\* A slot whose task and executor stay.
LEMMA StillEngaged ==
  ASSUME Tended, [Next]_vars, NEW s \in Slot,
         LET p == connection_list[s]
             q == connection_list'[s]
         IN /\ q.http_task = p.http_task /\ q.cgi_executor = p.cgi_executor
            /\ q.socket \in {p.socket, NULL}
            /\ q.socket = NULL => q = p \/ Emptied(q) \/ p.cgi_executor # NULL
  PROVE  Engaged(s)'
<1> DEFINE p == connection_list[s]
           q == connection_list'[s]
           e == p.cgi_executor
           t == p.http_task
<1>1. Full /\ Engaged(s) /\ script' = script
  BY SureFull, ScriptStays DEF Tended, Sure, EngagedInv
<1>2. CASE e = NULL
  <2>1. q.socket = NULL => Emptied(q)
    BY <1>1, <1>2 DEF Engaged
  <2>2. ~(q.socket # NULL /\ q.http_task.state = "PROCESSING_CGI")
    BY <1>1, <1>2 DEF Engaged
  <2> QED
    BY <1>2, <2>1, <2>2 DEF Engaged, Emptied
<1>3. CASE e # NULL
  <2>1. q.socket = p.socket /\ p.socket # NULL
    BY <1>3, KeepsClient
  <2>2. /\ t.state = "PROCESSING_CGI" /\ execs[e].live /\ execs[e].pid = t.own
        /\ t.own \in Asked(script) /\ script[t.own[1]][t.own[2]].target = "cgi"
    BY <1>1, <1>3 DEF Engaged
  <2>3. e \in ExecAddr
    BY <1>1, <1>3 DEF Full, Typed, PointerTyped
  <2>4. cur \in Slot /\ Me = connection_list[cur]
    BY <1>1, CurrentTyped
  <2>5. ~(pc = "cgi_read" /\ e = Me.cgi_executor /\ ExecutorThen = NULL)
    BY <1>3, <2>4, TwoExecutors DEF ExecutorThen
  <2>6. execs'[e].live /\ execs'[e].pid = execs[e].pid
    BY <2>2, <2>3, <2>5, ExecsSpared
  <2> QED
    BY <1>1, <1>3, <2>1, <2>2, <2>6 DEF Engaged, Asked
<1> QED
  BY <1>2, <1>3

\* The slots other than the current one stay, and the current one is engaged.
LEMMA CurrentEngaged ==
  ASSUME Tended, [Next]_vars, OnlyCurrent, NEW s \in Slot,
         s = cur => Engaged(s)'
  PROVE  Engaged(s)'
<1>1. ASSUME s # cur PROVE Engaged(s)'
  <2>1. connection_list'[s] = connection_list[s]
    BY <1>1 DEF OnlyCurrent
  <2> QED
    BY <2>1, StillEngaged
<1> QED
  BY <1>1

\* A new script is that of the task, and gets an executor of its own.
LEMMA CheckCgiEngaged ==
  ASSUME Tended, [Next]_vars, CheckCgi, NEW s \in Slot, s = cur PROVE Engaged(s)'
<1>0. Full /\ InputInv /\ OwnInv
  BY SureFull DEF Tended, Sure
<1>1. pc = "http" /\ Wanted.target = "cgi" /\ script' = script
  BY DEF CheckCgi, InHandler
<1>2. /\ DOMAIN Me = PeerFields /\ DOMAIN Task = TaskFields /\ Task = Me.http_task
      /\ cur \in Slot /\ Me = connection_list[cur] /\ Me.socket # NULL
      /\ DOMAIN connection_list = Slot /\ DOMAIN execs = ExecAddr
  BY <1>0, <1>1, CurrentTyped DEF Full, Typed, ExecTyped
<1>3. request.of = Task.own /\ Task.own \in Asked(script)
  BY <1>0, StartsWhole
<1>4. script[Task.own[1]][Task.own[2]].target = "cgi"
  BY <1>1, <1>3 DEF Wanted, RequestOf
<1>5. PICK a \in ExecAddr :
        /\ \E i : execs' = [execs EXCEPT ![a] = [live |-> TRUE, pid |-> Task.own, cgi_buffer |-> i]]
        /\ Return([Me EXCEPT !.cgi_executor = a, !.http_task.state = "PROCESSING_CGI"],
                  IF Task.last_request THEN "CLOSE_CONN" ELSE "KEEP_CONN")
  BY DEF CheckCgi, start_CGI_script
<1> DEFINE new == [Task EXCEPT !.state = "PROCESSING_CGI"]
           p == [Me EXCEPT !.cgi_executor = a, !.http_task.state = "PROCESSING_CGI"]
           q == [p EXCEPT !.close_conn = TRUE]
<1>6. \/ connection_list' = [connection_list EXCEPT ![cur] = p]
      \/ connection_list' = [connection_list EXCEPT ![cur] = q]
  BY <1>5 DEF Return
<1>7. p.socket = Me.socket /\ p.http_task = new /\ p.cgi_executor = a /\ DOMAIN p = PeerFields
  BY <1>2 DEF PeerFields
<1>8. new.state = "PROCESSING_CGI" /\ new.own = Task.own
  BY <1>2 DEF TaskFields
<1> HIDE DEF new, p
<1>9. q.socket = Me.socket /\ q.http_task = new /\ q.cgi_executor = a
  BY <1>7 DEF PeerFields
<1> HIDE DEF q
<1>10. execs'[a].live /\ execs'[a].pid = Task.own
  BY <1>2, <1>5
<1>11. /\ connection_list'[cur].socket # NULL /\ connection_list'[cur].cgi_executor = a
       /\ connection_list'[cur].http_task = new /\ a # NULL
  BY <1>2, <1>6, <1>7, <1>9, StateAssumption
<1> QED
  BY <1>1, <1>3, <1>4, <1>8, <1>10, <1>11 DEF Engaged, Asked

\* Only a script that starts brings a task to where it waits for one.
LEMMA StartsIs == ASSUME Full, [Next]_vars, Starts PROVE CheckCgi
<1>1. pc = "http" /\ Task.state = "CHECK_CGI" /\ Wanted.target = "cgi"
  BY DEF Starts
<1>2. connection_list' # connection_list
  BY CurrentTyped DEF Starts, TaskThen
<1>3. ~Environment
  BY <1>2, EnvironmentStays
<1>4. ~Interrupt
  <2>1. ASSUME Shutdown PROVE FALSE
    <3>1. Calm
      BY <2>1, ShutdownKind
    <3> QED
      BY <3>1, CurrentTyped DEF Starts, TaskThen, Calm
  <2> QED
    BY <2>1 DEF Interrupt
<1> QED
  BY <1>1, <1>2, <1>3, <1>4
  DEF Next, vars, ServerStep, Select, SelectDies, Accept, NoCgi, CgiWrite, CgiRead, CgiDies,
      SkipSlot, Recv, RecvCloses, Send, SendCloses, SelectFails, Handler, HeaderIncomplete,
      HeaderTooLong, HeaderRefused, HeaderParsed, HeaderComplete, ReceiveBody, GenerateHeader,
      SendHeader, CheckStatic, ProcessingCgi, SendBody, SendBodyFails, Finish, HandlerDies,
      InHandler, Die

LEMMA NextEngaged == ASSUME Tended, [Next]_vars PROVE EngagedInv'
<1>0. /\ Full /\ EngagedInv /\ Kind /\ script' = script
      /\ cur \in Slot /\ Me = connection_list[cur] /\ Task = Me.http_task
  BY SureFull, CurrentTyped, NextKind, ScriptStays DEF Tended, Sure
<1> SUFFICES ASSUME NEW s \in Slot PROVE Engaged(s)'
  BY DEF EngagedInv, Slot
<1> DEFINE p == connection_list[s]
           q == connection_list'[s]
<1>1. CASE Calm
  BY <1>1, StillEngaged DEF Calm
<1>2. CASE Accepts
  <2>1. PICK f \in Slot, c \in Client :
          LET a == connection_list[f]
              b == connection_list'[f]
          IN /\ a.socket = NULL
             /\ b.socket = c /\ b.http_task = FreshTask /\ b.cgi_executor = a.cgi_executor
             /\ \A t \in Slot : t # f => connection_list'[t] = connection_list[t]
    BY <1>2 DEF Accepts
  <2>2. CASE s # f
    BY <2>1, <2>2, StillEngaged
  <2>3. CASE s = f
    <3>1. connection_list[f].cgi_executor = NULL
      BY <1>0, <2>1 DEF EngagedInv, Engaged
    <3>2. c # NULL /\ FreshTask.state # "PROCESSING_CGI"
      BY StateAssumption DEF FreshTask
    <3> QED
      BY <2>1, <2>3, <3>1, <3>2 DEF Engaged
  <2> QED
    BY <2>2, <2>3
<1>3. CASE Ends
  <2>1. /\ OnlyCurrent /\ connection_list'[cur].socket = Me.socket /\ Me.cgi_executor # NULL
        /\ ExecutorThen = NULL /\ TaskThen.state = "FINISHED_STATE"
    BY <1>3 DEF Ends
  <2>2. Me.socket # NULL
    BY <2>1, ScriptSlot DEF Tended
  <2>3. s = cur => Engaged(s)'
    BY <2>1, <2>2 DEF Engaged, ExecutorThen, TaskThen
  <2> QED
    BY <2>1, <2>3, CurrentEngaged
<1>4. CASE Works \/ Begins \/ Finishes
  <2>1. /\ OnlyCurrent /\ connection_list'[cur].socket # NULL
        /\ ExecutorThen = Me.cgi_executor
        /\ Task.state # "PROCESSING_CGI" /\ TaskThen.state # "PROCESSING_CGI"
    BY <1>4 DEF Works, Begins, Finishes, StaysConnected, Parsed
  <2>2. Me.cgi_executor = NULL
    BY <2>1, ScriptSlot DEF Tended
  <2>3. s = cur => Engaged(s)'
    BY <2>1, <2>2 DEF Engaged, ExecutorThen, TaskThen
  <2> QED
    BY <2>1, <2>3, CurrentEngaged
<1>5. CASE Refuses
  <2>1. /\ OnlyCurrent /\ connection_list'[cur].socket = NULL
        /\ Emptied(connection_list'[cur]) /\ ExecutorThen = Me.cgi_executor
    BY <1>5 DEF Refuses
  <2>2. Me.cgi_executor = NULL
    BY <1>0, <2>1, KeepsClient
  <2>3. s = cur => Engaged(s)'
    BY <2>1, <2>2 DEF Engaged, ExecutorThen, Emptied
  <2> QED
    BY <2>1, <2>3, CurrentEngaged
<1>6. CASE Starts
  <2>1. OnlyCurrent
    BY <1>6 DEF Starts, StaysConnected
  <2> QED
    BY <1>0, <1>6, <2>1, StartsIs, CheckCgiEngaged, CurrentEngaged
<1> QED
  BY <1>0, <1>1, <1>2, <1>3, <1>4, <1>5, <1>6 DEF Kind

LEMMA InitEngaged == ASSUME Init PROVE EngagedInv
  BY DEF Init, EngagedInv, Engaged, FreshPeer, NO_SOCKET, Emptied
-----------------------------------------------------------------------------
Cared ==
  Attended(script) => /\ EngagedInv /\ OutputInv /\ EchoInv /\ Drained /\ KeepingInv
                      /\ AwaitedInv

LEMMA InitCared == Init => Cared
<1> SUFFICES ASSUME Init, Attended(script)
             PROVE  /\ EngagedInv /\ OutputInv /\ EchoInv /\ Drained /\ KeepingInv
                    /\ AwaitedInv
  BY DEF Cared
<1> QED
  BY InitEngaged, InitScripted, InitEcho, InitKeeping, InitAwaited DEF Scripted

LEMMA NextCared == Base /\ Given /\ Cared /\ [Next]_vars => Cared'
<1> SUFFICES ASSUME Base, Given, Cared, [Next]_vars, Attended(script)'
             PROVE  /\ EngagedInv' /\ OutputInv' /\ EchoInv' /\ Drained' /\ KeepingInv'
                    /\ AwaitedInv'
  BY DEF Cared
<1>1. Attended(script)
  <2>1. script' = script /\ (Unshared(script)' <=> Unshared(script))
    BY ScriptStays, AsksStay
  <2> QED
    BY <2>1 DEF Attended, Posted, Asked, Size
<1>2. Tended
  BY <1>1 DEF Tended, Sure, Cared, Given, Attended
<1>3. Sure /\ EchoInv
  BY <1>2 DEF Tended
<1> QED
  BY <1>2, <1>3, NextEngaged, NextScripted, NextEcho, NextKeeping, NextAwaited DEF Scripted

\* Where no client leaves and no script dies, no signal comes, one connection at most is
\* open at a time or no request has a body, and the requests for scripts leave the
\* connection open and are followed by what fits into the receiving buffer: a slot has
\* an executor exactly while its task waits for a script, and that executor is live and
\* is the one of the slot's own request.  free_CGI_executor frees what no slot points
\* to any more, close_client_connection meets no slot with a script, and no slot is
\* given to a client with the executor of the last one.
THEOREM ExecutorsMatch == Spec => [](Attended(script) => ExecutorMatchesTask)
<1>1. Init => Base /\ Given /\ Cared
  BY InitBase, InitGiven, InitCared
<1>2. (Base /\ Given /\ Cared) /\ [Next]_vars => (Base /\ Given /\ Cared)'
  BY NextBase, NextGiven, NextCared
<1>3. Base /\ Given /\ Cared => (Attended(script) => ExecutorMatchesTask)
  <2> SUFFICES ASSUME Full, EngagedInv, NEW s \in Slot
               PROVE  /\ Peer(s).cgi_executor # NULL <=>
                           Peer(s).socket # NO_SOCKET /\ Peer(s).http_task.state = "PROCESSING_CGI"
                      /\ Peer(s).cgi_executor # NULL =>
                           /\ execs[Peer(s).cgi_executor].live
                           /\ execs[Peer(s).cgi_executor].pid = Peer(s).http_task.own
                           /\ execs[Peer(s).cgi_executor].pid[1] = Peer(s).socket
    BY DEF Base, Cared, ExecutorMatchesTask
  <2>1. Engaged(s) /\ Peer(s) = connection_list[s]
    BY DEF EngagedInv, Peer
  <2>2. Owned(script, connection_list[s])
    BY DEF Full, Typed, SlotsTyped, SlotTyped
  <2>3. connection_list[s].http_task.own \in Asked(script) =>
          connection_list[s].http_task.own # None
    BY AskedRequest DEF Full, Typed, ScriptTyped
  <2> QED
    BY <2>1, <2>2, <2>3 DEF Engaged, Owned, NO_SOCKET
<1> QED
  BY <1>1, <1>2, <1>3, PTL DEF Spec
=============================================================================
