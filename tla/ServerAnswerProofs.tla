------------------------- MODULE ServerAnswerProofs --------------------------
(***************************************************************************)
(* What the server sends to its clients, for any number of clients and     *)
(* slots, as long as they ask for files and wait for their answers: each   *)
(* client gets the answers to its own requests, in order, and none of them *)
(* before it has sent the request; and the slots that answer them do not   *)
(* meet in the global request.                                             *)
(***************************************************************************)
EXTENDS ServerRequestProofs, WellFoundedInduction

\* Clients that wait for their answers and ask for no script, and whose
\* requests do not meet in the global variable.
Orderly(sc) == ~Pipelined /\ NoScripts(sc) /\ Unshared(sc)

\* A descriptor is left for the file that is to be opened.
Enough == OpenCount < OPEN_MAX

Replies == [r \in Asked(script) |-> Answer(r)]

\* The answers (of a) to the first m requests of client c.
UpTo(a, c, m) == FlattenSeq([j \in 1 .. m |-> a[<<c, j>>]])

\* What is left of the file of request r behind its first n tokens; fgetc
\* reads nothing from a directory.
FileRest(sc, r, n) ==
  IF sc[r[1]][r[2]].target = "dir" THEN <<>> ELSE Drop(FileStream(r), n)

\* What the task will send behind the header that it has made.
Rest(sc, t) == IF AfterHeader(t) = "SEND_BODY_STATE" THEN FileRest(sc, t.own, 0) ELSE <<>>

\* The next thing that the client of a task says, being at spot f, is not the
\* beginning of a request other than number m + 1.
Settles(f, m) == f[2] = 1 => f = <<m + 1, 1>>

\* A body only comes with a POST, which reads it.
Posted(sc) ==
  \A r \in Asked(sc) : BodyLen(sc[r[1]][r[2]]) > 0 => sc[r[1]][r[2]].method = "POST"

\* Unless it waits for a body, what a task reads next begins a request.
AtRequest(sc, t, f) == Posted(sc) /\ t.state # "RECV_BODY_STATE" => f[2] = 1

\* What a client has got and will get out of its sending buffer b, x in all, is
\* what the state of its task t says: the answers to all requests before its
\* own, and of this one what is not still in the task.
BeforeAnswer == TakesBody \cup {"GENERATE_HEADER_STATE", "SEND_HEADER_STATE"}

Pays(a, sc, t, b, x) ==
  LET c == t.own[1]
      m == t.own[2]
  IN /\ t.state \in BeforeAnswer => b = <<>> /\ x = UpTo(a, c, m - 1)
     /\ t.state \in TakesBody => sc[c][m].method \in {"GET", "HEAD", "POST"}
     /\ t.state = "GENERATE_HEADER_STATE" =>
          t.response_buf \o NonBodyResponse(t.own, t.response_code) = a[t.own]
     /\ t.state = "SEND_HEADER_STATE" => t.response_buf \o Rest(sc, t) = a[t.own]
     /\ t.state = "SEND_BODY_STATE" => x \o FileRest(sc, t.own, t.fp.pos) = UpTo(a, c, m)
     /\ t.state = "FINISHED_STATE" => x = UpTo(a, c, m)
     /\ SendsFile(t) => t.fp.of = t.own /\ (t.state = "SEND_HEADER_STATE" => t.fp.pos = 0)

\* Between two requests everything that was asked has been answered.
Owes(a, sc, c, t, b, x, f) ==
  /\ AtRequest(sc, t, f)
  /\ IF t.state = "RECV_HEADER_STATE"
       THEN \E m \in 0 .. Len(sc[c]) : x = UpTo(a, c, m) /\ Settles(f, m)
       ELSE t.own # None /\ Settles(f, t.own[2]) /\ Pays(a, sc, t, b, x)

\* Slot p and its client's end k of the connection.
Total(k, b) == Cat(Cat(k.got, k.outq), b)

Serves(a, sc, p, k) ==
  k.st # "gone" =>
    Owes(a, sc, p.socket, p.http_task, p.sending_buffer, Total(k, p.sending_buffer),
         From(k, Unread(p.http_task, p.receiving_buffer, k.inq)))

\* The client has read the last token of the answer to r.
Heard(a, r, k) == a[r] # <<>> /\ \E i \in 1 .. Len(k.got) : k.got[i] = a[r][Len(a[r])]

\* A client that has no connection yet, or whose connection is over.
Outside(a, sc, c, k) ==
  k.st # "gone" =>
    /\ k.conn = "none" => k.got = <<>> /\ k.outq = <<>> /\ From(k, k.inq) = <<1, 1>>
    /\ k.conn \notin {"none", "open"} => IsPrefix(Cat(k.got, k.outq), UpTo(a, c, Len(sc[c])))

\* Clients wait for the answer before they send the next request.
Waits(a, sc, c, k) ==
  \A j \in 2 .. Len(sc[c]) : Before(<<j, 1>>, k.next) => Heard(a, <<c, j - 1>>, k)

Minds(a, sc, c, k) ==
  k.got \in Seq(Piece(sc)) /\ Outside(a, sc, c, k) /\ Waits(a, sc, c, k)

SlotServes(s) ==
  connection_list[s].socket # NULL =>
    Serves(Replies, script, connection_list[s], net[connection_list[s].socket])

AnswerInv ==
  /\ \A c \in Client : Minds(Replies, script, c, net[c])
  /\ \A s \in Slot : SlotServes(s)
-----------------------------------------------------------------------------
(* Answers, one after the other.                                           *)

\* The least-number principle, for a set.
LEMMA LeastOf ==
  ASSUME NEW T \in SUBSET Nat, T # {} PROVE \E m \in T : \A j \in T : ~(j < m)
<1>1. IsWellFoundedOn(OpToRel(<, Nat), Nat)
  BY NatLessThanWellFounded
<1>2. \E x \in T : \A y \in T : ~(<<y, x>> \in OpToRel(<, Nat))
  BY <1>1, WFMin
<1>3. \A x, y \in Nat : <<y, x>> \in OpToRel(<, Nat) <=> y < x
  BY DEF OpToRel
<1> QED
  BY <1>2, <1>3

\* Induction over the numbers up to n, for a set.
LEMMA Climb ==
  ASSUME NEW n \in Nat, NEW S, 0 \in S, \A i \in 0 .. n - 1 : i \in S => i + 1 \in S
  PROVE  \A i \in 0 .. n : i \in S
<1> SUFFICES ASSUME ~(\A i \in 0 .. n : i \in S) PROVE FALSE
  OBVIOUS
<1> DEFINE T == {i \in 0 .. n : i \notin S}
<1>1. T \in SUBSET Nat /\ T # {}
  OBVIOUS
<1>2. PICK m \in T : \A j \in T : ~(j < m)
  BY <1>1, LeastOf
<1>3. m \in 1 .. n /\ m \notin S
  OBVIOUS
<1>4. m - 1 \in 0 .. n - 1 /\ m - 1 \notin T
  BY <1>2, <1>3
<1>5. m - 1 \in S
  BY <1>4
<1>6. (m - 1) + 1 = m
  BY <1>3
<1> QED
  BY <1>3, <1>4, <1>5, <1>6

\* What FlattenSeq makes of the first m parts of its argument.
JoinsTo(f, s, m) == f = [i \in 1 .. m |-> IF i = 1 THEN s[i] ELSE f[i - 1] \o s[i]]
Joins(f, s) == JoinsTo(f, s, Len(s))

LEMMA JoinsMore ==
  ASSUME NEW s, NEW m \in Nat, NEW f, JoinsTo(f, s, m) PROVE \E g : JoinsTo(g, s, m + 1)
<1> DEFINE v(i) == IF i <= m THEN f[i] ELSE IF i = 1 THEN s[i] ELSE f[i - 1] \o s[i]
           g == [i \in 1 .. m + 1 |-> v(i)]
           w(i) == IF i = 1 THEN s[i] ELSE g[i - 1] \o s[i]
<1>1. \A i \in 1 .. m : f[i] = IF i = 1 THEN s[i] ELSE f[i - 1] \o s[i]
  BY DEF JoinsTo
<1>2. \A i \in 1 .. m + 1 : g[i] = v(i)
  OBVIOUS
<1> HIDE DEF g
<1>3. \A i \in 1 .. m : g[i] = f[i]
  BY <1>2
<1>4. ASSUME NEW i \in 1 .. m + 1 PROVE v(i) = w(i)
  <2>1. i # 1 => i - 1 \in 1 .. m
    OBVIOUS
  <2>2. i # 1 => g[i - 1] = f[i - 1]
    BY <1>3, <2>1
  <2>3. i \in 1 .. m \/ (i = m + 1 /\ ~(i <= m))
    OBVIOUS
  <2>4. CASE i \in 1 .. m
    BY <1>1, <2>2, <2>4
  <2>5. CASE i = m + 1 /\ ~(i <= m)
    BY <2>2, <2>5
  <2> QED
    BY <2>3, <2>4, <2>5
<1>5. g = [i \in 1 .. m + 1 |-> w(i)]
  <2> HIDE DEF w, v
  <2>1. g = [i \in 1 .. m + 1 |-> v(i)]
    BY DEF g
  <2> QED
    BY <1>4, <2>1
<1> QED
  BY <1>5 DEF JoinsTo

LEMMA JoinsExists ==
  ASSUME NEW s, Len(s) \in Nat PROVE \E f : Joins(f, s)
<1> DEFINE S == {m \in 0 .. Len(s) : \E f : JoinsTo(f, s, m)}
<1>1. 0 \in S
  <2>1. JoinsTo([i \in {} |-> i], s, 0)
    BY DEF JoinsTo
  <2> QED
    BY <2>1
<1>2. ASSUME NEW m \in 0 .. Len(s) - 1, m \in S PROVE m + 1 \in S
  <2>1. PICK f : JoinsTo(f, s, m)
    BY <1>2
  <2>2. m \in Nat /\ m + 1 \in 0 .. Len(s)
    OBVIOUS
  <2>3. \E g : JoinsTo(g, s, m + 1)
    BY <2>1, <2>2, JoinsMore
  <2> QED
    BY <2>2, <2>3
<1>3. Len(s) \in 0 .. Len(s)
  OBVIOUS
<1>4. Len(s) \in S
  <2> HIDE DEF S
  <2>1. \A i \in 0 .. Len(s) : i \in S
    BY <1>1, <1>2, Climb
  <2> QED
    BY <1>3, <2>1
<1> QED
  BY <1>4 DEF Joins

LEMMA FlattenUnfold ==
  ASSUME NEW s, Len(s) \in Nat
  PROVE  /\ Len(s) = 0 => FlattenSeq(s) = s
         /\ \E f : Joins(f, s) /\ (Len(s) > 0 => FlattenSeq(s) = f[Len(s)])
<1>1. CASE Len(s) = 0
  BY <1>1, JoinsExists DEF FlattenSeq
<1>2. CASE Len(s) > 0
  <2> DEFINE f == CHOOSE g : Joins(g, s)
  <2>1. Joins(f, s)
    BY JoinsExists
  <2>2. FlattenSeq(s) = f[Len(s)]
    BY <1>2 DEF FlattenSeq, Joins, JoinsTo
  <2> HIDE DEF f
  <2> QED
    BY <1>2, <2>1, <2>2
<1> QED
  BY <1>1, <1>2

\* Two ways to join parts that agree up to some point agree up to there.
LEMMA JoinsAgree ==
  ASSUME NEW s, NEW r, NEW f, NEW g, Joins(f, s), Joins(g, r), Len(s) \in Nat, Len(r) \in Nat,
         NEW n \in Nat, n <= Len(s), n <= Len(r), \A i \in 1 .. n : s[i] = r[i]
  PROVE  \A i \in 1 .. n : f[i] = g[i]
<1> DEFINE S == {m \in 0 .. n : m = 0 \/ f[m] = g[m]}
<1>1. 0 \in S
  OBVIOUS
<1>2. ASSUME NEW m \in 0 .. n - 1, m \in S PROVE m + 1 \in S
  <2>1. m + 1 \in 1 .. Len(s) /\ m + 1 \in 1 .. Len(r) /\ s[m + 1] = r[m + 1]
    OBVIOUS
  <2>2. /\ f[m + 1] = IF m + 1 = 1 THEN s[m + 1] ELSE f[m] \o s[m + 1]
        /\ g[m + 1] = IF m + 1 = 1 THEN r[m + 1] ELSE g[m] \o r[m + 1]
    <3>1. (m + 1) - 1 = m
      OBVIOUS
    <3> QED
      BY <2>1, <3>1 DEF Joins, JoinsTo
  <2>3. m + 1 # 1 => f[m] = g[m]
    BY <1>2
  <2> QED
    BY <2>1, <2>2, <2>3
<1> HIDE DEF S
<1>3. \A i \in 0 .. n : i \in S
  BY <1>1, <1>2, Climb
<1> QED
  BY <1>3 DEF S

\* One part more.
LEMMA FlattenNext ==
  ASSUME NEW s, NEW r, Len(s) \in Nat, Len(r) = Len(s) + 1, s = <<>> \/ Len(s) > 0,
         \A i \in 1 .. Len(s) : s[i] = r[i],
         NEW S, r[Len(r)] \in Seq(S)
  PROVE  FlattenSeq(r) = FlattenSeq(s) \o r[Len(r)]
<1>1. PICK f : Joins(f, s) /\ (Len(s) > 0 => FlattenSeq(s) = f[Len(s)])
  BY FlattenUnfold
<1>0. Len(r) \in Nat /\ Len(r) > 0 /\ Len(s) <= Len(r) /\ Len(s) <= Len(s)
  OBVIOUS
<1>2. PICK g : Joins(g, r) /\ FlattenSeq(r) = g[Len(r)]
  BY <1>0, FlattenUnfold
<1>3. \A i \in 1 .. Len(s) : f[i] = g[i]
  <2> DEFINE n == Len(s)
  <2>1. /\ Joins(f, s) /\ Joins(g, r) /\ Len(s) \in Nat /\ Len(r) \in Nat
        /\ n \in Nat /\ n <= Len(s) /\ n <= Len(r) /\ \A i \in 1 .. n : s[i] = r[i]
    BY <1>0, <1>1, <1>2
  <2> HIDE DEF n
  <2>2. \A i \in 1 .. n : f[i] = g[i]
    BY ONLY <2>1, JoinsAgree
  <2> QED
    BY <2>2 DEF n
<1>4. g[Len(r)] = IF Len(r) = 1 THEN r[Len(r)] ELSE g[Len(s)] \o r[Len(r)]
  <2>1. Len(r) \in 1 .. Len(r) /\ Len(r) - 1 = Len(s)
    OBVIOUS
  <2> QED
    BY <1>2, <2>1 DEF Joins, JoinsTo
<1>5. CASE Len(s) = 0
  <2>1. FlattenSeq(s) = <<>>
    BY <1>5, FlattenUnfold
  <2>2. <<>> \o r[Len(r)] = r[Len(r)]
    BY EmptySeq, ConcatEmptySeq
  <2>3. Len(r) = 1
    BY <1>5
  <2> QED
    BY <1>2, <1>4, <2>1, <2>2, <2>3
<1>6. CASE Len(s) > 0
  <2>1. Len(s) \in 1 .. Len(s) /\ Len(r) # 1
    BY <1>6
  <2>2. f[Len(s)] = g[Len(s)]
    BY <1>3, <2>1
  <2> QED
    BY <1>1, <1>2, <1>4, <1>6, <2>1, <2>2
<1> QED
  BY <1>5, <1>6
-----------------------------------------------------------------------------
LEMMA PrefixMeans ==
  ASSUME NEW S, NEW s \in Seq(S), NEW t \in Seq(S)
  PROVE  IsPrefix(s, t) <=> Len(s) <= Len(t) /\ \A i \in 1 .. Len(s) : s[i] = t[i]
<1>1. Len(s) \in Nat /\ Len(t) \in Nat
  BY LenProperties
<1>2. ASSUME Len(s) <= Len(t)
      PROVE  /\ SubSeq(s, 1, Len(s)) \in Seq(S) /\ Len(SubSeq(s, 1, Len(s))) = Len(s)
             /\ SubSeq(t, 1, Len(s)) \in Seq(S) /\ Len(SubSeq(t, 1, Len(s))) = Len(s)
             /\ \A i \in 1 .. Len(s) : /\ SubSeq(s, 1, Len(s))[i] = s[i]
                                       /\ SubSeq(t, 1, Len(s))[i] = t[i]
  <2>1. Take(s, Len(s)) \in Seq(S) /\ Len(Take(s, Len(s))) = Len(s)
    BY <1>1, TakeType
  <2>2. Take(t, Len(s)) \in Seq(S) /\ Len(Take(t, Len(s))) = Len(s)
    BY <1>1, <1>2, TakeType
  <2>3. \A i \in 1 .. Len(s) : Take(s, Len(s))[i] = s[i] /\ Take(t, Len(s))[i] = t[i]
    BY <1>1, <1>2, TakeElement
  <2> QED
    BY <2>1, <2>2, <2>3 DEF Take
<1>3. ASSUME Len(s) <= Len(t), \A i \in 1 .. Len(s) : s[i] = t[i]
      PROVE  SubSeq(s, 1, Len(s)) = SubSeq(t, 1, Len(s))
  <2> DEFINE a == SubSeq(s, 1, Len(s))
             b == SubSeq(t, 1, Len(s))
  <2>1. a \in Seq(S) /\ b \in Seq(S) /\ Len(a) = Len(b) /\ \A i \in 1 .. Len(a) : a[i] = b[i]
    BY <1>2, <1>3
  <2> HIDE DEF a, b
  <2>2. a = b
    BY <2>1, SeqEqual
  <2> QED
    BY <2>2 DEF a, b
<1>4. ASSUME IsPrefix(s, t) PROVE Len(s) <= Len(t) /\ \A i \in 1 .. Len(s) : s[i] = t[i]
  <2>1. Len(s) <= Len(t) /\ SubSeq(s, 1, Len(s)) = SubSeq(t, 1, Len(s))
    BY <1>4 DEF IsPrefix
  <2> QED
    BY <1>2, <2>1
<1> QED
  BY <1>3, <1>4 DEF IsPrefix

LEMMA PrefixOfConcat ==
  ASSUME NEW S, NEW s \in Seq(S), NEW t \in Seq(S) PROVE s \o t \in Seq(S) /\ IsPrefix(s, s \o t)
<1>1. /\ s \o t \in Seq(S) /\ Len(s \o t) = Len(s) + Len(t)
      /\ \A i \in 1 .. Len(s) + Len(t) :
           (s \o t)[i] = IF i <= Len(s) THEN s[i] ELSE t[i - Len(s)]
  BY ConcatProperties
<1>2. Len(s) \in Nat /\ Len(t) \in Nat
  BY LenProperties
<1>3. Len(s) <= Len(s \o t) /\ \A i \in 1 .. Len(s) : s[i] = (s \o t)[i]
  BY <1>1, <1>2
<1> QED
  BY <1>1, <1>3, PrefixMeans

LEMMA PrefixTransitive ==
  ASSUME NEW S, NEW s \in Seq(S), NEW t \in Seq(S), NEW u \in Seq(S),
         IsPrefix(s, t), IsPrefix(t, u)
  PROVE  IsPrefix(s, u)
<1>1. Len(s) \in Nat /\ Len(t) \in Nat /\ Len(u) \in Nat
  BY LenProperties
<1>2. Len(s) <= Len(t) /\ \A i \in 1 .. Len(s) : s[i] = t[i]
  BY PrefixMeans
<1>3. Len(t) <= Len(u) /\ \A i \in 1 .. Len(t) : t[i] = u[i]
  BY PrefixMeans
<1>4. Len(s) <= Len(u) /\ \A i \in 1 .. Len(s) : s[i] = u[i]
  BY <1>1, <1>2, <1>3
<1> QED
  BY <1>4, PrefixMeans

LEMMA PrefixSelf ==
  ASSUME NEW S, NEW s \in Seq(S) PROVE IsPrefix(s, s)
<1>1. Len(s) \in Nat
  BY LenProperties
<1> QED
  BY <1>1, PrefixMeans

\* A beginning of the answers is a piece of them that is cut off.
LEMMA PrefixTake ==
  ASSUME NEW S, NEW s \in Seq(S), NEW n \in 0 .. Len(s) PROVE IsPrefix(Take(s, n), s)
<1>1. /\ Take(s, n) \in Seq(S) /\ Len(Take(s, n)) = n
      /\ \A i \in 1 .. n : Take(s, n)[i] = s[i]
  BY TakeType, TakeElement
<1>2. Len(s) \in Nat
  BY LenProperties
<1>3. Len(Take(s, n)) <= Len(s)
  BY <1>1, <1>2
<1> QED
  BY <1>1, <1>3, PrefixMeans
-----------------------------------------------------------------------------
(* The answer to one request.                                              *)

StatusOf(r, code) == <<Token(r, "head", code), Token(r, "end", code)>>
OutputOf(r, n) == [i \in 1 .. n |-> Token(r, "cgi", i)]

\* A sequence of tokens of r that ends with one that is not in it before.
Ending(r, a) ==
  /\ \A i \in 1 .. Len(a) : a[i].req = r
  /\ \A i \in 1 .. Len(a) : i < Len(a) => a[i] # a[Len(a)]

LEMMA StatusType ==
  ASSUME NEW r \in Asked(script), NEW code \in Int
  PROVE  /\ StatusOf(r, code) \in Seq(Piece(script)) /\ Len(StatusOf(r, code)) = 2
         /\ <<Token(r, "head", code)>> \in Seq(Piece(script))
         /\ StatusOf(r, code)[1] = Token(r, "head", code)
         /\ StatusOf(r, code)[2] = Token(r, "end", code)
<1>1. Token(r, "head", code) \in Piece(script) /\ Token(r, "end", code) \in Piece(script)
  BY DEF Token, Piece
<1> QED
  BY <1>1, ShortSeq DEF StatusOf

LEMMA OutputType ==
  ASSUME NEW r \in Asked(script), NEW n \in Nat
  PROVE  OutputOf(r, n) \in Seq(Piece(script)) /\ Len(OutputOf(r, n)) = n
           /\ \A i \in 1 .. n : OutputOf(r, n)[i] = Token(r, "cgi", i)
<1>1. \A i \in 1 .. n : Token(r, "cgi", i) \in Piece(script)
  BY DEF Token, Piece
<1>2. OutputOf(r, n) \in [1 .. n -> Piece(script)]
  BY <1>1 DEF OutputOf
<1>3. OutputOf(r, n) \in Seq(Piece(script))
  BY <1>2, SeqDef
<1>4. Len(OutputOf(r, n)) = n
  BY <1>2, <1>3, LenProperties DEF OutputOf
<1> QED
  BY <1>3, <1>4 DEF OutputOf

FileBody(r) == [i \in 1 .. FileLen |-> Token(r, "body", i)]

\* The stream of a file is its bytes and the byte made of EOF.
LEMMA StreamOfFile ==
  ASSUME NEW r \in Asked(script)
  PROVE  /\ FileStream(r) \in Seq(Piece(script)) /\ Len(FileStream(r)) = FileLen + 1
         /\ FileBody(r) \in Seq(Piece(script))
         /\ <<Token(r, "eof", 0)>> \in Seq(Piece(script))
         /\ FileBody(r) \o <<Token(r, "eof", 0)>> = FileStream(r)
<1>1. FileStream(r) \in Seq(Piece(script)) /\ Len(FileStream(r)) = FileLen + 1 /\ FileLen \in Nat
  BY FileType, StateAssumption
<1>2. \A i \in 1 .. FileLen : Token(r, "body", i) \in Piece(script)
  BY DEF Token, Piece
<1>3. FileBody(r) \in [1 .. FileLen -> Piece(script)]
  BY <1>2 DEF FileBody
<1>4. FileBody(r) \in Seq(Piece(script))
  BY <1>1, <1>3, SeqDef
<1>5. Len(FileBody(r)) = FileLen
  BY <1>1, <1>3, <1>4, LenProperties DEF FileBody
<1>6. Token(r, "eof", 0) \in Piece(script)
  BY DEF Token, Piece
<1> DEFINE e == <<Token(r, "eof", 0)>>
           b == FileBody(r)
           f == FileStream(r)
<1>7. e \in Seq(Piece(script)) /\ Len(e) = 1 /\ e[1] = Token(r, "eof", 0)
  BY <1>6, ShortSeq
<1>8. \A i \in 1 .. FileLen : b[i] = Token(r, "body", i)
  BY DEF FileBody
<1>9. \A i \in 1 .. FileLen + 1 :
        f[i] = IF i <= FileLen THEN Token(r, "body", i) ELSE Token(r, "eof", 0)
  BY DEF FileStream
<1>10. b \o e = f
  <2> HIDE DEF b, e, f
  <2>1. /\ b \o e \in Seq(Piece(script)) /\ Len(b \o e) = FileLen + 1
        /\ \A i \in 1 .. FileLen + 1 : (b \o e)[i] = IF i <= FileLen THEN b[i] ELSE e[i - FileLen]
    <3>1. b \in Seq(Piece(script)) /\ Len(b) = FileLen
      BY <1>4, <1>5 DEF b
    <3>2. /\ b \o e \in Seq(Piece(script)) /\ Len(b \o e) = Len(b) + Len(e)
          /\ \A i \in 1 .. Len(b) + Len(e) :
               (b \o e)[i] = IF i <= Len(b) THEN b[i] ELSE e[i - Len(b)]
      BY <1>7, <3>1, ConcatProperties
    <3> QED
      BY <1>7, <3>1, <3>2
  <2>2. ASSUME NEW i \in 1 .. FileLen + 1 PROVE (b \o e)[i] = f[i]
    <3>1. CASE i <= FileLen
      BY <1>1, <1>8, <1>9, <2>1, <3>1
    <3>2. CASE i = FileLen + 1
      <4>1. i - FileLen = 1 /\ ~(i <= FileLen)
        BY <1>1, <3>2
      <4> QED
        BY <1>7, <1>9, <2>1, <4>1
    <3>3. i <= FileLen \/ i = FileLen + 1
      BY <1>1
    <3> QED
      BY <3>1, <3>2, <3>3
  <2>3. f \in Seq(Piece(script)) /\ Len(f) = FileLen + 1
    BY <1>1 DEF f
  <2> QED
    BY <2>1, <2>2, <2>3, SeqEqual
<1> QED
  BY <1>1, <1>4, <1>7, <1>10

\* The answer to r, as the parts that the handler makes of it.
LEMMA AnswerCases ==
  ASSUME NEW r \in Asked(script)
  PROVE  LET q == RequestOf(r) IN
           /\ q.method = "MALFORMED" => Answer(r) = <<>>
           /\ q.method = "OTHER" => Answer(r) = StatusOf(r, 501)
           /\ q.method = "POST" /\ ~HasLength(q) => Answer(r) = StatusOf(r, 411)
           /\ q.method = "POST" /\ HasLength(q) /\ q.target # "cgi" =>
                Answer(r) = <<Token(r, "head", 200)>>
           /\ q.method \in {"GET", "HEAD"} /\ q.target = "missing" =>
                Answer(r) = StatusOf(r, 404)
           /\ q.method \in {"GET", "HEAD"} /\ q.target = "noperm" =>
                Answer(r) = StatusOf(r, 200) \o StatusOf(r, 500)
           /\ q.method \in {"GET", "HEAD"} /\ q.target = "dir" => Answer(r) = StatusOf(r, 200)
           /\ q.method = "HEAD" /\ q.target = "file" => Answer(r) = StatusOf(r, 200)
           /\ q.method = "GET" /\ q.target = "file" =>
                Answer(r) = StatusOf(r, 200) \o FileBody(r) \o <<Token(r, "eof", 0)>>
<1> DEFINE q == RequestOf(r)
<1>0. q.method = "MALFORMED" => Answer(r) = <<>>
  BY DEF Answer, StatusOf
<1>1. q.method = "OTHER" => Answer(r) = StatusOf(r, 501)
  BY DEF Answer, StatusOf
<1>2. q.method = "POST" /\ ~HasLength(q) => Answer(r) = StatusOf(r, 411)
  BY DEF Answer, StatusOf
<1>3. q.method = "POST" /\ HasLength(q) /\ q.target # "cgi" => Answer(r) = <<Token(r, "head", 200)>>
  BY DEF Answer, StatusOf
<1>f. q.method \in {"GET", "HEAD"} /\ q.target # "cgi" => Answer(r) = FileAnswer(r)
  BY DEF Answer
<1>4. q.method \in {"GET", "HEAD"} /\ q.target = "missing" => Answer(r) = StatusOf(r, 404)
  BY <1>f DEF FileAnswer, StatusOf
<1>5. q.method \in {"GET", "HEAD"} /\ q.target = "noperm" =>
        Answer(r) = StatusOf(r, 200) \o StatusOf(r, 500)
  BY <1>f DEF FileAnswer, StatusOf
<1>6. q.method \in {"GET", "HEAD"} /\ q.target = "dir" => Answer(r) = StatusOf(r, 200)
  BY <1>f DEF FileAnswer, StatusOf
<1>7. q.method = "HEAD" /\ q.target = "file" => Answer(r) = StatusOf(r, 200)
  BY <1>f DEF FileAnswer, StatusOf
<1>8. q.method = "GET" /\ q.target = "file" =>
        Answer(r) = StatusOf(r, 200) \o FileBody(r) \o <<Token(r, "eof", 0)>>
  BY <1>f DEF FileAnswer, StatusOf, FileBody
<1> QED
  BY <1>0, <1>1, <1>2, <1>3, <1>4, <1>5, <1>6, <1>7, <1>8

LEMMA EndingConcat ==
  ASSUME NEW S, NEW r, NEW a \in Seq(S), NEW b \in Seq(S), Len(b) > 0,
         \A i \in 1 .. Len(a) : a[i].req = r /\ a[i] # b[Len(b)], Ending(r, b)
  PROVE  Ending(r, a \o b)
<1>1. /\ a \o b \in Seq(S) /\ Len(a \o b) = Len(a) + Len(b)
      /\ \A i \in 1 .. Len(a) + Len(b) :
           (a \o b)[i] = IF i <= Len(a) THEN a[i] ELSE b[i - Len(a)]
  BY ConcatProperties
<1>2. Len(a) \in Nat /\ Len(b) \in Nat
  BY LenProperties
<1>3. (a \o b)[Len(a) + Len(b)] = b[Len(b)]
  <2>1. /\ Len(a) + Len(b) \in 1 .. Len(a) + Len(b) /\ ~(Len(a) + Len(b) <= Len(a))
        /\ Len(a) + Len(b) - Len(a) = Len(b)
    BY <1>2
  <2> QED
    BY <1>1, <2>1
<1>4. ASSUME NEW i \in 1 .. Len(a) + Len(b)
      PROVE  /\ (a \o b)[i].req = r
             /\ i < Len(a) + Len(b) => (a \o b)[i] # b[Len(b)]
  <2>1. CASE i <= Len(a)
    <3>1. i \in 1 .. Len(a)
      BY <1>2, <2>1
    <3> QED
      BY <1>1, <2>1, <3>1
  <2>2. CASE ~(i <= Len(a))
    <3>1. i - Len(a) \in 1 .. Len(b) /\ (i < Len(a) + Len(b) => i - Len(a) < Len(b))
      BY <1>2, <2>2
    <3> QED
      BY <1>1, <2>2, <3>1 DEF Ending
  <2> QED
    BY <2>1, <2>2
<1> QED
  BY <1>1, <1>3, <1>4 DEF Ending

LEMMA StatusEnds ==
  ASSUME NEW r \in Asked(script), NEW code \in Int
  PROVE  Ending(r, StatusOf(r, code)) /\ Ending(r, <<Token(r, "head", code)>>)
<1>1. /\ Len(StatusOf(r, code)) = 2
      /\ StatusOf(r, code)[1] = Token(r, "head", code)
      /\ StatusOf(r, code)[2] = Token(r, "end", code)
  BY StatusType
<1>2. Token(r, "head", code) # Token(r, "end", code)
  BY DEF Token
<1>3. Token(r, "head", code).req = r /\ Token(r, "end", code).req = r
  BY DEF Token
<1>4. Ending(r, StatusOf(r, code))
  BY <1>1, <1>2, <1>3 DEF Ending
<1>5. Ending(r, <<Token(r, "head", code)>>)
  BY <1>3 DEF Ending
<1> QED
  BY <1>4, <1>5

\* A nonempty sequence of tokens of r that is known by its last one.
Sound(r, a) == a \in Seq(Piece(script)) /\ Len(a) > 0 /\ Ending(r, a)

LEMMA StatusSound ==
  ASSUME NEW r \in Asked(script), NEW code \in Int
  PROVE  Sound(r, StatusOf(r, code)) /\ Sound(r, <<Token(r, "head", code)>>)
<1>1. StatusOf(r, code) \in Seq(Piece(script)) /\ Len(StatusOf(r, code)) = 2
  BY StatusType
<1>2. <<Token(r, "head", code)>> \in Seq(Piece(script)) /\ Len(<<Token(r, "head", code)>>) = 1
  BY StatusType
<1>3. Ending(r, StatusOf(r, code)) /\ Ending(r, <<Token(r, "head", code)>>)
  BY StatusEnds
<1> QED
  BY <1>1, <1>2, <1>3 DEF Sound

\* The two answers in one for a path that cannot be opened (http.c:625).
LEMMA DeniedSound ==
  ASSUME NEW r \in Asked(script) PROVE Sound(r, StatusOf(r, 200) \o StatusOf(r, 500))
<1> DEFINE P == Piece(script)
           a == StatusOf(r, 200)
           b == StatusOf(r, 500)
<1>1. /\ a \in Seq(P) /\ Len(a) = 2
      /\ a[1] = Token(r, "head", 200) /\ a[2] = Token(r, "end", 200)
  BY StatusType
<1>2. b \in Seq(P) /\ Len(b) = 2 /\ b[2] = Token(r, "end", 500) /\ Ending(r, b)
  <2>1. b \in Seq(P) /\ Len(b) = 2 /\ b[2] = Token(r, "end", 500)
    BY StatusType
  <2>2. Ending(r, b)
    <3>1. 500 \in Int
      OBVIOUS
    <3> QED
      BY <3>1, StatusEnds, Zenon
  <2> QED
    BY <2>1, <2>2
<1>3. /\ Token(r, "head", 200).req = r /\ Token(r, "end", 200).req = r
      /\ Token(r, "head", 200) # Token(r, "end", 500)
      /\ Token(r, "end", 200) # Token(r, "end", 500)
  BY DEF Token
<1>4. Sound(r, a \o b) <=> a \o b \in Seq(P) /\ Len(a \o b) > 0 /\ Ending(r, a \o b)
  BY DEF Sound
<1> HIDE DEF a, b, P
<1>5. Len(b) > 0 /\ \A i \in 1 .. Len(a) : a[i].req = r /\ a[i] # b[Len(b)]
  BY <1>1, <1>2, <1>3
<1>6. Ending(r, a \o b)
  BY <1>1, <1>2, <1>5, EndingConcat
<1>7. a \o b \in Seq(P) /\ Len(a \o b) = Len(a) + Len(b)
  <2>1. a \in Seq(P) /\ b \in Seq(P)
    BY <1>1, <1>2
  <2> QED
    BY ONLY <2>1, ConcatProperties
<1>8. Sound(r, a \o b)
  BY <1>1, <1>2, <1>4, <1>6, <1>7
<1> QED
  BY <1>8 DEF a, b

\* A file behind its header.
LEMMA FileSound ==
  ASSUME NEW r \in Asked(script)
  PROVE  /\ Sound(r, StatusOf(r, 200) \o FileBody(r) \o <<Token(r, "eof", 0)>>)
         /\ StatusOf(r, 200) \o FileBody(r) \o <<Token(r, "eof", 0)>>
              = StatusOf(r, 200) \o FileStream(r)
<1> DEFINE P == Piece(script)
           a == StatusOf(r, 200)
           b == FileBody(r)
           e == <<Token(r, "eof", 0)>>
<1>1. /\ a \in Seq(P) /\ Len(a) = 2
      /\ a[1] = Token(r, "head", 200) /\ a[2] = Token(r, "end", 200)
  BY StatusType
<1>2. b \in Seq(P) /\ e \in Seq(P) /\ b \o e = FileStream(r)
  BY StreamOfFile
<1>3. Len(e) = 1 /\ e[1] = Token(r, "eof", 0)
  <2>1. Token(r, "eof", 0) \in P
    BY DEF Token, Piece
  <2> QED
    BY <2>1, ShortSeq
<1>4. Len(b) \in Nat /\ \A i \in 1 .. Len(b) : b[i] = Token(r, "body", i)
  <2>1. Len(b) \in Nat /\ DOMAIN b = 1 .. Len(b)
    BY <1>2, LenProperties
  <2> QED
    BY <2>1 DEF FileBody
<1>5. /\ \A i \in Int : Token(r, "body", i).req = r /\ Token(r, "body", i) # Token(r, "eof", 0)
      /\ Token(r, "head", 200).req = r /\ Token(r, "end", 200).req = r
      /\ Token(r, "head", 200) # Token(r, "eof", 0) /\ Token(r, "end", 200) # Token(r, "eof", 0)
      /\ Token(r, "eof", 0).req = r
  BY DEF Token
<1>6. \A x : Sound(r, x) <=> x \in Seq(P) /\ Len(x) > 0 /\ Ending(r, x)
  BY DEF Sound
<1> HIDE DEF a, b, e, P
<1>7. Ending(r, e)
  BY <1>3, <1>5 DEF Ending
<1>8. /\ b \o e \in Seq(P) /\ Len(b \o e) = Len(b) + 1
      /\ \A i \in 1 .. Len(b) + 1 : (b \o e)[i] = IF i <= Len(b) THEN b[i] ELSE e[i - Len(b)]
  <2>1. /\ b \o e \in Seq(P) /\ Len(b \o e) = Len(b) + Len(e)
        /\ \A i \in 1 .. Len(b) + Len(e) : (b \o e)[i] = IF i <= Len(b) THEN b[i] ELSE e[i - Len(b)]
    BY <1>2, ConcatProperties
  <2> QED
    BY <1>3, <2>1
<1>9. Ending(r, b \o e)
  <2>1. Len(e) > 0 /\ \A i \in 1 .. Len(b) : b[i].req = r /\ b[i] # e[Len(e)]
    BY <1>3, <1>4, <1>5
  <2> QED
    BY <1>2, <1>7, <2>1, EndingConcat
<1>10. (b \o e)[Len(b \o e)] = Token(r, "eof", 0)
  <2>1. Len(b) + 1 \in 1 .. Len(b) + 1 /\ ~(Len(b) + 1 <= Len(b)) /\ (Len(b) + 1) - Len(b) = 1
    BY <1>4
  <2> QED
    BY <1>3, <1>8, <2>1
<1>11. Sound(r, a \o (b \o e))
  <2>1. Len(b \o e) > 0
    BY <1>4, <1>8
  <2>2. \A i \in 1 .. Len(a) : a[i].req = r /\ a[i] # (b \o e)[Len(b \o e)]
    BY <1>1, <1>5, <1>10
  <2>3. Ending(r, a \o (b \o e))
    BY <1>1, <1>8, <1>9, <2>1, <2>2, EndingConcat
  <2>4. a \o (b \o e) \in Seq(P) /\ Len(a \o (b \o e)) = Len(a) + Len(b \o e)
    <3>1. a \in Seq(P) /\ b \o e \in Seq(P)
      BY <1>1, <1>8
    <3> QED
      BY ONLY <3>1, ConcatProperties
  <2>5. Len(a \o (b \o e)) > 0
    BY <1>1, <1>4, <1>8, <2>4
  <2> QED
    BY <1>6, <2>3, <2>4, <2>5
<1>12. a \o (b \o e) = (a \o b) \o e
  <2>1. a \in Seq(P) /\ b \in Seq(P) /\ e \in Seq(P)
    BY <1>1, <1>2
  <2> QED
    BY ONLY <2>1, ConcatAssociative, SMTT(30)
<1>13. Sound(r, (a \o b) \o e) /\ (a \o b) \o e = a \o FileStream(r)
  BY <1>2, <1>11, <1>12
<1> QED
  BY <1>13 DEF a, b, e

\* Every answer without a script's output ends with a token of its own.
LEMMA AnswerType ==
  ASSUME NEW r \in Asked(script), RequestOf(r) \in Request, RequestOf(r).target # "cgi"
  PROVE  /\ Answer(r) \in Seq(Piece(script)) /\ Ending(r, Answer(r))
         /\ RequestOf(r).method # "MALFORMED" => Len(Answer(r)) > 0
<1> DEFINE q == RequestOf(r)
<1>1. \A code \in Int : Sound(r, StatusOf(r, code)) /\ Sound(r, <<Token(r, "head", code)>>)
  BY StatusSound
<1>2. CASE q.method = "MALFORMED"
  <2>1. Answer(r) = <<>>
    BY <1>2, AnswerCases
  <2>2. <<>> \in Seq(Piece(script)) /\ Len(<<>>) = 0
    BY EmptySeq
  <2> QED
    BY <1>2, <2>1, <2>2 DEF Ending
<1>3. ASSUME q.method # "MALFORMED" PROVE Sound(r, Answer(r))
  <2>1. /\ q.method = "OTHER" => Answer(r) = StatusOf(r, 501)
        /\ q.method = "POST" /\ ~HasLength(q) => Answer(r) = StatusOf(r, 411)
        /\ q.method = "POST" /\ HasLength(q) /\ q.target # "cgi" =>
             Answer(r) = <<Token(r, "head", 200)>>
        /\ q.method \in {"GET", "HEAD"} /\ q.target = "missing" =>
             Answer(r) = StatusOf(r, 404)
        /\ q.method \in {"GET", "HEAD"} /\ q.target = "noperm" =>
             Answer(r) = StatusOf(r, 200) \o StatusOf(r, 500)
        /\ q.method \in {"GET", "HEAD"} /\ q.target = "dir" => Answer(r) = StatusOf(r, 200)
        /\ q.method = "HEAD" /\ q.target = "file" => Answer(r) = StatusOf(r, 200)
        /\ q.method = "GET" /\ q.target = "file" =>
             Answer(r) = StatusOf(r, 200) \o FileBody(r) \o <<Token(r, "eof", 0)>>
    BY AnswerCases
  <2>2. /\ q.method \in {"GET", "HEAD", "POST", "OTHER"}
        /\ q.target \in {"file", "missing", "dir", "noperm"}
    BY <1>3 DEF Request
  <2>3. Sound(r, StatusOf(r, 200) \o StatusOf(r, 500))
    BY DeniedSound
  <2>4. Sound(r, StatusOf(r, 200) \o FileBody(r) \o <<Token(r, "eof", 0)>>)
    BY FileSound
  <2>5. /\ Sound(r, StatusOf(r, 501)) /\ Sound(r, StatusOf(r, 411)) /\ Sound(r, StatusOf(r, 404))
        /\ Sound(r, StatusOf(r, 200)) /\ Sound(r, <<Token(r, "head", 200)>>)
    <3>1. 501 \in Int /\ 411 \in Int /\ 404 \in Int /\ 200 \in Int
      OBVIOUS
    <3> QED
      BY <1>1, <3>1, Zenon
  <2>6. CASE q.method = "OTHER"
    BY <2>1, <2>5, <2>6
  <2>7. CASE q.method = "POST"
    BY <2>1, <2>5, <2>7
  <2>8. CASE q.method = "HEAD"
    <3>1. CASE q.target = "noperm"
      BY <2>1, <2>3, <2>8, <3>1
    <3>2. CASE q.target # "noperm"
      <4>1. Answer(r) = StatusOf(r, 404) \/ Answer(r) = StatusOf(r, 200)
        BY <2>1, <2>2, <2>8, <3>2
      <4> QED
        BY <2>5, <4>1
    <3> QED
      BY <3>1, <3>2
  <2>9. CASE q.method = "GET"
    <3>1. CASE q.target = "noperm"
      BY <2>1, <2>3, <2>9, <3>1
    <3>2. CASE q.target = "file"
      BY <2>1, <2>4, <2>9, <3>2
    <3>3. CASE q.target \in {"missing", "dir"}
      <4>1. Answer(r) = StatusOf(r, 404) \/ Answer(r) = StatusOf(r, 200)
        BY <2>1, <2>9, <3>3
      <4> QED
        BY <2>5, <4>1
    <3> QED
      BY <2>2, <3>1, <3>2, <3>3
  <2> QED
    BY <2>2, <2>6, <2>7, <2>8, <2>9
<1>4. ASSUME Sound(r, Answer(r))
      PROVE  Answer(r) \in Seq(Piece(script)) /\ Ending(r, Answer(r)) /\ Len(Answer(r)) > 0
  BY <1>4 DEF Sound
<1> QED
  BY <1>2, <1>3, <1>4
-----------------------------------------------------------------------------
(* The answers to the first requests of a client.                          *)

\* Each request has an answer, whose last token tells that it is read.
Tells(sc, a) == \A r \in Asked(sc) : a[r] \in Seq(Piece(sc)) /\ Ending(r, a[r])

LEMMA RepliesTell ==
  ASSUME script \in [Client -> Seq(Request)], NoScripts(script)
  PROVE  Tells(script, Replies) /\ \A r \in Asked(script) : Replies[r] = Answer(r)
<1>1. ASSUME NEW r \in Asked(script)
      PROVE  Replies[r] = Answer(r) /\ Answer(r) \in Seq(Piece(script)) /\ Ending(r, Answer(r))
  <2>1. RequestOf(r) \in Request /\ RequestOf(r) = script[r[1]][r[2]]
    BY AskedRequest
  <2>2. RequestOf(r).target # "cgi"
    BY <2>1 DEF NoScripts
  <2>3. Answer(r) \in Seq(Piece(script)) /\ Ending(r, Answer(r))
    BY <2>1, <2>2, AnswerType
  <2>4. Replies[r] = Answer(r)
    BY DEF Replies
  <2> QED
    BY <2>3, <2>4
<1> QED
  BY <1>1 DEF Tells

LEMMA AskedOf ==
  ASSUME NEW sc, NEW c \in Client, NEW j \in 1 .. Len(sc[c]) PROVE <<c, j>> \in Asked(sc)
BY DEF Asked

LEMMA UpToNone ==
  ASSUME NEW a, NEW c PROVE UpTo(a, c, 0) = <<>>
<1> DEFINE s == [j \in 1 .. 0 |-> a[<<c, j>>]]
<1>1. s = <<>>
  OBVIOUS
<1>2. Len(<<>>) = 0
  BY EmptySeq
<1>3. UpTo(a, c, 0) = FlattenSeq(s)
  BY DEF UpTo
<1> HIDE DEF s
<1>4. Len(s) \in Nat /\ Len(s) = 0
  BY <1>1, <1>2
<1>5. FlattenSeq(s) = s
  BY <1>4, FlattenUnfold
<1> QED
  BY <1>1, <1>3, <1>5

LEMMA UpToNext ==
  ASSUME NEW sc, NEW a, Tells(sc, a), NEW c \in Client, NEW m \in 1 .. Len(sc[c]), Len(sc[c]) \in Nat
  PROVE  UpTo(a, c, m) = UpTo(a, c, m - 1) \o a[<<c, m>>]
<1> DEFINE v(j) == a[<<c, j>>]
           s == [j \in 1 .. m - 1 |-> v(j)]
           r == [j \in 1 .. m |-> v(j)]
           V == {v(j) : j \in 1 .. m}
<1>1. s \in Seq(V) /\ r \in Seq(V) /\ DOMAIN s = 1 .. m - 1 /\ DOMAIN r = 1 .. m
  <2>1. s \in [1 .. m - 1 -> V] /\ r \in [1 .. m -> V]
    OBVIOUS
  <2>2. m - 1 \in Nat /\ m \in Nat
    OBVIOUS
  <2> HIDE DEF s, r, V
  <2>3. s \in Seq(V) /\ r \in Seq(V)
    BY <2>1, <2>2, SeqDef
  <2> QED
    BY <2>1, <2>3
<1>2. Len(s) = m - 1 /\ Len(r) = m
  <2> HIDE DEF s, r, V
  <2>1. DOMAIN s = 1 .. Len(s) /\ Len(s) \in Nat /\ DOMAIN r = 1 .. Len(r) /\ Len(r) \in Nat
    BY <1>1, LenProperties
  <2> QED
    BY <1>1, <2>1
<1>3. \A i \in 1 .. m - 1 : s[i] = r[i]
  OBVIOUS
<1>4. r[m] = v(m) /\ v(m) \in Seq(Piece(sc))
  BY AskedOf DEF Tells
<1>5. UpTo(a, c, m) = FlattenSeq(r) /\ UpTo(a, c, m - 1) = FlattenSeq(s)
  BY DEF UpTo
<1>6. s = <<>> \/ Len(s) > 0
  <2>1. CASE m = 1
    BY <2>1
  <2>2. CASE m > 1
    BY <1>2, <2>2
  <2> QED
    BY <2>1, <2>2
<1> HIDE DEF s, r, V, v
<1>7. /\ Len(s) \in Nat /\ Len(r) = Len(s) + 1 /\ \A i \in 1 .. Len(s) : s[i] = r[i]
      /\ r[Len(r)] \in Seq(Piece(sc))
  BY <1>2, <1>3, <1>4
<1>8. FlattenSeq(r) = FlattenSeq(s) \o r[Len(r)]
  BY <1>6, <1>7, FlattenNext
<1>9. FlattenSeq(r) = FlattenSeq(s) \o v(m)
  BY <1>2, <1>4, <1>8
<1> QED
  BY <1>5, <1>9 DEF v

\* Every token in the answers to the first m requests is of one of them.
IsUpTo(sc, a, c, m) ==
  /\ UpTo(a, c, m) \in Seq(Piece(sc))
  /\ \A i \in 1 .. Len(UpTo(a, c, m)) :
       UpTo(a, c, m)[i].req[1] = c /\ UpTo(a, c, m)[i].req[2] \in 1 .. m

LEMMA UpToGrows ==
  ASSUME NEW sc, NEW a, Tells(sc, a), NEW c \in Client, NEW m \in 1 .. Len(sc[c]),
         Len(sc[c]) \in Nat, IsUpTo(sc, a, c, m - 1)
  PROVE  IsUpTo(sc, a, c, m) /\ IsPrefix(UpTo(a, c, m - 1), UpTo(a, c, m))
<1> DEFINE u == UpTo(a, c, m - 1)
           w == a[<<c, m>>]
           S == Piece(sc)
<1>1. UpTo(a, c, m) = u \o w
  BY UpToNext
<1>2. u \in Seq(S) /\ \A i \in 1 .. Len(u) : u[i].req[1] = c /\ u[i].req[2] \in 1 .. m - 1
  BY DEF IsUpTo
<1>3. w \in Seq(S) /\ \A i \in 1 .. Len(w) : w[i].req = <<c, m>>
  BY AskedOf DEF Tells, Ending
<1>4. IsUpTo(sc, a, c, m) <=>
        /\ u \o w \in Seq(S)
        /\ \A i \in 1 .. Len(u \o w) : (u \o w)[i].req[1] = c /\ (u \o w)[i].req[2] \in 1 .. m
  BY <1>1 DEF IsUpTo
<1> HIDE DEF u, w, S
<1>5. u \in Seq(S) /\ w \in Seq(S)
  BY <1>2, <1>3
<1>6. /\ u \o w \in Seq(S) /\ Len(u \o w) = Len(u) + Len(w)
      /\ \A i \in 1 .. Len(u) + Len(w) : (u \o w)[i] = IF i <= Len(u) THEN u[i] ELSE w[i - Len(u)]
  BY ONLY <1>5, ConcatProperties
<1>7. Len(u) \in Nat /\ Len(w) \in Nat
  BY ONLY <1>5, LenProperties
<1>8. ASSUME NEW i \in 1 .. Len(u) + Len(w)
      PROVE  (u \o w)[i].req[1] = c /\ (u \o w)[i].req[2] \in 1 .. m
  <2>1. CASE i <= Len(u)
    <3>1. i \in 1 .. Len(u) /\ (u \o w)[i] = u[i]
      BY <1>6, <1>7, <2>1
    <3> QED
      BY <1>2, <3>1
  <2>2. CASE ~(i <= Len(u))
    <3>1. i - Len(u) \in 1 .. Len(w) /\ (u \o w)[i] = w[i - Len(u)]
      BY <1>6, <1>7, <2>2
    <3> QED
      BY <1>3, <3>1
  <2> QED
    BY <2>1, <2>2
<1>9. IsPrefix(u, u \o w)
  BY ONLY <1>5, PrefixOfConcat
<1>10. IsUpTo(sc, a, c, m)
  BY <1>4, <1>6, <1>8
<1> QED
  BY <1>1, <1>9, <1>10 DEF u

LEMMA UpToType ==
  ASSUME NEW sc, NEW a, Tells(sc, a), NEW c \in Client, Len(sc[c]) \in Nat
  PROVE  \A m \in 0 .. Len(sc[c]) :
           IsUpTo(sc, a, c, m) /\ IsPrefix(UpTo(a, c, m), UpTo(a, c, Len(sc[c])))
<1> DEFINE n == Len(sc[c])
           good(m) == IsUpTo(sc, a, c, m)
           T == {m \in 0 .. n : good(m)}
<1>1. good(0)
  <2>1. UpTo(a, c, 0) = <<>> /\ <<>> \in Seq(Piece(sc)) /\ Len(<<>>) = 0
    BY UpToNone, EmptySeq
  <2> DEFINE u == UpTo(a, c, 0)
  <2>2. u \in Seq(Piece(sc)) /\ Len(u) = 0
    BY <2>1
  <2> HIDE DEF u
  <2>3. /\ u \in Seq(Piece(sc))
        /\ \A i \in 1 .. Len(u) : u[i].req[1] = c /\ u[i].req[2] \in 1 .. 0
    BY <2>2
  <2> QED
    BY <2>3 DEF IsUpTo, u
<1>2. ASSUME NEW i \in 0 .. n - 1, good(i) PROVE good(i + 1)
  <2>1. i + 1 \in 1 .. Len(sc[c]) /\ (i + 1) - 1 = i
    OBVIOUS
  <2> DEFINE j == i + 1
  <2>2. j \in 1 .. Len(sc[c]) /\ IsUpTo(sc, a, c, j - 1)
    BY <1>2, <2>1
  <2> HIDE DEF j
  <2>3. IsUpTo(sc, a, c, j)
    BY <2>2, UpToGrows
  <2> QED
    BY <2>3 DEF j
<1>3. \A m \in 0 .. n : good(m)
  <2>1. 0 \in T /\ \A i \in 0 .. n - 1 : i \in T => i + 1 \in T
    <3>1. 0 \in T
      BY <1>1
    <3>2. ASSUME NEW i \in 0 .. n - 1, i \in T PROVE i + 1 \in T
      <4> HIDE DEF good
      <4>1. good(i + 1) /\ i + 1 \in 0 .. n
        BY <1>2, <3>2
      <4> QED
        BY <4>1
    <3> QED
      BY <3>1, <3>2
  <2>2. \A m \in 0 .. n : m \in T
    <3> HIDE DEF T
    <3> QED
      BY <2>1, Climb
  <2> QED
    BY <2>2
<1>4. \A m \in 0 .. n : UpTo(a, c, m) \in Seq(Piece(sc))
  BY <1>3 DEF IsUpTo
<1> DEFINE ahead(m) == IsPrefix(UpTo(a, c, m), UpTo(a, c, n))
           U == {i \in 0 .. n : ahead(n - i)}
<1>5. \A i \in 0 .. n : i \in U
  <2>1. 0 \in U
    <3>1. n - 0 = n /\ UpTo(a, c, n) \in Seq(Piece(sc))
      BY <1>4
    <3> QED
      BY <3>1, PrefixSelf
  <2>2. ASSUME NEW i \in 0 .. n - 1, i \in U PROVE i + 1 \in U
    <3> DEFINE m == n - i
    <3>1. m \in 1 .. Len(sc[c]) /\ m - 1 = n - (i + 1) /\ m - 1 \in 0 .. n /\ m \in 0 .. n /\ n \in 0 .. n
      OBVIOUS
    <3>2. IsPrefix(UpTo(a, c, m), UpTo(a, c, n))
      BY <2>2
    <3> HIDE DEF m
    <3>3. IsUpTo(sc, a, c, m - 1)
      BY <1>3, <3>1
    <3>4. IsPrefix(UpTo(a, c, m - 1), UpTo(a, c, m))
      BY <3>1, <3>3, UpToGrows
    <3>5. UpTo(a, c, m - 1) \in Seq(Piece(sc)) /\ UpTo(a, c, m) \in Seq(Piece(sc))
          /\ UpTo(a, c, n) \in Seq(Piece(sc))
      BY <1>4, <3>1
    <3>6. IsPrefix(UpTo(a, c, m - 1), UpTo(a, c, n))
      BY ONLY <3>2, <3>4, <3>5, PrefixTransitive
    <3> QED
      BY <3>1, <3>6
  <2> HIDE DEF U
  <2> QED
    BY <2>1, <2>2, Climb
<1>6. ASSUME NEW m \in 0 .. n PROVE ahead(m)
  <2>1. n - m \in 0 .. n /\ n - (n - m) = m
    OBVIOUS
  <2>2. n - m \in U
    BY <1>5, <2>1
  <2>3. ahead(n - (n - m))
    BY <2>2
  <2> QED
    BY <2>1, <2>3
<1> QED
  BY <1>3, <1>6

\* A client that has read the last token of the last answer so far has read
\* all that was sent.
LEMMA HeardAll ==
  ASSUME NEW sc, NEW a, Tells(sc, a), NEW c \in Client, NEW m \in 1 .. Len(sc[c]),
         Len(sc[c]) \in Nat, NEW k, NEW b, k.got \in Seq(Piece(sc)), k.outq \in Seq(Piece(sc)),
         b \in Seq(Piece(sc)), Total(k, b) = UpTo(a, c, m), Heard(a, <<c, m>>, k)
  PROVE  k.outq = <<>> /\ b = <<>>
<1> DEFINE S == Piece(sc)
           u == UpTo(a, c, m - 1)
           w == a[<<c, m>>]
           g == k.got
           o == k.outq
<1>1. Total(k, b) = (g \o o) \o b
  BY DEF Total, Cat
<1>2. UpTo(a, c, m) = u \o w
  BY UpToNext
<1>3. u \in Seq(S) /\ \A i \in 1 .. Len(u) : u[i].req[2] \in 1 .. m - 1
  <2>1. m - 1 \in 0 .. Len(sc[c])
    OBVIOUS
  <2>2. IsUpTo(sc, a, c, m - 1)
    BY <2>1, UpToType
  <2> QED
    BY <2>2 DEF IsUpTo
<1>4. /\ w \in Seq(S) /\ \A i \in 1 .. Len(w) : w[i].req = <<c, m>>
      /\ \A i \in 1 .. Len(w) : i < Len(w) => w[i] # w[Len(w)]
  BY AskedOf DEF Tells, Ending
<1>5. w # <<>> /\ \E i \in 1 .. Len(g) : g[i] = w[Len(w)]
  BY DEF Heard
<1> HIDE DEF S, u, w, g, o
<1>6. u \in Seq(S) /\ w \in Seq(S)
  BY <1>3, <1>4
<1>7. g \in Seq(S) /\ o \in Seq(S) /\ b \in Seq(S)
  BY DEF g, o, S
<1>8. /\ Len(u \o w) = Len(u) + Len(w)
      /\ \A i \in 1 .. Len(u) + Len(w) : (u \o w)[i] = IF i <= Len(u) THEN u[i] ELSE w[i - Len(u)]
  BY ONLY <1>6, ConcatProperties
<1>9. Len(u) \in Nat /\ Len(w) \in Nat /\ Len(w) > 0
  <2>1. Len(u) \in Nat /\ Len(w) \in Nat
    BY ONLY <1>6, LenProperties
  <2>2. Len(w) # 0
    BY ONLY <1>5, <1>6, EmptySeq
  <2> QED
    BY <2>1, <2>2
<1>10. /\ g \o o \in Seq(S) /\ Len(g \o o) = Len(g) + Len(o)
       /\ \A i \in 1 .. Len(g) + Len(o) : (g \o o)[i] = IF i <= Len(g) THEN g[i] ELSE o[i - Len(g)]
  BY ONLY <1>7, ConcatProperties
<1>11. Len(g) \in Nat /\ Len(o) \in Nat /\ Len(b) \in Nat
  BY ONLY <1>7, LenProperties
<1> DEFINE h == g \o o
<1>12. h \in Seq(S) /\ b \in Seq(S)
  BY <1>7, <1>10
<1> HIDE DEF h
<1>13. /\ Len(h \o b) = Len(h) + Len(b)
       /\ \A i \in 1 .. Len(h) + Len(b) : (h \o b)[i] = IF i <= Len(h) THEN h[i] ELSE b[i - Len(h)]
  BY ONLY <1>12, ConcatProperties
<1>14. h \o b = u \o w
  BY <1>1, <1>2 DEF h, g, o
<1>15. Len(h) = Len(g) + Len(o) /\ \A i \in 1 .. Len(g) : h[i] = g[i]
  BY <1>10, <1>11 DEF h
<1>16. PICK i \in 1 .. Len(g) : g[i] = w[Len(w)]
  BY <1>5
<1>17. i \in 1 .. Len(u) + Len(w) /\ (u \o w)[i] = w[Len(w)]
  <2>1. i \in 1 .. Len(h) + Len(b) /\ i <= Len(h)
    BY <1>11, <1>15
  <2>2. (h \o b)[i] = g[i]
    BY <1>13, <1>15, <2>1
  <2>3. Len(h) + Len(b) = Len(u) + Len(w)
    BY <1>8, <1>13, <1>14
  <2> QED
    BY <1>14, <1>16, <2>1, <2>2, <2>3
<1>18. ~(i <= Len(u))
  <2>1. w[Len(w)].req = <<c, m>>
    BY <1>4, <1>9
  <2>2. ASSUME i <= Len(u) PROVE FALSE
    <3>1. i \in 1 .. Len(u) /\ (u \o w)[i] = u[i]
      BY <1>8, <1>9, <1>17, <2>2
    <3>2. u[i].req[2] = m
      BY <1>17, <2>1, <3>1
    <3>3. u[i].req[2] \in 1 .. m - 1
      BY <1>3, <3>1
    <3> QED
      BY <3>2, <3>3
  <2> QED
    BY <2>2
<1>19. i = Len(u) + Len(w)
  <2>1. i - Len(u) \in 1 .. Len(w) /\ (u \o w)[i] = w[i - Len(u)]
    BY <1>8, <1>9, <1>17, <1>18
  <2>2. ~(i - Len(u) < Len(w))
    BY <1>4, <1>17, <2>1
  <2> DEFINE x == Len(u)
             y == Len(w)
  <2>3. x \in Nat /\ y \in Nat /\ i \in Int /\ i - x \in 1 .. y /\ ~(i - x < y)
    BY <1>9, <1>11, <2>1, <2>2
  <2> HIDE DEF x, y
  <2>4. i = x + y
    BY ONLY <2>3
  <2> QED
    BY <2>4 DEF x, y
<1>20. Len(o) = 0 /\ Len(b) = 0
  BY <1>8, <1>11, <1>13, <1>14, <1>15, <1>19
<1>21. o = <<>> /\ b = <<>>
  BY ONLY <1>7, <1>20, EmptySeq
<1> QED
  BY <1>21 DEF o
-----------------------------------------------------------------------------
(* Steps, and what they leave of what is owed.                             *)

\* The rest of the invariant, for clients as in Orderly.
Able ==
  /\ Full /\ InputInv /\ FreeInv /\ OwnInv
  /\ Orderly(script)

LEMMA RepliesStay ==
  ASSUME script' = script PROVE Replies' = Replies
<1>1. ASSUME NEW r PROVE Answer(r)' = Answer(r)
  BY DEF Answer, FileAnswer, RequestOf, OutputLen
<1>2. Asked(script)' = Asked(script)
  OBVIOUS
<1> QED
  BY <1>1, <1>2 DEF Replies

LEMMA AbleTells ==
  ASSUME Able
  PROVE  /\ Tells(script, Replies) /\ script \in [Client -> Seq(Request)]
         /\ \A r \in Asked(script) : Replies[r] = Answer(r)
         /\ \A c \in Client : Len(script[c]) \in Nat
<1>1. script \in [Client -> Seq(Request)]
  BY DEF Able, Full, Typed, ScriptTyped
<1>2. NoScripts(script)
  BY DEF Able, Orderly
<1>3. \A c \in Client : Len(script[c]) \in Nat
  <2>1. ASSUME NEW c \in Client PROVE Len(script[c]) \in Nat
    <3>1. script[c] \in Seq(Request)
      BY <1>1
    <3> QED
      BY <3>1, LenProperties
  <2> QED
    BY <2>1
<1> QED
  BY <1>1, <1>2, <1>3, RepliesTell

\* The slot serves its client after the step.
NowServes(s) ==
  connection_list'[s].socket # NULL =>
    Serves(Replies, script, connection_list'[s], net'[connection_list'[s].socket])

\* Steps of one client at most, and of its slot.
LEMMA AnswerStep ==
  ASSUME Full, AnswerInv, script' = script, NEW c \in Client,
         \A d \in Client : d # c => net'[d] = net[d],
         Minds(Replies, script, c, net'[c]),
         \A s \in Slot : \/ connection_list'[s] = connection_list[s] /\ connection_list[s].socket # c
                         \/ NowServes(s)
  PROVE  AnswerInv'
<1>1. Replies' = Replies
  BY RepliesStay
<1>2. \A d \in Client : Minds(Replies, script, d, net'[d])
  BY DEF AnswerInv
<1>3. \A s \in Slot : NowServes(s)
  <2>1. ASSUME NEW s \in Slot, connection_list'[s] = connection_list[s],
               connection_list[s].socket # c
        PROVE  NowServes(s)
    <3>1. SlotServes(s)
      BY DEF AnswerInv
    <3>2. connection_list[s].socket \in Client \cup {NULL}
      BY DEF Full, IInv, SlotInv, Sockets
    <3> QED
      BY <2>1, <3>1, <3>2 DEF SlotServes, NowServes
  <2> QED
    BY <2>1
<1>4. \A s \in Slot : SlotServes(s)'
  BY <1>1, <1>3 DEF SlotServes, NowServes
<1>5. \A d \in Client : Minds(Replies, script, d, net[d])'
  BY <1>1, <1>2
<1> QED
  BY <1>4, <1>5 DEF AnswerInv

\* Nothing changes for the clients.
LEMMA AnswerStays ==
  ASSUME AnswerInv, UNCHANGED <<connection_list, script, net>> PROVE AnswerInv'
<1>1. Replies' = Replies
  BY RepliesStay
<1>2. \A s \in Slot : SlotServes(s)'
  BY <1>1 DEF AnswerInv, SlotServes
<1>3. \A d \in Client : Minds(Replies, script, d, net[d])'
  BY <1>1 DEF AnswerInv
<1> QED
  BY <1>2, <1>3 DEF AnswerInv

\* What is known of a slot that has a client, apart from what is owed.
LEMMA Serving ==
  ASSUME Able, AnswerInv, NEW s \in Slot, connection_list[s].socket # NULL
  PROVE  LET p == connection_list[s]
             t == p.http_task
             c == p.socket
             k == net[c]
             P == Seq(Piece(script))
         IN /\ c \in Client /\ k.conn = "open" /\ Len(script[c]) \in Nat
            /\ k.got \in P /\ k.outq \in P /\ p.sending_buffer \in P
            /\ Len(p.sending_buffer) <= BUF_DATA_MAXSIZE
            /\ Total(k, p.sending_buffer) \in P
            /\ TaskTyped(script, t) /\ t.state \in States \ {"PROCESSING_CGI"}
            /\ t.own # None => /\ t.own[2] \in 1 .. Len(script[c]) /\ t.own = <<c, t.own[2]>>
                               /\ t.own \in Asked(script)
            /\ Minds(Replies, script, c, k)
            /\ Serves(Replies, script, p, k)
<1> DEFINE p == connection_list[s]
           t == p.http_task
           c == p.socket
           k == net[c]
           P == Seq(Piece(script))
<1>0. Full /\ InputInv /\ FreeInv
  BY DEF Able
<1>1. /\ c \in Client /\ k.conn = "open" /\ Len(script[c]) \in Nat
      /\ t.own # None => /\ t.own[2] \in 1 .. Len(script[c]) /\ t.own = <<c, t.own[2]>>
                         /\ t.own \in Asked(script)
  BY <1>0, SlotOfClient
<1>2. Minds(Replies, script, c, k) /\ Serves(Replies, script, p, k)
  BY <1>1 DEF AnswerInv, SlotServes
<1>3. k.got \in P
  BY <1>2 DEF Minds
<1>4. k.outq \in P
  BY <1>0, <1>1 DEF Full, Typed, NetTyped
<1>5. /\ p.sending_buffer \in P /\ Len(p.sending_buffer) <= BUF_DATA_MAXSIZE
      /\ TaskTyped(script, t)
  BY <1>0 DEF Full, Typed, SlotsTyped, SlotTyped
<1>6. t.state \in States \ {"PROCESSING_CGI"}
  BY <1>0, <1>5 DEF FreeInv, TaskTyped
<1>7. Total(k, p.sending_buffer) \in P
  <2> DEFINE g == k.got
             o == k.outq
             b == p.sending_buffer
             S == Piece(script)
  <2>1. g \in Seq(S) /\ o \in Seq(S) /\ b \in Seq(S)
    BY <1>3, <1>4, <1>5
  <2> HIDE DEF g, o, b, S
  <2>2. g \o o \o b \in Seq(S)
    BY ONLY <2>1, Joined
  <2> QED
    BY <2>2 DEF Total, Cat, g, o, b, S
<1> QED
  BY <1>1, <1>2, <1>3, <1>4, <1>5, <1>6, <1>7

\* What is left of a file can be sent.
LEMMA FileRestType ==
  ASSUME NEW r \in Asked(script), NEW n \in 0 .. FileLen + 1
  PROVE  FileRest(script, r, n) \in Seq(Piece(script))
<1>1. FileStream(r) \in Seq(Piece(script)) /\ Len(FileStream(r)) = FileLen + 1
  BY FileType
<1>2. <<>> \in Seq(Piece(script))
  BY EmptySeq
<1>3. n \in 0 .. Len(FileStream(r))
  BY <1>1
<1>4. Drop(FileStream(r), n) \in Seq(Piece(script))
  BY <1>1, <1>3, DropType
<1> QED
  BY <1>2, <1>4 DEF FileRest

\* What a client gets while its task has a request: the answers up to this one, or
\* a beginning of them.
LEMMA OwnPrefix ==
  ASSUME Able, AnswerInv, NEW s \in Slot, connection_list[s].socket # NULL,
         net[connection_list[s].socket].st # "gone",
         connection_list[s].http_task.state # "RECV_HEADER_STATE"
  PROVE  LET p == connection_list[s]
             c == p.socket
             m == p.http_task.own[2]
         IN /\ m \in 1 .. Len(script[c])
            /\ IsPrefix(Total(net[c], p.sending_buffer), UpTo(Replies, c, m))
<1> DEFINE p == connection_list[s]
           t == p.http_task
           c == p.socket
           k == net[c]
           n == Len(script[c])
           x == Total(k, p.sending_buffer)
           a == Replies
           m == t.own[2]
           u == UpTo(a, c, m)
           S == Piece(script)
<1>1. /\ c \in Client /\ n \in Nat /\ x \in Seq(S)
      /\ TaskTyped(script, t) /\ t.state \in States \ {"PROCESSING_CGI"}
      /\ t.own # None => /\ m \in 1 .. n /\ t.own = <<c, m>>
                         /\ t.own \in Asked(script)
  BY Serving
<1>2. t.own # None /\ Pays(a, script, t, p.sending_buffer, x)
  <2>1. Serves(a, script, p, k)
    BY Serving
  <2> QED
    BY <2>1 DEF Serves, Owes
<1>3. m \in 1 .. n /\ t.own = <<c, m>> /\ t.own \in Asked(script) /\ t.own[1] = c
  BY <1>1, <1>2
<1>4. Tells(script, a)
  BY AbleTells
<1>5. IsUpTo(script, a, c, m - 1)
  BY <1>1, <1>3, <1>4, UpToType
<1>6. u \in Seq(S) /\ IsPrefix(UpTo(a, c, m - 1), u)
  <2>1. IsUpTo(script, a, c, m) /\ IsPrefix(UpTo(a, c, m - 1), UpTo(a, c, m))
    BY <1>1, <1>3, <1>4, <1>5, UpToGrows
  <2> QED
    BY <2>1 DEF IsUpTo
<1>7. CASE t.state = "FINISHED_STATE"
  <2>1. x = u
    BY <1>2, <1>3, <1>7 DEF Pays
  <2>2. IsPrefix(u, u)
    BY <1>6, PrefixSelf
  <2> QED
    BY <1>3, <2>1, <2>2
<1>8. CASE t.state \in BeforeAnswer
  <2>1. x = UpTo(a, c, m - 1)
    BY <1>2, <1>3, <1>8 DEF Pays
  <2> QED
    BY <1>3, <1>6, <2>1
<1>9. CASE t.state = "SEND_BODY_STATE"
  <2> DEFINE y == FileRest(script, t.own, t.fp.pos)
  <2>1. x \o y = u
    BY <1>2, <1>3, <1>9 DEF Pays
  <2>2. t.fp.pos \in 0 .. FileLen + 1
    BY <1>1, <1>9 DEF TaskTyped, SendsFile
  <2>3. y \in Seq(S)
    BY <1>3, <2>2, FileRestType
  <2> HIDE DEF y, x, S
  <2>4. x \in Seq(S) /\ y \in Seq(S)
    BY <1>1, <2>3
  <2>5. IsPrefix(x, x \o y)
    BY ONLY <2>4, PrefixOfConcat
  <2> QED
    BY <1>3, <2>1, <2>5 DEF x
<1> QED
  BY <1>1, <1>7, <1>8, <1>9 DEF States, BeforeAnswer, TakesBody

\* What a client gets is always a beginning of its answers.
LEMMA OwedPrefix ==
  ASSUME Able, AnswerInv, NEW s \in Slot, connection_list[s].socket # NULL,
         net[connection_list[s].socket].st # "gone"
  PROVE  LET p == connection_list[s]
             c == p.socket
         IN IsPrefix(Total(net[c], p.sending_buffer), UpTo(Replies, c, Len(script[c])))
<1> DEFINE p == connection_list[s]
           t == p.http_task
           c == p.socket
           n == Len(script[c])
           x == Total(net[c], p.sending_buffer)
           u(j) == UpTo(Replies, c, j)
           S == Piece(script)
<1>1. /\ c \in Client /\ n \in Nat /\ x \in Seq(S) /\ Serves(Replies, script, p, net[c])
  BY Serving
<1>2. \A j \in 0 .. n : u(j) \in Seq(S) /\ IsPrefix(u(j), u(n))
  <2>1. Tells(script, Replies)
    BY AbleTells
  <2>2. \A j \in 0 .. n : IsUpTo(script, Replies, c, j) /\ IsPrefix(u(j), u(n))
    BY <1>1, <2>1, UpToType
  <2> QED
    BY <2>2 DEF IsUpTo
<1>3. CASE t.state = "RECV_HEADER_STATE"
  <2>1. \E j \in 0 .. n : x = u(j)
    BY <1>1, <1>3 DEF Serves, Owes
  <2> QED
    BY <1>2, <2>1
<1>4. CASE t.state # "RECV_HEADER_STATE"
  <2> DEFINE m == t.own[2]
             y == u(m)
             z == u(n)
  <2>1. m \in 1 .. n /\ IsPrefix(x, y)
    BY <1>4, OwnPrefix
  <2>2. m \in 0 .. n /\ n \in 0 .. n
    BY <1>1, <2>1
  <2>3. /\ x \in Seq(S) /\ y \in Seq(S) /\ z \in Seq(S)
        /\ IsPrefix(x, y) /\ IsPrefix(y, z)
    BY <1>1, <1>2, <2>1, <2>2
  <2> HIDE DEF x, y, z, S
  <2>4. IsPrefix(x, z)
    BY ONLY <2>3, PrefixTransitive
  <2> QED
    BY <2>4 DEF x, z
<1> QED
  BY <1>3, <1>4
-----------------------------------------------------------------------------
(* Steps of the event loop.                                                *)

LEMMA SentOn ==
  ASSUME NEW S, NEW g \in Seq(S), NEW o \in Seq(S), NEW b \in Seq(S), NEW n \in 0 .. Len(b)
  PROVE  /\ Cat(Cat(g, o \o Take(b, n)), Drop(b, n)) = Cat(Cat(g, o), b)
         /\ IsPrefix(Cat(g, o \o Take(b, n)), Cat(Cat(g, o), b))
         /\ Cat(g, o \o Take(b, n)) \in Seq(S)
         /\ IsPrefix(Cat(g, o), Cat(g, o \o Take(b, n)))
<1> DEFINE w == Take(b, n)
           x == o \o w
           y == Drop(b, n)
<1>1. x \in Seq(S) /\ y \in Seq(S) /\ Cat(Cat(g, x), y) = Cat(Cat(g, o), b)
  BY GivenOn
<1>8. IsPrefix(Cat(g, o), Cat(g, x))
  <2>1. w \in Seq(S)
    BY TakeType
  <2> HIDE DEF w
  <2>2. g \o o \in Seq(S)
    BY ONLY g \in Seq(S), o \in Seq(S), ConcatProperties
  <2>3. (g \o o) \o w = g \o (o \o w)
    BY ONLY g \in Seq(S), o \in Seq(S), <2>1, ConcatAssociative, SMTT(30)
  <2> DEFINE z == g \o o
  <2> HIDE DEF z
  <2>4. z \in Seq(S) /\ w \in Seq(S)
    BY <2>1, <2>2 DEF z
  <2>5. IsPrefix(z, z \o w)
    BY ONLY <2>4, PrefixOfConcat
  <2> QED
    BY <2>3, <2>5 DEF Cat, z
<1> HIDE DEF x, y, w
<1>2. g \in Seq(S) /\ x \in Seq(S) /\ y \in Seq(S)
  BY <1>1
<1>3. g \o x \in Seq(S)
  BY ONLY <1>2, ConcatProperties
<1> DEFINE z == g \o x
<1> HIDE DEF z
<1>4. z \in Seq(S) /\ y \in Seq(S)
  BY <1>2, <1>3 DEF z
<1>5. IsPrefix(z, z \o y)
  BY ONLY <1>4, PrefixOfConcat
<1>6. Cat(g, x) = z
  BY DEF Cat, z
<1>7. Cat(Cat(g, x), y) = z \o y
  BY <1>6 DEF Cat
<1> QED
  BY <1>1, <1>4, <1>5, <1>6, <1>7, <1>8 DEF x, y, w

\* What a kernel k has of the client of the current slot when its connection is
\* closed is a beginning of what the client was going to get.
Halts(k, c, b) ==
  /\ DOMAIN k = Client /\ DOMAIN k[c] = NetFields
  /\ \A d \in Client : d # c => k[d] = net[d]
  /\ k[c].st = net[c].st /\ k[c].got = net[c].got /\ k[c].next = net[c].next
  /\ k[c].st # "gone" =>
       /\ Cat(k[c].got, k[c].outq) \in Seq(Piece(script))
       /\ IsPrefix(Cat(k[c].got, k[c].outq), Total(net[c], b))
       /\ IsPrefix(Cat(net[c].got, net[c].outq), Cat(k[c].got, k[c].outq))

LEMMA CloseAnswers ==
  ASSUME Able, AnswerInv, Me.socket # NULL, NEW k, Halts(k, Me.socket, Me.sending_buffer),
         close_client_connection(cur, k), script' = script
  PROVE  AnswerInv'
<1> DEFINE c == Me.socket
           n == Len(script[c])
           x == Total(net[c], Me.sending_buffer)
<1>0. Full
  BY DEF Able
<1>1. /\ cur \in Slot /\ DOMAIN connection_list = Slot /\ Me = connection_list[cur]
      /\ DOMAIN Me = PeerFields
  BY <1>0, CurrentTyped
<1>2. /\ c \in Client /\ n \in Nat /\ x \in Seq(Piece(script))
      /\ Minds(Replies, script, c, net[c])
  BY <1>1, Serving
<1>3. net' = [k EXCEPT ![c].conn = "closed", ![c].inq = <<>>]
  BY <1>1 DEF close_client_connection, Peer, NO_SOCKET
<1>4. /\ \A d \in Client : d # c => net'[d] = net[d]
      /\ net'[c].conn = "closed" /\ net'[c].st = net[c].st /\ net'[c].got = net[c].got
      /\ net'[c].next = net[c].next /\ net'[c].outq = k[c].outq
  BY <1>2, <1>3 DEF Halts, NetFields
<1>5. net'[c].st # "gone" => IsPrefix(Cat(net'[c].got, net'[c].outq), UpTo(Replies, c, n))
  <2> SUFFICES ASSUME net'[c].st # "gone"
               PROVE  IsPrefix(Cat(net'[c].got, net'[c].outq), UpTo(Replies, c, n))
    OBVIOUS
  <2>1. IsPrefix(x, UpTo(Replies, c, n))
    BY <1>1, <1>4, OwedPrefix
  <2>2. UpTo(Replies, c, n) \in Seq(Piece(script))
    <3>1. Tells(script, Replies) /\ n \in 0 .. n
      BY <1>2, AbleTells
    <3>2. IsUpTo(script, Replies, c, n)
      BY <1>2, <3>1, UpToType
    <3> QED
      BY <3>2 DEF IsUpTo
  <2> DEFINE z == Cat(net'[c].got, net'[c].outq)
             u == UpTo(Replies, c, n)
  <2>3. z \in Seq(Piece(script)) /\ IsPrefix(z, x)
    <3>1. k[c].st # "gone" /\ k[c].got = net'[c].got /\ k[c].outq = net'[c].outq
      BY <1>4 DEF Halts
    <3> QED
      BY <3>1 DEF Halts
  <2> HIDE DEF z, u, x
  <2>4. /\ z \in Seq(Piece(script)) /\ x \in Seq(Piece(script)) /\ u \in Seq(Piece(script))
        /\ IsPrefix(z, x) /\ IsPrefix(x, u)
    BY <1>2, <2>1, <2>2, <2>3 DEF u
  <2>5. IsPrefix(z, u)
    BY ONLY <2>4, PrefixTransitive
  <2> QED
    BY <2>5 DEF z, u
<1>6. Minds(Replies, script, c, net'[c])
  <2>1. \A r : Heard(Replies, r, net'[c]) <=> Heard(Replies, r, net[c])
    BY <1>4 DEF Heard
  <2>2. Waits(Replies, script, c, net'[c])
    BY <1>2, <1>4, <2>1 DEF Minds, Waits
  <2>3. Outside(Replies, script, c, net'[c])
    BY <1>4, <1>5 DEF Outside
  <2> QED
    BY <1>2, <1>4, <2>2, <2>3 DEF Minds
<1>7. connection_list' = [connection_list EXCEPT ![cur] = Vacated(@)]
  BY DEF close_client_connection
<1>8. ASSUME NEW s \in Slot
      PROVE  \/ connection_list'[s] = connection_list[s] /\ connection_list[s].socket # c
             \/ NowServes(s)
  <2>1. CASE s = cur
    <3>1. connection_list'[s].socket = NULL
      BY <1>1, <1>7, <2>1 DEF Vacated, PeerFields, NO_SOCKET
    <3> QED
      BY <3>1 DEF NowServes
  <2>2. CASE s # cur
    <3>1. connection_list[cur].socket # connection_list[s].socket
      BY <1>0, <1>1, <2>2, TwoClients
    <3> QED
      BY <1>1, <1>7, <2>2, <3>1
  <2> QED
    BY <2>1, <2>2
<1> QED
  BY <1>0, <1>2, <1>4, <1>6, <1>8, AnswerStep

LEMMA NetHalts ==
  ASSUME Able, AnswerInv, Me.socket # NULL PROVE Halts(net, Me.socket, Me.sending_buffer)
<1> DEFINE c == Me.socket
           b == Me.sending_buffer
           g == net[c].got
           o == net[c].outq
           S == Piece(script)
<1>0. Full
  BY DEF Able
<1>1. cur \in Slot /\ Me = connection_list[cur]
  BY <1>0, CurrentTyped
<1>2. c \in Client /\ g \in Seq(S) /\ o \in Seq(S) /\ b \in Seq(S)
  BY <1>1, Serving
<1>3. DOMAIN net = Client /\ DOMAIN net[c] = NetFields
  BY <1>0, <1>2 DEF Full, IInv, SlotInv, Shape
<1>4. Total(net[c], b) = (g \o o) \o b /\ Cat(g, o) = g \o o
  BY DEF Total, Cat
<1> DEFINE z == g \o o
<1>5. z \in Seq(S) /\ IsPrefix(z, z \o b) /\ IsPrefix(z, z)
  <2> HIDE DEF g, o, b, S
  <2>1. g \o o \in Seq(S)
    BY ONLY <1>2, ConcatProperties
  <2> HIDE DEF z
  <2>2. z \in Seq(S) /\ b \in Seq(S)
    BY <1>2, <2>1 DEF z
  <2> QED
    BY ONLY <2>2, PrefixOfConcat, PrefixSelf
<1> QED
  BY <1>3, <1>4, <1>5 DEF Halts

\* What send leaves and what it has sent.
LEMMA SentByKernelIs ==
  ASSUME Able, AnswerInv, Me.socket # NULL
  PROVE  LET c == Me.socket
             h == SentByKernel[c]
         IN /\ DOMAIN SentByKernel = Client /\ DOMAIN h = NetFields
            /\ \A d \in Client : d # c => SentByKernel[d] = net[d]
            /\ h.st = net[c].st /\ h.got = net[c].got /\ h.next = net[c].next
            /\ h.inq = net[c].inq /\ h.conn = net[c].conn
            /\ net[c].st # "gone" => h.outq = net[c].outq \o Take(Me.sending_buffer, Taken)
            /\ Taken \in 0 .. Len(Me.sending_buffer)
<1> DEFINE c == Me.socket
<1>0. Full
  BY DEF Able
<1>1. cur \in Slot /\ Me = connection_list[cur]
  BY <1>0, CurrentTyped
<1>2. c \in Client
  BY <1>1, Serving
<1>3. DOMAIN net = Client /\ DOMAIN net[c] = NetFields
  BY <1>0, <1>2 DEF Full, IInv, SlotInv, Shape
<1>4. Taken \in 0 .. Len(Me.sending_buffer)
  BY <1>0, TakenType
<1>5. CASE net[c].st = "gone"
  BY <1>3, <1>4, <1>5 DEF SentByKernel
<1>6. CASE net[c].st # "gone"
  <2>1. SentByKernel = [net EXCEPT ![c].outq = @ \o Take(Me.sending_buffer, Taken)]
    BY <1>6 DEF SentByKernel
  <2> QED
    BY <1>2, <1>3, <1>4, <1>6, <2>1 DEF NetFields
<1> QED
  BY <1>5, <1>6

LEMMA SentHalts ==
  ASSUME Able, AnswerInv, Me.socket # NULL
  PROVE  Halts(SentByKernel, Me.socket, Me.sending_buffer)
<1> DEFINE c == Me.socket
           b == Me.sending_buffer
           h == SentByKernel[c]
           g == net[c].got
           o == net[c].outq
           n == Taken
           S == Piece(script)
<1>1. cur \in Slot /\ Me = connection_list[cur]
  BY CurrentTyped DEF Able
<1>2. c \in Client /\ g \in Seq(S) /\ o \in Seq(S) /\ b \in Seq(S)
  BY <1>1, Serving
<1>3. /\ DOMAIN SentByKernel = Client /\ DOMAIN h = NetFields
      /\ \A d \in Client : d # c => SentByKernel[d] = net[d]
      /\ h.st = net[c].st /\ h.got = g /\ h.next = net[c].next
      /\ net[c].st # "gone" => h.outq = o \o Take(b, n)
      /\ n \in 0 .. Len(b)
  BY SentByKernelIs
<1>4. /\ IsPrefix(Cat(g, o \o Take(b, n)), Cat(Cat(g, o), b))
      /\ Cat(g, o \o Take(b, n)) \in Seq(S)
      /\ IsPrefix(Cat(g, o), Cat(g, o \o Take(b, n)))
  <2> HIDE DEF g, o, b, n, S
  <2>1. g \in Seq(S) /\ o \in Seq(S) /\ b \in Seq(S) /\ n \in 0 .. Len(b)
    BY <1>2, <1>3
  <2> QED
    BY ONLY <2>1, SentOn
<1> DEFINE z == Cat(h.got, h.outq)
<1>5. h.st # "gone" => /\ z \in Seq(S) /\ IsPrefix(z, Total(net[c], b))
                       /\ IsPrefix(Cat(g, o), z)
  <2> SUFFICES ASSUME h.st # "gone"
               PROVE  z \in Seq(S) /\ IsPrefix(z, Total(net[c], b)) /\ IsPrefix(Cat(g, o), z)
    OBVIOUS
  <2>1. h.outq = o \o Take(b, n) /\ h.got = g
    BY <1>3
  <2> HIDE DEF h
  <2> QED
    BY <1>4, <2>1 DEF Total
<1> QED
  BY <1>3, <1>5 DEF Halts

\* The current slot sends what fits into the kernel.
LEMMA SendAnswers ==
  ASSUME Able, AnswerInv, Send PROVE AnswerInv'
<1> DEFINE c == Me.socket
           b == Me.sending_buffer
           t == Me.http_task
           r == Me.receiving_buffer
           h == SentByKernel[c]
           g == net[c].got
           o == net[c].outq
           n == Taken
           S == Piece(script)
<1>0. Full /\ script' = script
  BY DEF Able, Send
<1>1. /\ cur \in Slot /\ Me = connection_list[cur] /\ DOMAIN connection_list = Slot
      /\ DOMAIN Me = PeerFields
  BY <1>0, CurrentTyped
<1>2. c # NULL
  BY <1>0, <1>1 DEF Send, Full, Typed, Control
<1>3. CASE ~Sends
  <2>1. UNCHANGED <<connection_list, net>>
    BY <1>3 DEF Send
  <2> QED
    BY <1>0, <2>1, AnswerStays
<1>4. CASE Sends
  <2>1. connection_list' = [connection_list EXCEPT ![cur].sending_buffer = Drop(@, Taken)]
    BY <1>4 DEF Send, SendToPeer
  <2>2. net' = SentByKernel
    BY <1>4 DEF Send, SendToPeer
  <2>3. /\ c \in Client /\ g \in Seq(S) /\ o \in Seq(S) /\ b \in Seq(S)
        /\ Minds(Replies, script, c, net[c]) /\ Serves(Replies, script, Me, net[c])
        /\ net[c].conn = "open"
    BY <1>1, <1>2, Serving
  <2>4. /\ \A d \in Client : d # c => SentByKernel[d] = net[d]
        /\ h.st = net[c].st /\ h.got = g /\ h.next = net[c].next
        /\ h.inq = net[c].inq /\ h.conn = net[c].conn
        /\ net[c].st # "gone" => h.outq = o \o Take(b, n)
        /\ n \in 0 .. Len(b)
    BY <1>2, SentByKernelIs
  <2>5. Cat(Cat(g, o \o Take(b, n)), Drop(b, n)) = Cat(Cat(g, o), b)
    <3> HIDE DEF g, o, b, n, S
    <3>1. g \in Seq(S) /\ o \in Seq(S) /\ b \in Seq(S) /\ n \in 0 .. Len(b)
      BY <2>3, <2>4
    <3> QED
      BY ONLY <3>1, SentOn
  <2>6. Minds(Replies, script, c, h)
    <3> HIDE DEF h
    <3>1. \A x : Heard(Replies, x, h) <=> Heard(Replies, x, net[c])
      BY <2>4 DEF Heard
    <3>2. Waits(Replies, script, c, h)
      BY <2>3, <2>4, <3>1 DEF Minds, Waits
    <3>3. Outside(Replies, script, c, h)
      BY <2>3, <2>4 DEF Outside
    <3> QED
      BY <2>3, <2>4, <3>2, <3>3 DEF Minds
  <2>7. /\ connection_list'[cur].socket = c /\ connection_list'[cur].http_task = t
        /\ connection_list'[cur].receiving_buffer = r
        /\ connection_list'[cur].sending_buffer = Drop(b, n)
    BY <1>1, <2>1 DEF PeerFields
  <2>8. NowServes(cur)
    <3> SUFFICES ASSUME h.st # "gone"
                 PROVE  Owes(Replies, script, c, t, Drop(b, n), Total(h, Drop(b, n)),
                             From(h, Unread(t, r, h.inq)))
      BY <2>2, <2>7 DEF NowServes, Serves
    <3>1. Total(h, Drop(b, n)) = Total(net[c], b)
      BY <2>4, <2>5 DEF Total
    <3>2. From(h, Unread(t, r, h.inq)) = From(net[c], Unread(t, r, net[c].inq))
      BY <2>4 DEF From
    <3>3. Owes(Replies, script, c, t, b, Total(net[c], b), From(net[c], Unread(t, r, net[c].inq)))
      BY <2>3, <2>4 DEF Serves
    <3>4. b = <<>> => Drop(b, n) = <<>>
      <4>1. ASSUME b = <<>> PROVE n = 0
        BY <2>4, <4>1, EmptySeq
      <4> QED
        BY <2>3, <4>1, DropNone
    <3> DEFINE x == Total(net[c], b)
               f == From(net[c], Unread(t, r, net[c].inq))
               d == Drop(b, n)
    <3> HIDE DEF x, f, d, b, t, n
    <3>5. Owes(Replies, script, c, t, b, x, f) /\ (b = <<>> => d = <<>>)
      BY <3>3, <3>4 DEF x, f, d
    <3>6. Owes(Replies, script, c, t, d, x, f)
      BY <3>5 DEF Owes, Pays
    <3> QED
      BY <3>1, <3>2, <3>6 DEF x, f, d
  <2>9. ASSUME NEW s \in Slot, s # cur
        PROVE  connection_list'[s] = connection_list[s] /\ connection_list[s].socket # c
    <3>1. connection_list[cur].socket # connection_list[s].socket
      BY <1>0, <1>1, <1>2, <2>9, TwoClients
    <3> QED
      BY <1>1, <2>1, <2>9, <3>1
  <2>10. \A d \in Client : d # c => net'[d] = net[d]
    BY <2>2, <2>4
  <2>11. Minds(Replies, script, c, net'[c])
    BY <2>2, <2>6
  <2> QED
    BY <1>0, <2>3, <2>8, <2>9, <2>10, <2>11, AnswerStep
<1> QED
  BY <1>3, <1>4
\* What a client has got and what the kernel holds for it.
LEMMA GotPrefix ==
  ASSUME Able, AnswerInv, NEW c \in Client, net[c].st # "gone"
  PROVE  IsPrefix(Cat(net[c].got, net[c].outq), UpTo(Replies, c, Len(script[c])))
<1> DEFINE k == net[c]
           n == Len(script[c])
           u == UpTo(Replies, c, n)
           z == Cat(k.got, k.outq)
<1>0. Full
  BY DEF Able
<1>1. Outside(Replies, script, c, k) /\ n \in Nat /\ Tells(script, Replies)
  BY AbleTells DEF AnswerInv, Minds
<1>2. \A m \in 0 .. n : IsUpTo(script, Replies, c, m) /\ IsPrefix(UpTo(Replies, c, m), u)
  BY <1>1, UpToType
<1>3. CASE k.conn = "none"
  <2>1. k.got = <<>> /\ k.outq = <<>>
    BY <1>1, <1>3 DEF Outside
  <2>2. <<>> \o <<>> = <<>>
    BY EmptySeq, ConcatEmptySeq
  <2>3. z = UpTo(Replies, c, 0)
    BY <2>1, <2>2, UpToNone DEF Cat
  <2>4. 0 \in 0 .. n
    BY <1>1
  <2> QED
    BY <1>2, <2>3, <2>4
<1>4. CASE k.conn = "open"
  <2>1. PICK s \in Slot : connection_list[s].socket = c
    BY <1>0, <1>4 DEF Full, IInv, SlotInv, SlotsMatchConnections, Peer
  <2>2. c # NULL
    BY StateAssumption
  <2> DEFINE g == k.got
             o == k.outq
             b == connection_list[s].sending_buffer
             S == Piece(script)
             x == Total(k, b)
  <2>3. g \in Seq(S) /\ o \in Seq(S) /\ b \in Seq(S) /\ x \in Seq(S)
    BY <2>1, <2>2, Serving
  <2>4. IsPrefix(x, u)
    BY <2>1, <2>2, OwedPrefix
  <2>5. z = g \o o /\ x = (g \o o) \o b
    BY DEF Total, Cat
  <2>6. z \in Seq(S)
    <3> HIDE DEF g, o, b, S, z, x
    <3>1. g \in Seq(S) /\ o \in Seq(S)
      BY <2>3
    <3>2. g \o o \in Seq(S)
      BY ONLY <3>1, ConcatProperties
    <3> QED
      BY <2>5, <3>2
  <2>7. n \in 0 .. n
    BY <1>1
  <2>8. u \in Seq(S)
    BY <1>2, <2>7 DEF IsUpTo
  <2> HIDE DEF g, o, b, S, z, x, u
  <2>9. IsPrefix(z, z \o b)
    <3>1. z \in Seq(S) /\ b \in Seq(S)
      BY <2>3, <2>6
    <3> QED
      BY ONLY <3>1, PrefixOfConcat
  <2>10. /\ z \in Seq(S) /\ x \in Seq(S) /\ u \in Seq(S)
         /\ IsPrefix(z, x) /\ IsPrefix(x, u)
    BY <2>3, <2>4, <2>5, <2>6, <2>8, <2>9
  <2>11. IsPrefix(z, u)
    BY ONLY <2>10, PrefixTransitive
  <2> QED
    BY <2>11 DEF z, u
<1>5. CASE k.conn \notin {"none", "open"}
  BY <1>1, <1>5 DEF Outside
<1> QED
  BY <1>3, <1>4, <1>5

\* A connection that is over leaves its client with a beginning of its answers.
LEMMA EndedMinds ==
  ASSUME Able, AnswerInv, NEW c \in Client, NEW h, h.conn \notin {"none", "open"},
         h.st = net[c].st, h.got = net[c].got, h.outq = net[c].outq, h.next = net[c].next
  PROVE  Minds(Replies, script, c, h)
<1>1. Minds(Replies, script, c, net[c])
  BY DEF AnswerInv
<1>2. \A r : Heard(Replies, r, h) <=> Heard(Replies, r, net[c])
  BY DEF Heard
<1>3. Waits(Replies, script, c, h)
  BY <1>1, <1>2 DEF Minds, Waits
<1>4. Outside(Replies, script, c, h)
  BY GotPrefix DEF Outside
<1> QED
  BY <1>1, <1>3, <1>4 DEF Minds

\* What arrives at the current slot was on its way to it.
LEMMA RecvAnswers ==
  ASSUME Able, AnswerInv, Recv PROVE AnswerInv'
<1>0. Full /\ InputInv
  BY DEF Able
<1>1. Me.socket # NULL /\ UNCHANGED <<script, proc>>
  BY DEF Recv, NO_SOCKET
<1>2. CASE UNCHANGED <<connection_list, net>>
  BY <1>1, <1>2, AnswerStays
<1>3. CASE ReceiveFromPeer
  <2> DEFINE c == Me.socket
             k == net[c]
             S == PieceOf(script, c)
             inq == k.inq
             old == Me.receiving_buffer
             n == Least(Len(inq), Room(old))
             x == Take(inq, n)
             y == Drop(inq, n)
             p == [Me EXCEPT !.receiving_buffer = old \o x]
             h == [k EXCEPT !.inq = y]
  <2>1. /\ cur \in Slot /\ DOMAIN connection_list = Slot /\ Me = connection_list[cur]
        /\ DOMAIN Me = PeerFields /\ SlotTyped(script, Me)
    BY <1>0, CurrentTyped
  <2>2. Held(Task) \in Seq(S) /\ old \in Seq(S) /\ inq \in Seq(S) /\ c \in Client
    BY <1>0, <1>1, <2>1, SlotOfClient DEF Task, Me
  <2>3. DOMAIN net = Client /\ DOMAIN k = NetFields
    BY <1>0, <2>2 DEF Full, IInv, SlotInv, Shape
  <2>4. n \in 0 .. Len(inq)
    BY <2>1, <2>2, FitType, StateAssumption DEF Room, SlotTyped
  <2>5. x \in Seq(S) /\ Len(x) = n /\ y \in Seq(S)
    BY <2>2, <2>4, TakeType, DropType
  <2>6. /\ connection_list' = [connection_list EXCEPT ![cur] = p]
        /\ net' = [net EXCEPT ![c] = h]
    BY <1>3, <2>5 DEF ReceiveFromPeer, Me, Received
  <2>7. x \o y = inq
    BY <2>2, <2>4, TakeDrop
  <2>8. Minds(Replies, script, c, k) /\ Serves(Replies, script, Me, k) /\ k.conn = "open"
    BY <1>1, <2>1, Serving
  <2> HIDE DEF x, y, n
  <2>9. /\ h.inq = y /\ h.next = k.next /\ h.st = k.st /\ h.conn = k.conn
        /\ h.got = k.got /\ h.outq = k.outq
    BY <2>2, <2>3 DEF NetFields
  <2>10. /\ p.socket = c /\ p.http_task = Task /\ p.receiving_buffer = old \o x
         /\ p.sending_buffer = Me.sending_buffer
    BY <2>1 DEF PeerFields, Task, Me
  <2>11. \A d \in Client : net'[d] = IF d = c THEN h ELSE net[d]
    BY <2>3, <2>6
  <2>12. \A s \in Slot : connection_list'[s] = IF s = cur THEN p ELSE connection_list[s]
    BY <2>1, <2>6
  <2> HIDE DEF p, h, k, old, inq
  <2>13. Unread(Task, old \o x, y) = Unread(Task, old, inq)
    <3> DEFINE d == Held(Task)
    <3>1. d \in Seq(S)
      BY <2>2
    <3> HIDE DEF d, S
    <3>2. Cat(Cat(d, Cat(old, x)), y) = Cat(Cat(d, old), Cat(x, y))
      BY <2>2, <2>5, <3>1, Moved
    <3>3. Cat(x, y) = inq
      BY <2>7 DEF Cat
    <3> QED
      BY <3>2, <3>3 DEF Cat, Unread, d
  <2>14. Minds(Replies, script, c, h)
    <3>1. \A r : Heard(Replies, r, h) <=> Heard(Replies, r, k)
      BY <2>9 DEF Heard
    <3>2. Waits(Replies, script, c, h)
      BY <2>8, <2>9, <3>1 DEF Minds, Waits
    <3>3. Outside(Replies, script, c, h)
      BY <2>8, <2>9 DEF Outside
    <3> QED
      BY <2>8, <2>9, <3>2, <3>3 DEF Minds
  <2>15. Serves(Replies, script, p, h)
    <3>1. From(h, Unread(Task, old \o x, y)) = From(k, Unread(Task, old, inq))
      BY <2>9, <2>13 DEF From
    <3>2. \A b : Total(h, b) = Total(k, b)
      BY <2>9 DEF Total
    <3>3. k.st # "gone" =>
            Owes(Replies, script, c, Task, Me.sending_buffer, Total(k, Me.sending_buffer),
                 From(k, Unread(Task, old, inq)))
      BY <2>8 DEF Serves, old, inq, Me, Task
    <3> QED
      BY <2>9, <2>10, <3>1, <3>2, <3>3 DEF Serves
  <2>16. ASSUME NEW s \in Slot
         PROVE  \/ connection_list'[s] = connection_list[s] /\ connection_list[s].socket # c
                \/ NowServes(s)
    <3>1. CASE s = cur
      BY <2>2, <2>10, <2>11, <2>12, <2>15, <3>1 DEF NowServes
    <3>2. CASE s # cur
      <4>1. connection_list[cur].socket # connection_list[s].socket
        BY <1>0, <1>1, <2>1, <3>2, TwoClients
      <4> QED
        BY <2>1, <2>12, <3>2, <4>1
    <3> QED
      BY <3>1, <3>2
  <2>17. Minds(Replies, script, c, net'[c]) /\ \A d \in Client : d # c => net'[d] = net[d]
    BY <2>2, <2>11, <2>14
  <2> QED
    BY <1>0, <1>1, <2>2, <2>16, <2>17, AnswerStep
<1> QED
  BY <1>2, <1>3 DEF Recv

\* A client that is accepted was sent nothing, and its slot has nothing to send.
LEMMA AcceptedAnswers ==
  ASSUME Able, AnswerInv, NEW s \in Slot, NEW c \in Client, net[c].conn = "none",
         connection_list[s].socket = NULL,
         connection_list' = [connection_list EXCEPT
           ![s] = [@ EXCEPT !.socket = c, !.close_conn = FALSE, !.http_task = FreshTask]],
         net' = [net EXCEPT ![c].conn = "open"], script' = script
  PROVE  AnswerInv'
<1> DEFINE old == connection_list[s]
           p == [old EXCEPT !.socket = c, !.close_conn = FALSE, !.http_task = FreshTask]
           k == net[c]
           h == net'[c]
<1>0. Full
  BY DEF Able
<1>1. /\ DOMAIN connection_list = Slot /\ DOMAIN old = PeerFields
      /\ DOMAIN net = Client /\ DOMAIN k = NetFields
  BY <1>0 DEF Full, IInv, SlotInv, Shape
<1>2. Emptied(old)
  BY DEF Able, FreeInv
<1>3. /\ p.socket = c /\ p.http_task = FreshTask /\ p.receiving_buffer = <<>>
      /\ p.sending_buffer = <<>>
  BY <1>1, <1>2 DEF PeerFields, Emptied
<1>4. \A t \in Slot : connection_list'[t] = IF t = s THEN p ELSE connection_list[t]
  BY <1>1
<1>5. /\ \A d \in Client : d # c => net'[d] = net[d]
      /\ h.conn = "open" /\ h.st = k.st /\ h.inq = k.inq /\ h.next = k.next
      /\ h.got = k.got /\ h.outq = k.outq
  BY <1>1 DEF NetFields
<1>6. Minds(Replies, script, c, k)
  BY DEF AnswerInv
<1> HIDE DEF p, h
<1>7. Minds(Replies, script, c, h)
  <2>1. \A r : Heard(Replies, r, h) <=> Heard(Replies, r, k)
    BY <1>5 DEF Heard
  <2>2. Waits(Replies, script, c, h)
    BY <1>5, <1>6, <2>1 DEF Minds, Waits
  <2>3. Outside(Replies, script, c, h)
    BY <1>5 DEF Outside
  <2> QED
    BY <1>5, <1>6, <2>2, <2>3 DEF Minds
<1>8. Serves(Replies, script, p, h)
  <2> SUFFICES ASSUME h.st # "gone" PROVE Serves(Replies, script, p, h)
    BY DEF Serves
  <2>1. k.got = <<>> /\ k.outq = <<>> /\ From(k, k.inq) = <<1, 1>>
    BY <1>5, <1>6 DEF Minds, Outside
  <2>2. FreshTask.state = "RECV_HEADER_STATE" /\ FreshTask.parse_buf = <<>>
    BY DEF FreshTask
  <2>3. Unread(FreshTask, <<>>, h.inq) = k.inq
    <3>1. k.inq \in Seq(PieceOf(script, c))
      BY <1>0 DEF Full, Typed, NetTyped
    <3> QED
      BY <1>5, <2>2, <3>1, ConcatEmptySeq DEF Unread, Held
  <2>4. <<>> \o <<>> = <<>>
    BY EmptySeq, ConcatEmptySeq
  <2>5. Total(h, <<>>) = UpTo(Replies, c, 0)
    BY <1>5, <2>1, <2>4, UpToNone DEF Total, Cat
  <2>6. Settles(From(h, k.inq), 0) /\ AtRequest(script, FreshTask, From(h, k.inq))
    <3>1. From(h, k.inq) = <<1, 1>>
      BY <1>5, <2>1 DEF From
    <3> QED
      BY <3>1 DEF Settles, AtRequest
  <2>7. 0 \in 0 .. Len(script[c])
    BY AbleTells
  <2>8. Owes(Replies, script, c, FreshTask, <<>>, Total(h, <<>>), From(h, k.inq))
    BY <2>2, <2>5, <2>6, <2>7 DEF Owes
  <2> QED
    BY <1>3, <2>3, <2>8 DEF Serves
<1>9. ASSUME NEW t \in Slot
      PROVE  \/ connection_list'[t] = connection_list[t] /\ connection_list[t].socket # c
             \/ NowServes(t)
  <2>1. CASE t = s
    BY <1>3, <1>4, <1>8, <2>1 DEF NowServes, h
  <2>2. CASE t # s
    <3>1. connection_list[t].socket # c
      BY <1>0 DEF Full, IInv, SlotInv, SlotsMatchConnections, Peer
    <3> QED
      BY <1>4, <2>2, <3>1
  <2> QED
    BY <2>1, <2>2
<1> QED
  BY <1>0, <1>5, <1>7, <1>9, AnswerStep DEF h

LEMMA AcceptAnswers ==
  ASSUME Able, AnswerInv, Accept PROVE AnswerInv'
<1>0. Full
  BY DEF Able
<1>1. pc = "accept" /\ UNCHANGED <<script, proc>>
  BY DEF Accept
<1>2. CASE UNCHANGED <<connection_list, net>>
  BY <1>1, <1>2, AnswerStays
<1>3. CASE ListenFd \in rfds /\ handle_new_connection /\ ~UNCHANGED <<connection_list, net>>
  <2> DEFINE c == Head(backlog)
  <2>1. backlog \in Seq(Client) /\ backlog # <<>>
    BY <1>0, <1>1, <1>3 DEF Full, IInv, SlotInv, BacklogInv, AcceptInv
  <2>2. c \in Client /\ net[c].conn = "none"
    <3>1. c = backlog[1] /\ 1 \in 1 .. Len(backlog) /\ c \in Client
      BY <2>1
    <3> QED
      BY <1>0, <3>1 DEF Full, IInv, SlotInv, BacklogInv
  <2> HIDE DEF c
  <2>3. CASE \E s \in Slot :
               /\ connection_list[s].socket = NULL
               /\ connection_list' = [connection_list EXCEPT
                    ![s] = [@ EXCEPT !.socket = c, !.close_conn = FALSE,
                                     !.http_task = FreshTask]]
               /\ net' = [net EXCEPT ![c].conn = "open"]
    BY <1>1, <2>2, <2>3, AcceptedAnswers
  <2>4. CASE /\ net' = [net EXCEPT ![c].conn = "refused", ![c].inq = <<>>]
             /\ connection_list' = connection_list
    <3> DEFINE h == net'[c]
    <3>1. DOMAIN net = Client /\ DOMAIN net[c] = NetFields
      BY <1>0, <2>2 DEF Full, IInv, SlotInv, Shape
    <3>2. /\ h.conn \notin {"none", "open"} /\ h.st = net[c].st /\ h.got = net[c].got
          /\ h.outq = net[c].outq /\ h.next = net[c].next
          /\ \A d \in Client : d # c => net'[d] = net[d]
      BY <2>2, <2>4, <3>1 DEF NetFields
    <3>3. Minds(Replies, script, c, h)
      BY <2>2, <3>2, EndedMinds
    <3>4. \A s \in Slot : connection_list'[s] = connection_list[s] /\ connection_list[s].socket # c
      BY <1>0, <2>2, <2>4 DEF Full, IInv, SlotInv, SlotsMatchConnections, Peer
    <3> QED
      BY <1>0, <1>1, <2>2, <3>2, <3>3, <3>4, AnswerStep
  <2> QED
    BY <1>3, <2>3, <2>4 DEF handle_new_connection, Peer, NO_SOCKET, c
<1> QED
  BY <1>2, <1>3 DEF Accept

LEMMA ShutdownAnswers ==
  ASSUME Able, AnswerInv, Shutdown PROVE AnswerInv'
<1> DEFINE gone == {s \in Slot : Peer(s).socket # NO_SOCKET}
<1>0. Full
  BY DEF Able
<1>1. /\ connection_list' =
           [s \in Slot |-> IF s \in gone THEN Vacated(Peer(s)) ELSE Peer(s)]
      /\ net' = [c \in Client |->
                   IF \E s \in gone : Peer(s).socket = c
                     THEN [net[c] EXCEPT !.conn = "closed", !.inq = <<>>]
                   ELSE IF Waiting(c) THEN [net[c] EXCEPT !.conn = "refused", !.inq = <<>>]
                   ELSE net[c]]
      /\ script' = script
  BY DEF Shutdown, ShutdownOf
<1> HIDE DEF gone
<1>2. ASSUME NEW s \in Slot PROVE connection_list'[s].socket = NULL
  <2>1. DOMAIN Peer(s) = PeerFields
    BY <1>0 DEF Full, IInv, SlotInv, Shape, Peer
  <2>2. CASE s \in gone
    BY <1>1, <2>1, <2>2 DEF Vacated, PeerFields, NO_SOCKET
  <2>3. CASE s \notin gone
    BY <1>1, <2>3 DEF gone, NO_SOCKET
  <2> QED
    BY <2>2, <2>3
<1>3. ASSUME NEW c \in Client PROVE Minds(Replies, script, c, net'[c])
  <2> DEFINE h == net'[c]
  <2>1. DOMAIN net[c] = NetFields
    BY <1>0 DEF Full, IInv, SlotInv, Shape
  <2>2. ASSUME NEW v, h = [net[c] EXCEPT !.conn = v, !.inq = <<>>], v \in {"closed", "refused"}
        PROVE  Minds(Replies, script, c, h)
    <3>1. /\ h.conn \notin {"none", "open"} /\ h.st = net[c].st /\ h.got = net[c].got
          /\ h.outq = net[c].outq /\ h.next = net[c].next
      BY <2>1, <2>2 DEF NetFields
    <3> HIDE DEF h
    <3> QED
      BY <3>1, EndedMinds
  <2>3. CASE h = net[c]
    BY <2>3 DEF AnswerInv
  <2> QED
    BY <1>1, <2>2, <2>3
<1>4. Replies' = Replies
  BY <1>1, RepliesStay
<1>5. \A c \in Client : Minds(Replies, script, c, net[c])'
  BY <1>1, <1>3, <1>4
<1>6. \A s \in Slot : SlotServes(s)'
  BY <1>2 DEF SlotServes
<1> QED
  BY <1>5, <1>6 DEF AnswerInv
-----------------------------------------------------------------------------
(* handle_http.                                                            *)

\* The handler leaves slot p to the client.
LEMMA HandlerAnswers ==
  ASSUME Able, AnswerInv, pc = "http", NEW p,
         connection_list' = [connection_list EXCEPT ![cur] = p],
         script' = script, net' = net, p.socket = Me.socket,
         Serves(Replies, script, p, net[Me.socket])
  PROVE  AnswerInv'
<1> DEFINE c == Me.socket
<1>1. Full /\ cur \in Slot /\ Me = connection_list[cur] /\ DOMAIN connection_list = Slot
      /\ c \in Client /\ c # NULL
  BY CurrentTyped DEF Able
<1>2. Minds(Replies, script, c, net'[c])
  BY <1>1 DEF AnswerInv
<1>3. NowServes(cur)
  BY <1>1 DEF NowServes
<1>4. ASSUME NEW s \in Slot, s # cur
      PROVE  connection_list'[s] = connection_list[s] /\ connection_list[s].socket # c
  <2>1. connection_list[cur].socket # connection_list[s].socket
    BY <1>1, <1>4, TwoClients
  <2> QED
    BY <1>1, <1>4, <2>1
<1> QED
  BY <1>1, <1>2, <1>3, <1>4, AnswerStep

\* The handler goes on with the same request and reads nothing.
LEMMA GoesOn ==
  ASSUME Able, AnswerInv, pc = "http", NEW p,
         connection_list' = [connection_list EXCEPT ![cur] = p],
         script' = script, net' = net, p.socket = Me.socket,
         p.receiving_buffer = Me.receiving_buffer, p.http_task.own = Task.own,
         Task.state \notin {"RECV_HEADER_STATE", "RECV_BODY_STATE"},
         p.http_task.state # "RECV_HEADER_STATE",
         Pays(Replies, script, Task, Me.sending_buffer, Total(net[Me.socket], Me.sending_buffer))
         => Pays(Replies, script, p.http_task, p.sending_buffer,
                 Total(net[Me.socket], p.sending_buffer))
  PROVE  AnswerInv'
<1> DEFINE c == Me.socket
           k == net[c]
           b == Me.sending_buffer
           d == p.sending_buffer
           f == From(k, Unread(Task, Me.receiving_buffer, k.inq))
           g == From(k, Unread(p.http_task, p.receiving_buffer, k.inq))
<1>1. /\ cur \in Slot /\ Me = connection_list[cur] /\ Task = Me.http_task /\ c # NULL
  BY CurrentTyped DEF Able
<1>2. Serves(Replies, script, Me, k)
  BY <1>1, Serving
<1>3. g = f
  BY DEF Unread, Held
<1>4. ASSUME k.st # "gone"
      PROVE  Owes(Replies, script, c, p.http_task, d, Total(k, d), g)
  <2>1. Owes(Replies, script, c, Task, b, Total(k, b), f)
    BY <1>1, <1>2, <1>4 DEF Serves
  <2>2. /\ Task.own # None /\ Settles(f, Task.own[2])
        /\ Pays(Replies, script, Task, b, Total(k, b))
        /\ AtRequest(script, p.http_task, f)
    BY <2>1 DEF Owes, AtRequest
  <2> QED
    BY <1>3, <2>2 DEF Owes
<1>5. Serves(Replies, script, p, k)
  BY <1>4 DEF Serves
<1> QED
  BY <1>5, HandlerAnswers

LEMMA HeaderIncompleteAnswers ==
  ASSUME Able, AnswerInv, HeaderIncomplete PROVE AnswerInv'
<1> DEFINE c == Me.socket
           k == net[c]
<1>1. Full /\ InputInv
  BY DEF Able
<1>2. /\ pc = "http" /\ Task.state = "RECV_HEADER_STATE"
      /\ script' = script /\ net' = net
  BY <1>1, HeaderIncompleteLeaves
<1>3. PICK p :
        /\ connection_list' = [connection_list EXCEPT ![cur] = p]
        /\ p.socket = c /\ p.sending_buffer = Me.sending_buffer
        /\ p.http_task.state = "RECV_HEADER_STATE"
        /\ Unread(p.http_task, p.receiving_buffer, k.inq)
             = Unread(Task, Me.receiving_buffer, k.inq)
  BY <1>1, HeaderIncompleteLeaves
<1>4. cur \in Slot /\ Me = connection_list[cur] /\ Task = Me.http_task /\ c # NULL
  BY <1>1, <1>2, CurrentTyped
<1>5. Serves(Replies, script, Me, k)
  BY <1>4, Serving
<1>6. Serves(Replies, script, p, k)
  BY <1>2, <1>3, <1>4, <1>5 DEF Serves, Owes, AtRequest
<1> QED
  BY <1>2, <1>3, <1>6, HandlerAnswers

\* The header of an error, or of a POST, is all that is sent.
LEMMA GenerateHeaderAnswers ==
  ASSUME Able, AnswerInv, GenerateHeader PROVE AnswerInv'
<1> DEFINE c == Me.socket
           b == Me.sending_buffer
           x == Total(net[c], b)
           o == Task.own
           answer == Task.response_buf \o NonBodyResponse(o, Task.response_code)
           new == [Task EXCEPT
                     !.response_buf = @ \o NonBodyResponse(Task.own, Task.response_code),
                     !.state = "SEND_HEADER_STATE"]
           p == [Me EXCEPT !.http_task = new]
<1>1. /\ pc = "http" /\ Task.state = "GENERATE_HEADER_STATE"
      /\ connection_list' = [connection_list EXCEPT ![cur].http_task = new]
      /\ script' = script /\ net' = net
  BY DEF GenerateHeader, InHandler, Continue, world
<1>2. /\ DOMAIN Me = PeerFields /\ Task = Me.http_task /\ DOMAIN Task = TaskFields
      /\ cur \in Slot /\ Me = connection_list[cur] /\ DOMAIN connection_list = Slot
      /\ c # NULL /\ TaskTyped(script, Task) /\ TaskOK(Task)
  BY <1>1, CurrentTyped DEF Able
<1>3. /\ new.state = "SEND_HEADER_STATE" /\ new.own = o /\ new.response_buf = answer
      /\ new.response_code = Task.response_code /\ new.method_type = Task.method_type
  BY <1>2 DEF TaskFields
<1> HIDE DEF new
<1>4. connection_list' = [connection_list EXCEPT ![cur] = p]
  BY <1>1, <1>2
<1>5. /\ p.socket = c /\ p.receiving_buffer = Me.receiving_buffer
      /\ p.sending_buffer = b /\ p.http_task = new
  BY <1>2 DEF PeerFields
<1>6. AfterHeader(new) = "FINISHED_STATE"
  BY <1>1, <1>2, <1>3 DEF AfterHeader, TaskTyped, TaskOK, ErrorCodes
<1>7. Rest(script, new) = <<>> /\ ~SendsFile(new)
  <2>1. Rest(script, new) = <<>>
    BY <1>6 DEF Rest
  <2>2. new.state # "SEND_BODY_STATE" /\ ~(new.response_code \notin ErrorCodes /\ new.method_type = "GET")
    BY <1>3, <1>6 DEF AfterHeader
  <2> QED
    BY <2>1, <2>2 DEF SendsFile
<1>8. o \in Asked(script)
  BY <1>1, <1>2 DEF TaskTyped, Parsed
<1>9. Replies[o] \in Seq(Piece(script))
  BY <1>8, AbleTells DEF Tells
<1> HIDE DEF p, answer, x, b, o
<1>10. Pays(Replies, script, Task, b, x) => Pays(Replies, script, new, b, x)
  <2> SUFFICES ASSUME Pays(Replies, script, Task, b, x) PROVE Pays(Replies, script, new, b, x)
    OBVIOUS
  <2>1. /\ b = <<>> /\ x = UpTo(Replies, o[1], o[2] - 1)
        /\ answer = Replies[o]
    BY <1>1 DEF Pays, BeforeAnswer, answer, o
  <2>2. new.response_buf \o Rest(script, new) = Replies[o]
    BY <1>3, <1>7, <1>9, <2>1, ConcatEmptySeq
  <2> QED
    BY <1>3, <1>7, <2>1, <2>2 DEF Pays, TakesBody
<1> QED
  BY <1>1, <1>3, <1>4, <1>5, <1>10, GoesOn DEF o, b, x

\* There is room for the whole header, since all earlier answers are with the
\* client or on their way.
LEMMA SendHeaderAnswers ==
  ASSUME Able, AnswerInv, SendHeader PROVE AnswerInv'
<1> DEFINE c == Me.socket
           b == Me.sending_buffer
           k == net[c]
           y == Task.response_buf
           n == Least(Len(y), Room(b))
           o == Task.own
           m == o[2]
           P == Seq(Piece(script))
           new == [Task EXCEPT !.response_buf = Drop(@, Least(Len(@), n + 1)),
                               !.state = AfterHeader(Task)]
           p == [Me EXCEPT !.sending_buffer = @ \o Take(y, n), !.http_task = new]
<1>1. /\ pc = "http" /\ Task.state = "SEND_HEADER_STATE"
      /\ connection_list' =
          [connection_list EXCEPT
             ![cur] = [Me EXCEPT
               !.sending_buffer = @ \o Take(y, n),
               !.http_task.response_buf = Drop(@, Least(Len(@), n + 1)),
               !.http_task.state = AfterHeader(Task)]]
      /\ script' = script /\ net' = net
  BY DEF SendHeader, InHandler, world
<1>2. /\ DOMAIN Me = PeerFields /\ Task = Me.http_task /\ DOMAIN Task = TaskFields
      /\ cur \in Slot /\ Me = connection_list[cur] /\ DOMAIN connection_list = Slot
      /\ c # NULL /\ TaskTyped(script, Task)
  BY <1>1, CurrentTyped DEF Able
<1>3. /\ new.state = AfterHeader(Task) /\ new.own = o /\ new.fp = Task.fp
      /\ new.response_code = Task.response_code /\ new.method_type = Task.method_type
  BY <1>2 DEF TaskFields
<1>4. connection_list' = [connection_list EXCEPT ![cur] = p]
  BY <1>1, <1>2
<1>5. /\ p.socket = c /\ p.receiving_buffer = Me.receiving_buffer
      /\ p.sending_buffer = b \o Take(y, n) /\ p.http_task = new
  <2> HIDE DEF new
  <2> QED
    BY <1>2 DEF PeerFields
<1>6. /\ c \in Client /\ Len(script[c]) \in Nat /\ k.got \in P /\ k.outq \in P
      /\ o \in Asked(script) /\ m \in 1 .. Len(script[c]) /\ o = <<c, m>>
      /\ UpTo(Replies, c, m) = UpTo(Replies, c, m - 1) \o Replies[o]
  <2>1. o \in Asked(script) /\ o # None
    <3>1. Task.state = "SEND_HEADER_STATE" /\ TaskTyped(script, Task) /\ script \in [Client -> Seq(Request)]
      BY <1>1, <1>2, AbleTells
    <3>2. o \in Asked(script)
      BY <3>1 DEF TaskTyped, Parsed
    <3> QED
      BY <3>1, <3>2, AskedRequest
  <2>2. /\ c \in Client /\ Len(script[c]) \in Nat /\ k.got \in P /\ k.outq \in P
        /\ m \in 1 .. Len(script[c]) /\ o = <<c, m>>
    BY <1>2, <2>1, Serving
  <2>3. UpTo(Replies, c, m) = UpTo(Replies, c, m - 1) \o Replies[<<c, m>>]
    <3>1. Tells(script, Replies)
      BY AbleTells
    <3> HIDE DEF c, m
    <3> QED
      BY <2>2, <3>1, UpToNext
  <2> QED
    BY <2>1, <2>2, <2>3
<1>7. y \in P /\ Len(y) \in 0 .. 4
  <2>1. y \in P /\ Len(y) <= 4
    BY <1>2 DEF TaskTyped
  <2>2. Len(y) \in Nat
    BY <2>1, LenProperties
  <2> DEFINE l == Len(y)
  <2>3. l \in Nat /\ l <= 4
    BY <2>1, <2>2
  <2> HIDE DEF l
  <2>4. l \in 0 .. 4
    BY ONLY <2>3
  <2> QED
    BY <2>1, <2>4 DEF l
<1>8. AfterHeader(Task) \in {"SEND_BODY_STATE", "FINISHED_STATE"}
  BY DEF AfterHeader
<1> HIDE DEF p, new, P
<1>9. Pays(Replies, script, Task, b, Total(k, b))
      => Pays(Replies, script, new, b \o Take(y, n), Total(k, b \o Take(y, n)))
  <2> SUFFICES ASSUME Pays(Replies, script, Task, b, Total(k, b))
               PROVE  Pays(Replies, script, new, b \o Take(y, n), Total(k, b \o Take(y, n)))
    OBVIOUS
  <2>1. /\ b = <<>> /\ Total(k, b) = UpTo(Replies, c, m - 1)
        /\ y \o Rest(script, Task) = Replies[o]
        /\ SendsFile(Task) => Task.fp.of = o /\ Task.fp.pos = 0
    BY <1>1, <1>6 DEF Pays, BeforeAnswer
  <2>2. b \o Take(y, n) = y
    <3>1. Room(b) = BUF_DATA_MAXSIZE
      BY <2>1, EmptySeq, StateAssumption DEF Room
    <3>2. n = Len(y)
      <4>1. Len(y) \in 0 .. 4 /\ BUF_DATA_MAXSIZE \in Nat /\ BUF_DATA_MAXSIZE >= 4
        BY <1>7, StateAssumption
      <4> DEFINE l == Len(y)
                 room == Room(b)
      <4>2. n = Least(l, room) /\ l \in 0 .. 4 /\ room \in Nat /\ room >= 4
        BY <3>1, <4>1
      <4> HIDE DEF l, room
      <4>3. Least(l, room) = l
        BY ONLY <4>2 DEF Least
      <4> QED
        BY <4>2, <4>3 DEF l
    <3>3. Take(y, n) = y
      BY <1>7, <3>2, TakeAll DEF P
    <3> QED
      BY <1>7, <2>1, <3>3, ConcatEmptySeq DEF P
  <2>3. Total(k, y) = UpTo(Replies, c, m - 1) \o y
    <3> DEFINE g == k.got
               q == k.outq
               u == UpTo(Replies, c, m - 1)
               S == Piece(script)
    <3>1. g \in Seq(S) /\ q \in Seq(S) /\ y \in Seq(S) /\ u = g \o q \o <<>>
      BY <1>6, <1>7, <2>1 DEF Total, Cat, P
    <3> HIDE DEF g, q, u, S, y
    <3>2. g \o q \in Seq(S)
      BY ONLY <3>1, ConcatProperties
    <3>3. u = g \o q
      BY ONLY <3>1, <3>2, ConcatEmptySeq
    <3> QED
      BY <3>3 DEF Total, Cat, g, q, u
  <2>4. Rest(script, Task) \in P /\ UpTo(Replies, c, m - 1) \in P
    <3>1. m - 1 \in 0 .. Len(script[c])
      BY <1>6
    <3>2. UpTo(Replies, c, m - 1) \in P
      BY <1>6, <3>1, AbleTells, UpToType DEF IsUpTo, P
    <3>3. 0 \in 0 .. FileLen + 1
      BY StateAssumption
    <3>4. FileRest(script, o, 0) \in P /\ <<>> \in P
      BY <1>6, <3>3, FileRestType, EmptySeq DEF P
    <3> QED
      BY <3>2, <3>4 DEF Rest
  <2>5. Total(k, y) \o Rest(script, Task) = UpTo(Replies, c, m)
    <3> DEFINE u == UpTo(Replies, c, m - 1)
               z == Rest(script, Task)
               S == Piece(script)
    <3>1. u \in Seq(S) /\ y \in Seq(S) /\ z \in Seq(S)
      BY <1>7, <2>4 DEF P
    <3> HIDE DEF u, z, S, y
    <3>2. u \o y \o z = u \o (y \o z)
      BY ONLY <3>1, ConcatAssociative, SMTT(30)
    <3> QED
      BY <1>6, <2>1, <2>3, <3>2 DEF u, z, y
  <2>6. CASE AfterHeader(Task) = "SEND_BODY_STATE"
    <3>1. SendsFile(Task)
      <4>1. Task.state = "SEND_HEADER_STATE"
        BY <1>1
      <4> QED
        BY <2>6, <4>1 DEF SendsFile, AfterHeader
    <3>2. new.fp.of = o /\ new.fp.pos = 0 /\ new.state = "SEND_BODY_STATE"
      BY <1>3, <2>1, <2>6, <3>1
    <3>3. Total(k, y) \o FileRest(script, new.own, new.fp.pos) = UpTo(Replies, c, m)
      BY <1>3, <2>5, <2>6, <3>2 DEF Rest
    <3>4. new.own = o /\ o[1] = c
      BY <1>3, <1>6
    <3> DEFINE w == b \o Take(y, n)
               x == Total(k, y)
    <3>5. w = y
      BY <2>2
    <3> HIDE DEF w, x, c, o, m, y
    <3>6. Pays(Replies, script, new, w, x)
      BY <3>2, <3>3, <3>4, <3>5 DEF Pays, BeforeAnswer, TakesBody, x, m
    <3> QED
      BY <3>5, <3>6 DEF w, x
  <2>7. CASE AfterHeader(Task) = "FINISHED_STATE"
    <3>1. Total(k, y) = UpTo(Replies, c, m)
      <4>1. Rest(script, Task) = <<>>
        BY <2>7 DEF Rest
      <4>2. Total(k, y) \in P
        <5>1. k.got \in Seq(Piece(script)) /\ k.outq \in Seq(Piece(script)) /\ y \in Seq(Piece(script))
          BY <1>6, <1>7 DEF P
        <5> HIDE DEF k, y
        <5> QED
          BY ONLY <5>1, Joined DEF Total, Cat, P
      <4> QED
        BY <2>5, <4>1, <4>2, ConcatEmptySeq DEF P
    <3>2. new.own = o /\ o[1] = c /\ new.state = "FINISHED_STATE"
      BY <1>3, <1>6, <2>7
    <3> DEFINE w == b \o Take(y, n)
               x == Total(k, y)
    <3>3. w = y
      BY <2>2
    <3> HIDE DEF w, x, c, o, m, y
    <3>4. Pays(Replies, script, new, w, x)
      BY <3>1, <3>2, <3>3 DEF Pays, BeforeAnswer, TakesBody, SendsFile, x, m
    <3> QED
      BY <3>3, <3>4 DEF w, x
  <2> QED
    BY <1>8, <2>6, <2>7
<1> QED
  BY <1>1, <1>3, <1>4, <1>5, <1>8, <1>9, GoesOn

\* The body of a request, in pieces; only it is read.
LEMMA ReceiveBodyAnswers ==
  ASSUME Able, AnswerInv, ReceiveBody PROVE AnswerInv'
<1> DEFINE c == Me.socket
           k == net[c]
           b == Me.sending_buffer
           o == Task.own
<1>1. Full /\ InputInv
  BY DEF Able
<1>2. /\ pc = "http" /\ Task.state = "RECV_BODY_STATE"
      /\ script' = script /\ net' = net
      /\ \E p, u :
           /\ connection_list' = [connection_list EXCEPT ![cur] = p]
           /\ p.socket = c /\ p.sending_buffer = b
           /\ p.http_task.state \in TakesBody /\ p.http_task.own = o
           /\ u.state = "RECV_BODY_STATE" /\ u.own = o /\ Len(u.post_body) \in Nat
           /\ p.http_task.state = "CHECK_CGI" => Len(u.post_body) = u.body_bytes_num
           /\ Reads(script, proc, c, u, p.receiving_buffer, k)
  BY <1>1, ReceiveBodyTakes
<1>3. PICK p, u :
        /\ connection_list' = [connection_list EXCEPT ![cur] = p]
        /\ p.socket = c /\ p.sending_buffer = b
        /\ p.http_task.state \in TakesBody /\ p.http_task.own = o
        /\ u.state = "RECV_BODY_STATE" /\ u.own = o /\ Len(u.post_body) \in Nat
        /\ p.http_task.state = "CHECK_CGI" => Len(u.post_body) = u.body_bytes_num
        /\ Reads(script, proc, c, u, p.receiving_buffer, k)
  BY <1>2
<1>4. /\ cur \in Slot /\ Me = connection_list[cur] /\ Task = Me.http_task /\ c # NULL
  BY <1>1, <1>2, CurrentTyped
<1>5. Serves(Replies, script, Me, k)
  BY <1>4, Serving
<1> DEFINE t == p.http_task
           x == Total(k, b)
           q == Unread(u, p.receiving_buffer, k.inq)
           f == From(k, q)
<1>6. Unread(t, p.receiving_buffer, k.inq) = q
  <2>1. Held(t) = <<>> /\ Held(u) = <<>>
    BY <1>3 DEF Held, TakesBody
  <2> QED
    BY <2>1 DEF Unread
<1>7. ASSUME k.st # "gone" PROVE Settles(f, o[2]) /\ AtRequest(script, t, f)
  <2>1. Taking(script, proc, u, k, q) /\ Certain(k, q)
    BY <1>3, <1>7 DEF Reads, TakesBody, Certain
  <2> DEFINE m == Len(u.post_body)
             l == script[o[1]][o[2]].length
  <2>2. f = (IF m < l THEN <<o[2], 3 + m>> ELSE <<o[2] + 1, 1>>) /\ l \in Nat
    BY <1>3, <2>1 DEF Taking
  <2>3. m \in Nat
    BY <1>3
  <2>4. t.state # "RECV_BODY_STATE" => m = l
    <3>1. u.body_bytes_num = l
      BY <1>3, <2>1 DEF Taking
    <3> QED
      BY <1>3, <3>1 DEF TakesBody
  <2> HIDE DEF f, m, l, o, t
  <2> QED
    BY <2>2, <2>3, <2>4 DEF Settles, AtRequest
<1> HIDE DEF x, f, b, t, o
<1>8. ASSUME k.st # "gone" PROVE Owes(Replies, script, c, t, b, x, f)
  <2>1. \E g : Owes(Replies, script, c, Task, b, x, g)
    BY <1>4, <1>5, <1>8 DEF Serves, x, b
  <2>2. o # None /\ Pays(Replies, script, Task, b, x)
    BY <1>2, <2>1 DEF Owes, o
  <2>3. Pays(Replies, script, t, b, x)
    BY <1>2, <1>3, <2>2 DEF Pays, BeforeAnswer, TakesBody, SendsFile, t, o
  <2> QED
    BY <1>3, <1>7, <1>8, <2>2, <2>3 DEF Owes, TakesBody, t
<1>9. Serves(Replies, script, p, k)
  BY <1>3, <1>6, <1>8 DEF Serves, x, f, b, t
<1> QED
  BY <1>2, <1>3, <1>9, HandlerAnswers

\* What CHECK_CGI finds out about a path that is no script: the status that is
\* still to be made, or the file that is to be sent.
LEMMA CheckStaticAnswers ==
  ASSUME Able, AnswerInv, Enough, CheckStatic PROVE AnswerInv'
<1> DEFINE c == Me.socket
           k == net[c]
           b == Me.sending_buffer
           x == Total(k, b)
           o == Task.own
           q == RequestOf(o)
           new == IF IsRead THEN StaticGet
                  ELSE [Task EXCEPT !.response_code = 200, !.state = "GENERATE_HEADER_STATE"]
           p == [Me EXCEPT !.http_task = new]
           ok == StatusOf(o, 200)
           P == Seq(Piece(script))
<1>0. Full /\ InputInv /\ OwnInv
  BY DEF Able
<1>1. /\ pc = "http" /\ Task.state = "CHECK_CGI" /\ request # NULL
      /\ connection_list' = [connection_list EXCEPT ![cur].http_task = new]
      /\ script' = script /\ net' = net
  BY DEF CheckStatic, InHandler
<1>2. /\ DOMAIN Me = PeerFields /\ Task = Me.http_task /\ DOMAIN Task = TaskFields
      /\ cur \in Slot /\ Me = connection_list[cur] /\ DOMAIN connection_list = Slot
      /\ c # NULL /\ TaskTyped(script, Task) /\ script \in [Client -> Seq(Request)]
  BY <1>0, <1>1, CurrentTyped
<1>3. request.of = o
  BY <1>0, <1>1, <1>2 DEF OwnInv, OwnRequest, TakesBody
<1>4. o \in Asked(script) /\ Task.response_buf = <<>> /\ Task.method_type = q.method
  BY <1>1, <1>2 DEF TaskTyped, Parsed, RequestOf
<1>5. q \in Request /\ Wanted = q /\ q.target # "cgi"
  <2>1. q \in Request
    BY <1>2, <1>4, AskedRequest
  <2>2. Wanted = q
    BY <1>3 DEF Wanted
  <2> QED
    BY <2>1, <2>2 DEF CheckStatic
<1>6. q.method = "POST" => HasLength(q)
  <2>1. Reads(script, proc, c, Task, Me.receiving_buffer, k)
    BY <1>0, <1>2, SlotOfClient
  <2>2. Taking(script, proc, Task, k, Unread(Task, Me.receiving_buffer, k.inq))
    BY <1>1, <2>1 DEF Reads, TakesBody
  <2> QED
    BY <1>1, <2>2 DEF Taking, RequestOf, HasLength
<1>7. Replies[o] = Answer(o) /\ Replies[o] \in P
  BY <1>4, AbleTells DEF Tells
<1>8. connection_list' = [connection_list EXCEPT ![cur] = p]
  BY <1>1, <1>2
<1>9. /\ p.socket = c /\ p.receiving_buffer = Me.receiving_buffer
      /\ p.sending_buffer = b /\ p.http_task = new
  <2> HIDE DEF new
  <2> QED
    BY <1>2 DEF PeerFields
<1>10. \A y \in P : <<>> \o y = y /\ y \o <<>> = y
  BY ConcatEmptySeq
<1>11. /\ 200 \in Int /\ 404 \in Int /\ 500 \in Int
  OBVIOUS
<1>12. /\ ok \in P /\ StatusOf(o, 404) \in P /\ StatusOf(o, 500) \in P
       /\ <<Token(o, "head", 200)>> \in P
  BY <1>4, <1>11, StatusType
<1>13. ok = <<Token(o, "head", 200), Token(o, "end", 200)>>
  BY DEF StatusOf
<1> HIDE DEF p, x, b, ok, P
<1>14. new.own = o /\ new.state \in {"GENERATE_HEADER_STATE", "SEND_HEADER_STATE"}
  <2>1. CASE ~IsRead
    BY <1>2, <2>1 DEF TaskFields
  <2>2. CASE IsRead
    BY <1>2, <2>2 DEF TaskFields, StaticGet
  <2> QED
    BY <2>1, <2>2
<1>15. ASSUME q.method \in {"GET", "HEAD", "POST"}
       PROVE  /\ new.state = "GENERATE_HEADER_STATE" =>
                   new.response_buf \o NonBodyResponse(o, new.response_code) = Replies[o]
              /\ new.state = "SEND_HEADER_STATE" =>
                   /\ new.response_buf \o Rest(script, new) = Replies[o]
                   /\ new.fp.of = o /\ new.fp.pos = 0
  <2>1. CASE ~IsRead
    <3>1. q.method = "POST"
      BY <1>4, <1>15, <2>1 DEF IsRead
    <3>2. /\ new.state = "GENERATE_HEADER_STATE" /\ new.response_code = 200
          /\ new.response_buf = <<>>
      BY <1>2, <1>4, <2>1 DEF TaskFields
    <3>3. Answer(o) = <<Token(o, "head", 200)>>
      BY <1>4, <1>5, <1>6, <3>1, AnswerCases
    <3>4. NonBodyResponse(o, 200) = <<Token(o, "head", 200)>>
      BY DEF NonBodyResponse
    <3> HIDE DEF new
    <3> QED
      BY <1>7, <1>10, <1>12, <3>2, <3>3, <3>4
  <2>2. CASE IsRead /\ q.target = "missing"
    <3>1. new = [Task EXCEPT !.response_code = 404, !.state = "GENERATE_HEADER_STATE"]
      BY <1>5, <2>2 DEF StaticGet, FileOpens
    <3> HIDE DEF new
    <3>2. /\ new.state = "GENERATE_HEADER_STATE" /\ new.response_code = 404
          /\ new.response_buf = <<>>
      BY <1>2, <1>4, <3>1 DEF TaskFields
    <3>3. Answer(o) = StatusOf(o, 404)
      BY <1>4, <2>2, AnswerCases DEF IsRead
    <3>4. NonBodyResponse(o, 404) = StatusOf(o, 404)
      BY DEF NonBodyResponse, StatusOf
    <3> QED
      BY <1>7, <1>10, <1>12, <3>2, <3>3, <3>4
  <2>3. CASE IsRead /\ q.target = "noperm"
    <3>1. new = [Task EXCEPT !.response_buf = @ \o ok, !.response_code = 500,
                             !.state = "GENERATE_HEADER_STATE"]
      BY <1>3, <1>5, <1>13, <2>3 DEF StaticGet, FileOpens
    <3> HIDE DEF new
    <3>2. /\ new.state = "GENERATE_HEADER_STATE" /\ new.response_code = 500
          /\ new.response_buf = <<>> \o ok
      BY <1>2, <1>4, <3>1 DEF TaskFields
    <3>3. Answer(o) = ok \o StatusOf(o, 500)
      BY <1>4, <2>3, AnswerCases DEF IsRead, ok
    <3>4. NonBodyResponse(o, 500) = StatusOf(o, 500)
      BY DEF NonBodyResponse, StatusOf
    <3> QED
      BY <1>7, <1>10, <1>12, <3>2, <3>3, <3>4
  <2>4. CASE IsRead /\ q.target \in {"file", "dir"}
    <3>0. FileOpens
      BY <1>5, <2>4 DEF FileOpens, Enough
    <3>1. new = [Task EXCEPT !.response_buf = @ \o ok, !.response_code = 200,
                             !.fp = [of |-> o, pos |-> 0], !.state = "SEND_HEADER_STATE"]
      BY <1>3, <1>5, <1>13, <2>4, <3>0 DEF StaticGet
    <3> HIDE DEF new
    <3>2. /\ new.state = "SEND_HEADER_STATE" /\ new.response_code = 200 /\ new.own = o
          /\ new.response_buf = <<>> \o ok /\ new.fp = [of |-> o, pos |-> 0]
          /\ new.method_type = q.method
      BY <1>2, <1>4, <3>1 DEF TaskFields
    <3>3. new.response_buf = ok /\ new.fp.of = o /\ new.fp.pos = 0
      BY <1>10, <1>12, <3>2
    <3>4. Rest(script, new) = IF q.method = "GET" THEN FileRest(script, o, 0) ELSE <<>>
      BY <3>2 DEF Rest, AfterHeader, ErrorCodes
    <3>5. CASE q.method = "GET" /\ q.target = "file"
      <4>1. FileRest(script, o, 0) = FileStream(o)
        <5>1. FileRest(script, o, 0) = Drop(FileStream(o), 0)
          BY <3>5 DEF FileRest, RequestOf
        <5>2. FileStream(o) \in P
          BY <1>4, StreamOfFile DEF P
        <5> QED
          BY <5>1, <5>2, DropNone DEF P
      <4>2. Answer(o) = ok \o FileStream(o)
        <5>1. Answer(o) = StatusOf(o, 200) \o FileBody(o) \o <<Token(o, "eof", 0)>>
          BY <1>4, <3>5, AnswerCases
        <5> QED
          BY <1>4, <5>1, FileSound DEF ok
      <4> QED
        BY <1>7, <3>2, <3>3, <3>4, <3>5, <4>1, <4>2
    <3>6. CASE q.method = "GET" /\ q.target = "dir"
      <4>1. FileRest(script, o, 0) = <<>>
        BY <3>6 DEF FileRest, RequestOf
      <4>2. Answer(o) = ok
        BY <1>4, <3>6, AnswerCases DEF ok
      <4>3. ok \o <<>> = ok
        BY <1>10, <1>12
      <4>4. Rest(script, new) = <<>>
        BY <3>4, <3>6, <4>1
      <4>5. new.response_buf \o Rest(script, new) = Replies[o]
        BY <1>7, <3>3, <4>2, <4>3, <4>4
      <4> QED
        BY <3>2, <3>3, <4>5
    <3>7. CASE q.method = "HEAD"
      <4>1. Answer(o) = ok
        BY <1>4, <2>4, <3>7, AnswerCases DEF ok
      <4> QED
        BY <1>7, <1>10, <1>12, <3>2, <3>3, <3>4, <3>7, <4>1
    <3> QED
      BY <1>4, <2>4, <3>5, <3>6, <3>7 DEF IsRead
  <2> QED
    BY <1>5, <2>1, <2>2, <2>3, <2>4 DEF Request
<1> HIDE DEF new, q
<1>16. Pays(Replies, script, Task, b, x) => Pays(Replies, script, new, b, x)
  <2> SUFFICES ASSUME Pays(Replies, script, Task, b, x) PROVE Pays(Replies, script, new, b, x)
    OBVIOUS
  <2>1. /\ b = <<>> /\ x = UpTo(Replies, o[1], o[2] - 1)
        /\ q.method \in {"GET", "HEAD", "POST"}
    BY <1>1 DEF Pays, BeforeAnswer, TakesBody, q, RequestOf
  <2> HIDE DEF o
  <2> QED
    BY <1>14, <1>15, <2>1 DEF Pays, BeforeAnswer, TakesBody, SendsFile
<1> QED
  BY <1>1, <1>8, <1>9, <1>14, <1>16, GoesOn DEF x, b

\* The next part of a file.
LEMMA NextPart ==
  ASSUME NEW S, NEW q \in Seq(S), NEW i \in Nat, NEW n \in Nat, i + n <= Len(q)
  PROVE  /\ SubSeq(q, i + 1, i + n) \in Seq(S)
         /\ Drop(q, i) \in Seq(S) /\ Drop(q, i + n) \in Seq(S)
         /\ SubSeq(q, i + 1, i + n) \o Drop(q, i + n) = Drop(q, i)
<1>1. Len(q) \in Nat
  BY LenProperties
<1>2. i \in 0 .. Len(q) /\ i + n \in 0 .. Len(q)
  BY <1>1
<1>3. Drop(q, i) \in Seq(S) /\ Drop(q, i + n) \in Seq(S)
  BY <1>2, DropType
<1>4. SubSeq(q, i + 1, i + n) \in Seq(S)
  <2>1. \A j \in i + 1 .. i + n : q[j] \in S
    <3>1. \A j \in 1 .. Len(q) : q[j] \in S
      BY ElementOfSeq
    <3> QED
      BY <1>1, <1>2, <3>1
  <2> QED
    BY <1>1, <1>2, <2>1, SubSeqProperties
<1>5. /\ i + 1 \in 1 .. Len(q) + 1 /\ i + n \in (i + 1) - 1 .. Len(q)
      /\ Len(q) \in i + n .. Len(q)
  BY <1>1
<1>6. SubSeq(q, i + 1, i + n) \o SubSeq(q, (i + n) + 1, Len(q)) = SubSeq(q, i + 1, Len(q))
  BY <1>5, ConcatAdjacentSubSeq
<1> QED
  BY <1>3, <1>4, <1>6 DEF Drop

LEMMA SentMore ==
  ASSUME NEW S, NEW g \in Seq(S), NEW o \in Seq(S), NEW b \in Seq(S), NEW z \in Seq(S),
         NEW d \in Seq(S)
  PROVE  /\ Cat(Cat(g, o), b \o z) \o d = Cat(Cat(g, o), b) \o (z \o d)
         /\ Cat(Cat(g, o), b \o z) \in Seq(S)
<1>1. g \o o \in Seq(S) /\ b \o z \in Seq(S)
  BY ConcatProperties
<1> DEFINE v == g \o o
           w == v \o b
<1> HIDE DEF v
<1>2. v \in Seq(S) /\ b \in Seq(S) /\ z \in Seq(S) /\ d \in Seq(S)
  BY <1>1 DEF v
<1>3. v \o b \in Seq(S) /\ v \o (b \o z) \in Seq(S)
  BY <1>1, <1>2, ConcatProperties
<1>4. (v \o b) \o z = v \o (b \o z)
  <2>1. v \in Seq(S) /\ b \in Seq(S) /\ z \in Seq(S)
    BY <1>2
  <2> QED
    BY ONLY <2>1, ConcatAssociative, SMTT(30)
<1>5. w \in Seq(S) /\ z \in Seq(S) /\ d \in Seq(S)
  BY <1>2, <1>3
<1> HIDE DEF w
<1>6. (w \o z) \o d = w \o (z \o d)
  BY ONLY <1>5, ConcatAssociative, SMTT(30)
<1> QED
  BY <1>3, <1>4, <1>6 DEF Cat, v, w

\* A part of the file goes into the sending buffer; at its end the request is
\* answered.
LEMMA SendBodyAnswers ==
  ASSUME Able, AnswerInv, SendBody PROVE AnswerInv'
<1> DEFINE c == Me.socket
           k == net[c]
           b == Me.sending_buffer
           x == Total(k, b)
           o == Task.own
           m == o[2]
           f == Task.fp
           file == FileStream(f.of)
           n == Least(Len(file) - f.pos, Room(b))
           part == SubSeq(file, f.pos + 1, f.pos + n)
           y == Total(k, b \o part)
           g == [f EXCEPT !.pos = @ + n]
           more == [Task EXCEPT !.fp = g]
           done == [more EXCEPT !.state = "FINISHED_STATE"]
           p == [Me EXCEPT !.sending_buffer = @ \o SubSeq(file, f.pos + 1, f.pos + n),
                           !.http_task.fp.pos = @ + n]
           q == [p EXCEPT !.http_task.state = "FINISHED_STATE"]
           P == Seq(Piece(script))
<1>1. /\ pc = "http" /\ Task.state = "SEND_BODY_STATE" /\ RequestOf(f.of).target # "dir"
      /\ \/ connection_list' = [connection_list EXCEPT ![cur] = p]
         \/ /\ connection_list' = [connection_list EXCEPT ![cur] = q]
            /\ ~(p.http_task.fp.pos < Len(file))
      /\ script' = script /\ net' = net
  BY DEF SendBody, InHandler, Return
<1>2. /\ DOMAIN Me = PeerFields /\ Task = Me.http_task /\ DOMAIN Task = TaskFields
      /\ cur \in Slot /\ Me = connection_list[cur] /\ c # NULL
      /\ SlotTyped(script, Me) /\ TaskTyped(script, Task)
  BY <1>1, CurrentTyped DEF Able
<1>3. f \in [of : Asked(script), pos : 0 .. FileLen + 1] /\ o \in Asked(script)
  BY <1>1, <1>2 DEF TaskTyped, SendsFile, Parsed
<1>4. p.http_task = more /\ p.sending_buffer = b \o part
  <2> HIDE DEF n, file
  <2> QED
    BY <1>2, <1>3 DEF PeerFields, TaskFields
<1>5. /\ p.socket = c /\ p.receiving_buffer = Me.receiving_buffer /\ DOMAIN p = PeerFields
  BY <1>2 DEF PeerFields
<1>6. /\ b \in P /\ Len(b) <= BUF_DATA_MAXSIZE
      /\ file \in P /\ Len(file) = FileLen + 1
      /\ k.got \in P /\ k.outq \in P
  BY <1>2, <1>3, FileType, Serving DEF SlotTyped
<1> HIDE DEF file, b, p, q
<1>7. f.pos \in Nat /\ n \in Nat /\ f.pos + n <= FileLen + 1 /\ FileLen \in Nat
  <2>1. Len(b) \in Nat /\ f.pos \in 0 .. FileLen + 1
    BY <1>3, <1>6, LenProperties
  <2> QED
    BY <1>6, <2>1, StateAssumption DEF Least, Room
<1>8. g.of = f.of /\ g.pos = f.pos + n
  BY <1>3
<1> HIDE DEF n, g
<1>9. /\ more.state = "SEND_BODY_STATE" /\ more.own = o /\ more.fp = g
      /\ DOMAIN more = TaskFields
  BY <1>1, <1>2 DEF TaskFields
<1> HIDE DEF more
<1>10. done.state = "FINISHED_STATE" /\ done.own = o /\ done.fp = g
  BY <1>9 DEF TaskFields
<1>11. /\ q.http_task = done /\ q.sending_buffer = b \o part
       /\ q.socket = c /\ q.receiving_buffer = Me.receiving_buffer
  BY <1>4, <1>5 DEF PeerFields, q
<1> HIDE DEF done
<1>12. /\ part \in P /\ Drop(file, f.pos) \in P /\ Drop(file, f.pos + n) \in P
       /\ part \o Drop(file, f.pos + n) = Drop(file, f.pos)
  BY <1>6, <1>7, NextPart
<1> HIDE DEF part, P
<1>13. y \o Drop(file, f.pos + n) = x \o Drop(file, f.pos) /\ y \in P
  <2> DEFINE d == Drop(file, f.pos + n)
             v == k.got
             w == k.outq
             S == Piece(script)
  <2>1. v \in Seq(S) /\ w \in Seq(S) /\ b \in Seq(S) /\ part \in Seq(S) /\ d \in Seq(S)
    BY <1>6, <1>12 DEF P
  <2> HIDE DEF d, v, w, S
  <2>2. Cat(Cat(v, w), b \o part) \o d = Cat(Cat(v, w), b) \o (part \o d)
        /\ Cat(Cat(v, w), b \o part) \in Seq(S)
    BY ONLY <2>1, SentMore
  <2> QED
    BY <1>12, <2>2 DEF Total, d, v, w, S, P
<1> HIDE DEF x, y
<1>14. ASSUME Pays(Replies, script, Task, b, x)
       PROVE  /\ y \o FileRest(script, o, f.pos + n) = UpTo(Replies, o[1], m)
              /\ f.of = o
  <2>1. x \o FileRest(script, o, f.pos) = UpTo(Replies, o[1], m) /\ f.of = o
    BY <1>1, <1>14 DEF Pays, SendsFile
  <2>2. /\ FileRest(script, o, f.pos) = Drop(file, f.pos)
        /\ FileRest(script, o, f.pos + n) = Drop(file, f.pos + n)
    BY <1>1, <2>1 DEF FileRest, RequestOf, file
  <2> QED
    BY <1>13, <2>1, <2>2
<1> HIDE DEF f, o, m
<1>15. CASE connection_list' = [connection_list EXCEPT ![cur] = p]
  <2>1. Pays(Replies, script, Task, b, x) => Pays(Replies, script, more, b \o part, y)
    BY <1>8, <1>9, <1>14 DEF Pays, BeforeAnswer, TakesBody, SendsFile, o, m
  <2> QED
    BY <1>1, <1>4, <1>5, <1>9, <1>15, <2>1, GoesOn DEF o, b, x, y
<1>16. CASE /\ connection_list' = [connection_list EXCEPT ![cur] = q]
            /\ ~(p.http_task.fp.pos < Len(file))
  <2>1. f.pos + n = Len(file)
    <3>1. ~(f.pos + n < FileLen + 1)
      BY <1>4, <1>6, <1>8, <1>9, <1>16
    <3> QED
      BY <1>6, <1>7, <3>1
  <2>2. Drop(file, f.pos + n) = <<>>
    BY <1>6, <2>1, DropAll DEF P
  <2>3. y \o <<>> = y
    BY <1>13, ConcatEmptySeq DEF P
  <2>4. ASSUME Pays(Replies, script, Task, b, x) PROVE y = UpTo(Replies, o[1], m)
    <3>1. f.of = o /\ y \o FileRest(script, o, f.pos + n) = UpTo(Replies, o[1], m)
      BY <1>14, <2>4
    <3>2. FileRest(script, o, f.pos + n) = <<>>
      BY <2>2, <3>1 DEF FileRest, file
    <3> QED
      BY <2>3, <3>1, <3>2
  <2>5. Pays(Replies, script, Task, b, x) => Pays(Replies, script, done, b \o part, y)
    BY <1>10, <2>4 DEF Pays, BeforeAnswer, TakesBody, SendsFile, o, m
  <2> QED
    BY <1>1, <1>10, <1>11, <1>16, <2>5, GoesOn DEF o, b, x, y
<1> QED
  BY <1>1, <1>15, <1>16

\* A directory cannot be read (http.c:700), and the client keeps the header.
LEMMA SendBodyFailsAnswers ==
  ASSUME Able, AnswerInv, SendBodyFails PROVE AnswerInv'
<1>1. pc = "http" /\ Me.socket # NULL
  BY CurrentTyped DEF Able, SendBodyFails, InHandler
<1>2. CASE Room(Me.sending_buffer) = 0
  <2>1. UNCHANGED <<connection_list, script, net>>
    BY <1>2 DEF SendBodyFails, peers, world
  <2> QED
    BY <2>1, AnswerStays
<1>3. CASE Room(Me.sending_buffer) # 0
  <2>1. close_client_connection(cur, net) /\ script' = script
    BY <1>3 DEF SendBodyFails, ReturnCloseNow
  <2> QED
    BY <1>1, <2>1, NetHalts, CloseAnswers
<1> QED
  BY <1>2, <1>3

\* A header that is refused, or too long for parse_buf.
LEMMA HeaderRefusedAnswers ==
  ASSUME Able, AnswerInv, HeaderTooLong \/ HeaderRefused PROVE AnswerInv'
<1>1. pc = "http"
  BY DEF HeaderTooLong, HeaderRefused, HeaderComplete, InHandler
<1>2. Me.socket # NULL
  BY <1>1, CurrentTyped DEF Able
<1>3. close_client_connection(cur, net) /\ script' = script
  BY DEF HeaderTooLong, HeaderRefused, ReturnCloseNow
<1> QED
  BY <1>2, <1>3, NetHalts, CloseAnswers

\* The task begins anew, all requests up to its own being answered.
LEMMA FinishAnswers ==
  ASSUME Able, AnswerInv, Finish PROVE AnswerInv'
<1> DEFINE c == Me.socket
           k == net[c]
           b == Me.sending_buffer
           x == Total(k, b)
           new == reset_http_task(Task)
           p == [Me EXCEPT !.http_task = new]
           f == From(k, Unread(Task, Me.receiving_buffer, k.inq))
<1>1. /\ pc = "http" /\ Task.state = "FINISHED_STATE"
      /\ connection_list' = [connection_list EXCEPT ![cur] = p]
      /\ script' = script /\ net' = net
  BY DEF Finish, InHandler, Return, reset_http_task, FreshTask, world
<1>2. /\ DOMAIN Me = PeerFields /\ Task = Me.http_task
      /\ cur \in Slot /\ Me = connection_list[cur] /\ c # NULL
  BY <1>1, CurrentTyped DEF Able
<1>3. new.state = "RECV_HEADER_STATE" /\ new.parse_buf = <<>>
  BY DEF reset_http_task, FreshTask
<1> HIDE DEF new
<1>4. /\ p.socket = c /\ p.receiving_buffer = Me.receiving_buffer
      /\ p.sending_buffer = b /\ p.http_task = new
  BY <1>2 DEF PeerFields
<1> HIDE DEF p
<1>5. /\ Serves(Replies, script, Me, k) /\ Len(script[c]) \in Nat
      /\ Task.own # None => /\ Task.own[2] \in 1 .. Len(script[c])
                            /\ Task.own = <<c, Task.own[2]>>
  BY <1>2, Serving
<1>6. From(k, Unread(new, p.receiving_buffer, k.inq)) = f
  BY <1>1, <1>3, <1>4 DEF Unread, Held
<1> DEFINE m == Task.own[2]
<1>7. ASSUME k.st # "gone"
      PROVE  /\ m \in 0 .. Len(script[c]) /\ x = UpTo(Replies, c, m) /\ Settles(f, m)
             /\ AtRequest(script, new, f)
  <2>1. Owes(Replies, script, c, Task, b, x, f)
    BY <1>2, <1>5, <1>7 DEF Serves
  <2>2. Task.own # None /\ Settles(f, m) /\ Pays(Replies, script, Task, b, x)
    BY <1>1, <2>1 DEF Owes
  <2>3. x = UpTo(Replies, Task.own[1], m)
    BY <1>1, <2>2 DEF Pays
  <2>4. AtRequest(script, new, f)
    BY <1>1, <2>1 DEF Owes, AtRequest
  <2> QED
    BY <1>5, <2>2, <2>3, <2>4
<1> HIDE DEF x, f, m
<1>8. ASSUME k.st # "gone" PROVE Owes(Replies, script, c, new, b, x, f)
  BY <1>3, <1>7, <1>8 DEF Owes
<1>9. Serves(Replies, script, p, k)
  BY <1>4, <1>6, <1>8 DEF Serves, x, f
<1> QED
  BY <1>1, <1>4, <1>9, HandlerAnswers

\* Nobody asks for a script.
LEMMA NoCgiAsked ==
  ASSUME Able PROVE ~CheckCgi
<1>1. NoScripts(script) /\ (request # NULL => request.of \in Asked(script))
  BY DEF Able, Orderly, Full, Typed, RequestTyped
<1> QED
  BY <1>1 DEF CheckCgi, NoScripts, Wanted, RequestOf

\* The header of request m is read when all answers before have been read, so
\* that its answer begins with an empty buffer.
LEMMA HeaderParsedAnswers ==
  ASSUME Able, AnswerInv, HeaderParsed PROVE AnswerInv'
<1> DEFINE c == Me.socket
           k == net[c]
           b == Me.sending_buffer
           x == Total(k, b)
           r == Header[1].req
           a == RequestOf(r)
           m == r[2]
           u == [Task EXCEPT !.parse_buf = Header, !.own = r, !.last_request = a.close]
           P == Seq(Piece(script))
<1>0. Full /\ InputInv
  BY DEF Able
<1>1. /\ pc = "http" /\ Task.state = "RECV_HEADER_STATE" /\ a.method # "MALFORMED"
      /\ script' = script /\ net' = net
      /\ c \in Client /\ c # NULL /\ m \in 1 .. Len(script[c]) /\ r = <<c, m>>
      /\ a = script[c][m] /\ a \in Request
      /\ From(k, Unread(Task, Me.receiving_buffer, k.inq)) = <<m, 1>>
      /\ Before(<<m, 1>>, k.next)
  BY <1>0, HeaderParsedTakes
<1>2. \E p :
        LET d == Unread(p.http_task, p.receiving_buffer, k.inq)
        IN /\ connection_list' = [connection_list EXCEPT ![cur] = p]
           /\ p.socket = c /\ p.sending_buffer = b
           /\ p.http_task = Dispatch(u, a) /\ p.http_task.own = r
           /\ p.http_task.state # "RECV_HEADER_STATE"
           /\ Certain(k, d) => From(k, d) = After(script, c, <<m, 2>>)
  BY <1>0, HeaderParsedTakes
<1>3. PICK p :
        LET d == Unread(p.http_task, p.receiving_buffer, k.inq)
        IN /\ connection_list' = [connection_list EXCEPT ![cur] = p]
           /\ p.socket = c /\ p.sending_buffer = b
           /\ p.http_task = Dispatch(u, a) /\ p.http_task.own = r
           /\ p.http_task.state # "RECV_HEADER_STATE"
           /\ Certain(k, d) => From(k, d) = After(script, c, <<m, 2>>)
  BY <1>2
<1>4. /\ DOMAIN Task = TaskFields /\ Task = Me.http_task /\ TaskTyped(script, Task)
      /\ cur \in Slot /\ Me = connection_list[cur]
  BY <1>0, CurrentTyped
<1>5. /\ Len(script[c]) \in Nat /\ k.got \in P /\ k.outq \in P /\ b \in P /\ x \in P
      /\ Minds(Replies, script, c, k) /\ Serves(Replies, script, Me, k)
  BY <1>1, <1>4, Serving
<1>6. Tells(script, Replies) /\ r \in Asked(script)
  BY <1>1, AbleTells, AskedOf
<1>7. u.response_buf = <<>> /\ DOMAIN u = TaskFields
  BY <1>1, <1>4 DEF TaskTyped, TaskFields
<1> DEFINE t == p.http_task
           d == Unread(t, p.receiving_buffer, k.inq)
           f == From(k, d)
<1> HIDE DEF u
<1>8. /\ t.state \in TakesBody => a.method \in {"GET", "HEAD", "POST"}
      /\ t.state \in TakesBody \cup {"GENERATE_HEADER_STATE"}
      /\ t.state = "GENERATE_HEADER_STATE" =>
           t.response_buf \o NonBodyResponse(r, t.response_code) = Replies[r]
  <2>1. Replies[r] = Answer(r) /\ Replies[r] \in P
    BY <1>6, AbleTells DEF Tells
  <2>2. t = Dispatch(u, a)
    BY <1>3
  <2>3. \A code \in {501, 411} : <<>> \o StatusOf(r, code) = StatusOf(r, code)
    <3> SUFFICES ASSUME NEW code \in {501, 411}
                 PROVE  <<>> \o StatusOf(r, code) = StatusOf(r, code)
      OBVIOUS
    <3>1. code \in Int
      OBVIOUS
    <3>2. StatusOf(r, code) \in P
      BY <1>6, <3>1, StatusType
    <3> QED
      BY <3>2, ConcatEmptySeq
  <2>4. \A code \in {501, 411} : NonBodyResponse(r, code) = StatusOf(r, code)
    BY DEF NonBodyResponse, StatusOf
  <2>5. CASE a.method \in {"GET", "HEAD"}
    BY <1>7, <2>2, <2>5 DEF Dispatch, TaskFields, TakesBody
  <2>6. CASE a.method = "POST" /\ HasLength(a)
    BY <1>7, <2>2, <2>6 DEF Dispatch, TaskFields, TakesBody
  <2>7. CASE a.method = "POST" /\ ~HasLength(a)
    <3> HIDE DEF t, a, r
    <3>1. /\ t.state = "GENERATE_HEADER_STATE" /\ t.response_code = 411
          /\ t.response_buf = <<>>
      BY <1>7, <2>2, <2>7 DEF Dispatch, TaskFields
    <3>2. Answer(r) = StatusOf(r, 411)
      BY <2>7 DEF Answer, StatusOf, a
    <3> QED
      BY <2>1, <2>3, <2>4, <3>1, <3>2 DEF TakesBody
  <2>8. CASE a.method = "OTHER"
    <3> HIDE DEF t, a, r
    <3>1. /\ t.state = "GENERATE_HEADER_STATE" /\ t.response_code = 501
          /\ t.response_buf = <<>>
      BY <1>7, <2>2, <2>8 DEF Dispatch, TaskFields
    <3>2. Answer(r) = StatusOf(r, 501)
      BY <1>6, <2>8, AnswerCases DEF a
    <3> QED
      BY <2>1, <2>3, <2>4, <3>1, <3>2 DEF TakesBody
  <2> QED
    BY <1>1, <2>5, <2>6, <2>7, <2>8 DEF Request
<1>9. ASSUME k.st # "gone" PROVE x = UpTo(Replies, c, m - 1)
  <2>1. Owes(Replies, script, c, Task, b, x, <<m, 1>>)
    BY <1>1, <1>4, <1>5, <1>9 DEF Serves
  <2>2. PICK j \in 0 .. Len(script[c]) : x = UpTo(Replies, c, j) /\ Settles(<<m, 1>>, j)
    BY <1>1, <2>1 DEF Owes
  <2>3. m = j + 1
    BY <2>2 DEF Settles
  <2>4. j = m - 1
    BY <1>1, <2>3
  <2> QED
    BY <2>2, <2>4
<1>10. ASSUME k.st # "gone" PROVE b = <<>>
  <2>1. CASE m = 1
    <3>1. x = <<>>
      BY <1>9, <1>10, <2>1, UpToNone
    <3> DEFINE g == k.got
               o == k.outq
               S == Piece(script)
    <3>2. g \in Seq(S) /\ o \in Seq(S) /\ b \in Seq(S) /\ g \o o \o b = <<>>
      BY <1>5, <3>1 DEF Total, Cat
    <3> HIDE DEF g, o, b, S
    <3>3. Len(g \o o \o b) = Len(g) + Len(o) + Len(b) /\ Len(g) \in Nat /\ Len(o) \in Nat /\ Len(b) \in Nat
      BY ONLY <3>2, Joined
    <3>4. Len(b) = 0
      BY <3>2, <3>3, EmptySeq
    <3> QED
      BY <3>2, <3>4, EmptySeq
  <2>2. CASE m # 1
    <3> DEFINE l == m - 1
    <3>1. l \in 1 .. Len(script[c]) /\ m \in 2 .. Len(script[c]) /\ Len(script[c]) \in Nat
      BY <1>1, <1>5, <2>2
    <3>2. Heard(Replies, <<c, l>>, k)
      BY <1>1, <1>5, <3>1 DEF Minds, Waits
    <3>3. Total(k, b) = UpTo(Replies, c, l)
      BY <1>9, <1>10
    <3>4. /\ k.got \in Seq(Piece(script)) /\ k.outq \in Seq(Piece(script))
          /\ b \in Seq(Piece(script)) /\ c \in Client
      BY <1>1, <1>5
    <3> HIDE DEF l, k, b, c
    <3> QED
      BY <1>6, <3>1, <3>2, <3>3, <3>4, HeardAll
  <2> QED
    BY <2>1, <2>2
<1>11. ASSUME k.st # "gone" PROVE Settles(f, m) /\ AtRequest(script, t, f)
  <2>1. f = After(script, c, <<m, 2>>)
    BY <1>3, <1>11 DEF Certain
  <2>2. (f = <<m, 3>> /\ BodyLen(a) > 0) \/ f = <<m + 1, 1>>
    <3>1. BodyLen(a) \in Nat
      BY <1>1 DEF Request, BodyLen, HasLength
    <3>2. f = IF 2 < 2 + BodyLen(a) THEN <<m, 3>> ELSE <<m + 1, 1>>
      BY <1>1, <2>1 DEF After, Size
    <3> HIDE DEF f, a, m
    <3> QED
      BY <3>1, <3>2
  <2>3. Posted(script) /\ BodyLen(a) > 0 => t.state = "RECV_BODY_STATE"
    <3> SUFFICES ASSUME Posted(script), BodyLen(a) > 0 PROVE t.state = "RECV_BODY_STATE"
      OBVIOUS
    <3>1. a.method = "POST" /\ HasLength(a)
      BY <1>1, <1>6 DEF Posted, BodyLen
    <3>2. t = Dispatch(u, a)
      BY <1>3
    <3> HIDE DEF a
    <3> QED
      BY <1>7, <3>1, <3>2 DEF Dispatch, TaskFields
  <2> HIDE DEF f, a, m, t
  <2> QED
    BY <2>2, <2>3 DEF Settles, AtRequest
<1>12. t.own = r /\ r # None /\ r[1] = c /\ r[2] = m /\ t.state # "RECV_HEADER_STATE"
       /\ p.sending_buffer = b /\ script[r[1]][r[2]] = a
  <2>1. r # None
    BY <1>6, AbleTells, AskedRequest
  <2> QED
    BY <1>1, <1>3, <2>1
<1> HIDE DEF x, f, d, t, b, c, m, a, r
<1>13. ASSUME k.st # "gone" PROVE Owes(Replies, script, c, t, b, x, f)
  <2>1. Pays(Replies, script, t, b, x)
    BY <1>8, <1>9, <1>10, <1>12, <1>13 DEF Pays, BeforeAnswer, TakesBody, SendsFile
  <2> QED
    BY <1>11, <1>12, <1>13, <2>1 DEF Owes
<1>14. Serves(Replies, script, p, k)
  BY <1>3, <1>13 DEF Serves, x, f, d, t, b
<1> QED
  BY <1>1, <1>3, <1>14, HandlerAnswers DEF c

LEMMA HandlerStepAnswers ==
  ASSUME Able, AnswerInv, Enough, Handler PROVE AnswerInv'
<1>1. CASE ProcessingCgi
  <2>1. UNCHANGED <<connection_list, script, net>>
    BY <1>1 DEF ProcessingCgi, peers, world
  <2> QED
    BY <2>1, AnswerStays
<1>2. CASE HandlerDies
  <2>1. UNCHANGED <<connection_list, script, net>>
    BY <1>2 DEF HandlerDies, Die
  <2> QED
    BY <2>1, AnswerStays
<1> QED
  BY <1>1, <1>2, HeaderIncompleteAnswers, HeaderRefusedAnswers, HeaderParsedAnswers,
     ReceiveBodyAnswers, GenerateHeaderAnswers, SendHeaderAnswers, CheckStaticAnswers,
     NoCgiAsked, SendBodyAnswers, SendBodyFailsAnswers, FinishAnswers
  DEF Handler
-----------------------------------------------------------------------------
(* The other steps of the event loop.                                      *)

\* There is no child to be served.
LEMMA NoChild ==
  ASSUME Able PROVE ~CgiWrite /\ ~CgiRead
<1>1. Full /\ FreeInv /\ cur \in Slot /\ Me = connection_list[cur]
  BY CurrentTyped DEF Able
<1>2. Me.cgi_executor = NULL
  BY <1>1 DEF FreeInv
<1>3. pc = "cgi_read" => Me.cgi_executor # NULL
  BY <1>1 DEF Full, Typed, Control
<1> QED
  BY <1>2, <1>3 DEF CgiWrite, CgiRead

LEMMA LoopStepAnswers ==
  ASSUME Able, AnswerInv, Enough, ServerStep PROVE AnswerInv'
<1>0. Full /\ Me = connection_list[cur]
  BY CurrentTyped DEF Able
<1>1. CASE Select \/ SelectDies \/ NoCgi \/ CgiDies \/ SkipSlot
  <2>1. UNCHANGED <<connection_list, script, net>>
    BY <1>1 DEF Select, SelectDies, NoCgi, CgiDies, SkipSlot, Die, peers, world
  <2> QED
    BY <2>1, AnswerStays
<1>2. CASE RecvCloses
  <2>1. /\ Me.socket # NULL
        /\ close_client_connection(cur, net) /\ script' = script
    BY <1>2 DEF RecvCloses, CloseSlot, NO_SOCKET
  <2> QED
    BY <2>1, NetHalts, CloseAnswers
<1>3. CASE SendCloses
  <2>1. /\ pc = "send"
        /\ close_client_connection(cur, SentByKernel) /\ script' = script
    BY <1>3 DEF SendCloses, CloseSlot
  <2>2. Me.socket # NULL
    BY <1>0, <2>1 DEF Full, Typed, Control
  <2> QED
    BY <2>1, <2>2, SentHalts, CloseAnswers
<1> QED
  BY <1>1, <1>2, <1>3, AcceptAnswers, NoChild, RecvAnswers, SendAnswers, HandlerStepAnswers
  DEF ServerStep
-----------------------------------------------------------------------------
(* Clients, children and the end of the server.                            *)

\* A step of client c, which leaves the server alone.
LEMMA ClientAnswers ==
  ASSUME Able, AnswerInv, NEW c \in Client, UNCHANGED <<connection_list, script>>,
         \A d \in Client : d # c => net'[d] = net[d],
         Minds(Replies, script, c, net'[c]),
         \A s \in Slot : connection_list[s].socket = c =>
           Serves(Replies, script, connection_list[s], net'[c])
  PROVE  AnswerInv'
<1>1. Full
  BY DEF Able
<1>2. ASSUME NEW s \in Slot
      PROVE  \/ connection_list'[s] = connection_list[s] /\ connection_list[s].socket # c
             \/ NowServes(s)
  <2>1. CASE connection_list[s].socket = c
    BY <2>1 DEF NowServes
  <2> QED
    BY <2>1
<1> QED
  BY <1>1, <1>2, AnswerStep

\* A client that goes away, or for which nothing changes that counts.
StillThere(k, h) ==
  k.st # "gone" /\ h.outq = k.outq /\ h.conn = k.conn /\ h.inq = k.inq

LEMMA StillAnswers ==
  ASSUME Able, AnswerInv, NEW c \in Client, UNCHANGED <<connection_list, script>>,
         \A d \in Client : d # c => net'[d] = net[d],
         net'[c].got = net[c].got, net'[c].next = net[c].next,
         net'[c].st = "gone" \/ StillThere(net[c], net'[c])
  PROVE  AnswerInv'
<1> DEFINE k == net[c]
           h == net'[c]
<1>1. Minds(Replies, script, c, k)
  BY DEF AnswerInv
<1> HIDE DEF k, h
<1>2. h.got = k.got /\ h.next = k.next /\ (h.st = "gone" \/ StillThere(k, h))
  BY DEF k, h
<1>3. \A q : From(h, q) = From(k, q)
  BY <1>2 DEF From
<1>4. Minds(Replies, script, c, h)
  <2>1. \A r : Heard(Replies, r, h) <=> Heard(Replies, r, k)
    BY <1>2 DEF Heard
  <2>2. Waits(Replies, script, c, h)
    BY <1>1, <1>2, <2>1 DEF Minds, Waits
  <2>3. Outside(Replies, script, c, h)
    BY <1>1, <1>2, <1>3 DEF Minds, Outside, StillThere
  <2> QED
    BY <1>1, <1>2, <2>2, <2>3 DEF Minds
<1>5. ASSUME NEW s \in Slot, connection_list[s].socket = c
      PROVE  Serves(Replies, script, connection_list[s], h)
  <2> DEFINE p == connection_list[s]
  <2>1. c # NULL
    BY StateAssumption
  <2>2. Serves(Replies, script, p, k)
    BY <1>5, <2>1 DEF AnswerInv, SlotServes, k
  <2> HIDE DEF p
  <2>3. CASE h.st = "gone"
    BY <2>3 DEF Serves, p
  <2>4. CASE StillThere(k, h)
    <3>1. \A b : Total(h, b) = Total(k, b)
      BY <1>2, <2>4 DEF Total, StillThere
    <3>2. h.inq = k.inq /\ k.st # "gone"
      BY <2>4 DEF StillThere
    <3>3. Serves(Replies, script, p, h)
      BY <1>3, <2>2, <3>1, <3>2 DEF Serves
    <3> QED
      BY <3>3 DEF p
  <2> QED
    BY <1>2, <2>3, <2>4
<1> QED
  BY <1>4, <1>5, ClientAnswers DEF h

\* It may be the last token of the answer to its last request that lets a client go on.
LEMMA ClientSendAnswers ==
  ASSUME Able, AnswerInv, NEW c \in Client, ClientSend(c) PROVE AnswerInv'
<1> DEFINE k == net[c]
           h == net'[c]
           S == PieceOf(script, c)
           tok == RequestToken(c, k.next[1], k.next[2])
           nxt == IF k.next[2] < 2 + BodyLen(script[c][k.next[1]])
                    THEN <<k.next[1], k.next[2] + 1>> ELSE <<k.next[1] + 1, 1>>
<1>0. Full /\ InputInv /\ ~Pipelined
  BY DEF Able, Orderly
<1>1. /\ UNCHANGED <<connection_list, script, proc>>
      /\ k.st = "on" /\ k.next[1] <= Len(script[c])
      /\ net' = [net EXCEPT ![c].inq = Append(@, tok), ![c].next = nxt]
      /\ ~Pipelined /\ k.next[1] > 1 /\ k.next[2] = 1 => Answered(<<c, k.next[1] - 1>>)
  BY DEF ClientSend, UnchangedServer, peers, HasMore
<1>2. /\ k.inq \in Seq(S) /\ k.next \in (Nat \ {0}) \X Nat
      /\ DOMAIN net = Client /\ \A d \in Client : DOMAIN net[d] = NetFields
  BY <1>0 DEF Full, Typed, NetTyped, IInv, SlotInv, Shape
<1>3. /\ k.next[1] \in Nat \ {0} /\ k.next[2] \in Nat /\ k.next = <<k.next[1], k.next[2]>>
  BY <1>2
<1>4. tok = At(c, k.next) /\ nxt = After(script, c, k.next)
  BY <1>3 DEF At, After, Size
<1>5. \/ nxt[1] = k.next[1] /\ nxt[2] = k.next[2] + 1
      \/ nxt[1] = k.next[1] + 1 /\ nxt[2] = 1
  OBVIOUS
<1> HIDE DEF tok, nxt
<1>6. /\ h.inq = Append(k.inq, tok) /\ h.next = nxt /\ h.st = k.st /\ h.conn = k.conn
      /\ h.got = k.got /\ h.outq = k.outq
      /\ \A d \in Client : d # c => net'[d] = net[d]
  BY <1>1, <1>2 DEF NetFields
<1>7. script[c] \in Seq(Request) /\ Len(script[c]) \in Nat /\ k.next[1] \in 1 .. Len(script[c])
  BY <1>0, <1>1, <1>3, LenProperties DEF Full, Typed, ScriptTyped
<1>8. ASSUME NEW j \in 1 .. Len(script[c])
      PROVE  Size(script, c, j) \in Nat /\ Size(script, c, j) >= 2
  <2>1. script[c][j] \in Request
    BY <1>7, ElementOfSeq
  <2>2. script[c][j].length \in Int
    BY <2>1 DEF Request
  <2> QED
    BY <2>2 DEF Size, BodyLen, HasLength
<1>9. tok \in S
  <2>1. <<c, k.next[1]>> \in Asked(script)
    BY <1>7 DEF Asked
  <2> DEFINE x == k.next[1]
             y == k.next[2]
  <2> HIDE DEF x, y
  <2> QED
    BY <1>3, <2>1 DEF tok, RequestToken, Token, PieceOf, Piece, x, y
<1>10. k.next[1] # Len(script[c]) + 1
  BY <1>1, <1>3, <1>7
<1>11. Minds(Replies, script, c, k)
  BY DEF AnswerInv
<1>12. k.next[1] > 1 /\ k.next[2] = 1 => Heard(Replies, <<c, k.next[1] - 1>>, k)
  <2> SUFFICES ASSUME k.next[1] > 1, k.next[2] = 1 PROVE Heard(Replies, <<c, k.next[1] - 1>>, k)
    OBVIOUS
  <2> DEFINE r == <<c, k.next[1] - 1>>
  <2>1. r \in Asked(script)
    <3>1. k.next[1] - 1 \in 1 .. Len(script[c])
      BY <1>3, <1>7
    <3> QED
      BY <3>1, AskedOf
  <2>2. Replies[r] = Answer(r) /\ Answered(r) /\ r[1] = c
    BY <1>0, <1>1, <2>1 DEF Replies
  <2> HIDE DEF r
  <2>3. Heard(Replies, r, net[c])
    BY <2>2 DEF Answered, Heard
  <2> QED
    BY <2>3 DEF r
<1>13. k.next[2] # 0
  <2>1. k.conn \in {"none", "open"}
    BY DEF ClientSend
  <2>2. CASE k.conn = "none"
    BY <1>0, <1>10, <2>2 DEF InputInv, Unaccepted, Flow, IsSpot
  <2>3. CASE k.conn = "open"
    <3>1. PICK s \in Slot : connection_list[s].socket = c
      BY <1>0, <2>3 DEF Full, IInv, SlotInv, SlotsMatchConnections, Peer
    <3>2. c # NULL
      BY StateAssumption
    <3>3. SlotReads(s)
      BY <1>0 DEF InputInv
    <3> QED
      BY <1>10, <3>1, <3>2, <3>3 DEF SlotReads, Reads, Flow, IsSpot
  <2> QED
    BY <2>1, <2>2, <2>3
<1> HIDE DEF k, h, S
\* The next token is taken up behind what is on its way.
<1>14. ASSUME NEW q \in Seq(S), Flow(script, c, k, q)
       PROVE  From(h, Append(q, tok)) = From(k, q)
  <2>1. HasToken(script, c, k.next)
    BY <1>3, <1>7, <1>8, <1>10, <1>14 DEF Flow, HasToken
  <2> QED
    BY <1>1, <1>4, <1>6, <1>9, <1>14, <2>1, FlowAppend
<1>15. Minds(Replies, script, c, h)
  <2>1. \A r : Heard(Replies, r, h) <=> Heard(Replies, r, k)
    BY <1>6 DEF Heard
  <2>2. Waits(Replies, script, c, h)
    <3> SUFFICES ASSUME NEW j \in 2 .. Len(script[c]), Before(<<j, 1>>, nxt)
                 PROVE  Heard(Replies, <<c, j - 1>>, k)
      BY <1>6, <2>1 DEF Waits
    <3>1. CASE Before(<<j, 1>>, k.next)
      BY <1>11, <3>1 DEF Minds, Waits
    <3>2. CASE ~Before(<<j, 1>>, k.next)
      <4>1. j \in Nat /\ j > 1
        BY <1>7
      <4>2. j = k.next[1] /\ k.next[2] \in {0, 1}
        <5> DEFINE u == k.next[1]
                   v == k.next[2]
                   x == nxt[1]
                   y == nxt[2]
        <5>1. /\ u \in Nat /\ v \in Nat /\ ((x = u /\ y = v + 1) \/ (x = u + 1 /\ y = 1))
              /\ (j < x \/ (j = x /\ 1 < y))
              /\ ~(j < u \/ (j = u /\ 1 < v))
          BY <1>3, <1>5, <3>2 DEF Before
        <5> HIDE DEF u, v, x, y
        <5>2. j = u /\ v \in {0, 1}
          BY <4>1, <5>1
        <5> QED
          BY <5>2 DEF u, v
      <4>3. k.next[2] = 1
        BY <1>13, <4>2
      <4> QED
        BY <1>12, <4>1, <4>2, <4>3
    <3> QED
      BY <3>1, <3>2
  <2>3. Outside(Replies, script, c, h)
    <3>1. k.conn = "none" => From(h, h.inq) = From(k, k.inq)
      <4> SUFFICES ASSUME k.conn = "none" PROVE From(h, h.inq) = From(k, k.inq)
        OBVIOUS
      <4>1. Flow(script, c, k, k.inq)
        BY <1>0 DEF InputInv, Unaccepted, k
      <4> QED
        BY <1>2, <1>6, <1>14, <4>1 DEF k, S
    <3> QED
      BY <1>6, <1>11, <3>1 DEF Minds, Outside
  <2> QED
    BY <1>6, <1>11, <2>2, <2>3 DEF Minds
<1>16. ASSUME NEW s \in Slot, connection_list[s].socket = c
       PROVE  Serves(Replies, script, connection_list[s], h)
  <2> DEFINE p == connection_list[s]
             t == p.http_task
             b == p.receiving_buffer
             q == Unread(t, b, k.inq)
  <2>1. c # NULL
    BY StateAssumption
  <2>2. Reads(script, proc, c, t, b, k) /\ Held(t) \in Seq(S) /\ b \in Seq(S)
    BY <1>0, <1>16, <2>1, SlotOfClient DEF k, S
  <2>3. Serves(Replies, script, p, k)
    BY <1>16, <2>1 DEF AnswerInv, SlotServes, k
  <2>4. k.inq \in Seq(S)
    BY <1>2 DEF k, S
  <2> HIDE DEF p, t, b
  <2>5. q \in Seq(S) /\ Flow(script, c, k, q)
    BY <2>2, <2>4, Joined DEF Reads, Unread
  <2>6. Unread(t, b, h.inq) = Append(q, tok)
    <3> DEFINE x == Held(t) \o b
    <3>1. x \in Seq(S)
      BY <2>2, Joined
    <3> HIDE DEF x
    <3>2. x \o Append(k.inq, tok) = Append(x \o k.inq, tok)
      BY <1>9, <2>4, <3>1
    <3> QED
      BY <1>6, <3>2 DEF x, Unread
  <2>7. From(h, Unread(t, b, h.inq)) = From(k, q)
    BY <1>14, <2>5, <2>6
  <2>8. \A d : Total(h, d) = Total(k, d)
    BY <1>6 DEF Total
  <2>9. Serves(Replies, script, p, h)
    BY <1>6, <2>3, <2>7, <2>8 DEF Serves, t, b
  <2> QED
    BY <2>9 DEF p
<1> QED
  BY <1>1, <1>6, <1>15, <1>16, ClientAnswers DEF h

\* What a client reads it has been sent.
LEMMA ClientReadAnswers ==
  ASSUME Able, AnswerInv, NEW c \in Client, ClientRead(c) PROVE AnswerInv'
<1> DEFINE k == net[c]
           h == net'[c]
           g == k.got
           o == k.outq
           P == Seq(Piece(script))
<1>0. Full
  BY DEF Able
<1>1. /\ UNCHANGED <<connection_list, script>>
      /\ net' = [net EXCEPT ![c].got = @ \o o, ![c].outq = <<>>]
      /\ k.st \in {"on", "shut"} /\ o # <<>>
  BY DEF ClientRead, UnchangedServer, peers
<1>2. /\ o \in P /\ DOMAIN net = Client /\ \A d \in Client : DOMAIN net[d] = NetFields
  BY <1>0 DEF Full, Typed, NetTyped, IInv, SlotInv, Shape
<1>3. Minds(Replies, script, c, k)
  BY DEF AnswerInv
<1>4. g \in P
  BY <1>3 DEF Minds
<1>5. /\ h.got = g \o o /\ h.outq = <<>> /\ h.st = k.st /\ h.conn = k.conn /\ h.inq = k.inq
      /\ h.next = k.next
      /\ \A d \in Client : d # c => net'[d] = net[d]
  BY <1>1, <1>2 DEF NetFields
<1> HIDE DEF g, o, P, k, h
<1>6. /\ g \o o \in P /\ (g \o o) \o <<>> = g \o o
      /\ Len(g) \in Nat /\ Len(o) \in Nat /\ Len(g \o o) = Len(g) + Len(o)
      /\ \A i \in 1 .. Len(g) : (g \o o)[i] = g[i]
  <2> DEFINE S == Piece(script)
  <2>1. g \in Seq(S) /\ o \in Seq(S)
    BY <1>2, <1>4 DEF P
  <2> HIDE DEF S
  <2>2. g \o o \in Seq(S) /\ Len(g \o o) = Len(g) + Len(o)
    BY ONLY <2>1, ConcatProperties
  <2>3. Len(g) \in Nat /\ Len(o) \in Nat
    BY ONLY <2>1, LenProperties
  <2>4. \A i \in 1 .. Len(g) : (g \o o)[i] = g[i]
    BY ONLY <2>1, <2>3, ConcatProperties
  <2>5. (g \o o) \o <<>> = g \o o
    BY ONLY <2>2, ConcatEmptySeq
  <2> QED
    BY <2>2, <2>3, <2>4, <2>5 DEF P, S
<1>7. Cat(h.got, h.outq) = Cat(k.got, k.outq)
  BY <1>5, <1>6 DEF Cat, g, o
<1>8. \A b : Total(h, b) = Total(k, b)
  BY <1>7 DEF Total
<1>9. \A q : From(h, q) = From(k, q)
  BY <1>5 DEF From
<1>10. Minds(Replies, script, c, h)
  <2>1. ASSUME NEW r, Heard(Replies, r, k) PROVE Heard(Replies, r, h)
    <3>1. PICK i \in 1 .. Len(g) : g[i] = Replies[r][Len(Replies[r])]
      BY <2>1 DEF Heard, g
    <3>2. i \in 1 .. Len(g \o o) /\ (g \o o)[i] = g[i]
      BY <1>6
    <3> QED
      BY <1>5, <2>1, <3>1, <3>2 DEF Heard
  <2>2. Waits(Replies, script, c, h)
    BY <1>3, <1>5, <2>1 DEF Minds, Waits
  <2>3. Outside(Replies, script, c, h)
    <3>1. k.conn # "none" /\ k.st # "gone"
      BY <1>1, <1>3 DEF Minds, Outside, o
    <3> QED
      BY <1>3, <1>5, <1>7, <3>1 DEF Minds, Outside
  <2> QED
    BY <1>5, <1>6, <2>2, <2>3 DEF Minds, P
<1>11. ASSUME NEW s \in Slot, connection_list[s].socket = c
       PROVE  Serves(Replies, script, connection_list[s], h)
  <2> DEFINE p == connection_list[s]
  <2>1. c # NULL
    BY StateAssumption
  <2>2. Serves(Replies, script, p, k)
    BY <1>11, <2>1 DEF AnswerInv, SlotServes, k
  <2> HIDE DEF p
  <2>3. Serves(Replies, script, p, h)
    BY <1>5, <1>8, <1>9, <2>2 DEF Serves
  <2> QED
    BY <2>3 DEF p
<1> QED
  BY <1>1, <1>5, <1>10, <1>11, ClientAnswers DEF h

LEMMA EnvironmentAnswers ==
  ASSUME Able, AnswerInv, Environment PROVE AnswerInv'
<1>0. Full
  BY DEF Able
<1>1. ASSUME NEW c \in Client, Connect(c) \/ ClientShutdown(c) \/ ClientVanish(c) PROVE AnswerInv'
  <2>1. /\ UNCHANGED <<connection_list, script>>
        /\ DOMAIN net = Client /\ \A d \in Client : DOMAIN net[d] = NetFields
    BY <1>0, <1>1
       DEF Connect, ClientShutdown, ClientVanish, UnchangedServer, peers, Full, IInv, SlotInv, Shape
  <2>2. /\ \A d \in Client : d # c => net'[d] = net[d]
        /\ net'[c].got = net[c].got /\ net'[c].next = net[c].next
        /\ net'[c].st = "gone" \/ StillThere(net[c], net'[c])
    <3>1. CASE ClientVanish(c)
      <4>1. PICK q \in {net[c].inq, <<>>} :
              net' = [net EXCEPT ![c].st = "gone", ![c].inq = q, ![c].outq = <<>>]
        BY <3>1 DEF ClientVanish
      <4> QED
        BY <2>1, <4>1 DEF NetFields
    <3>2. CASE Connect(c)
      BY <2>1, <3>2 DEF Connect, NetFields, StillThere
    <3>3. CASE ClientShutdown(c)
      BY <2>1, <3>3 DEF ClientShutdown, NetFields, StillThere
    <3> QED
      BY <1>1, <3>1, <3>2, <3>3
  <2> QED
    BY <2>1, <2>2, StillAnswers
<1>2. ASSUME NEW p, ChildRead(p) \/ ChildWrite(p) \/ ChildExit(p) \/ ChildFails(p) PROVE AnswerInv'
  <2>1. UNCHANGED <<connection_list, script, net>>
    BY <1>2 DEF ChildRead, ChildWrite, ChildExit, ChildFails, UnchangedServer, peers
  <2> QED
    BY <2>1, AnswerStays
<1> QED
  BY <1>1, <1>2, ClientSendAnswers, ClientReadAnswers DEF Environment
-----------------------------------------------------------------------------
(* The theorem.                                                            *)

\* The fold that makes SlotBytes, over the one slot of a client or none.
Joining(S, g) ==
  g = [T \in SUBSET S |->
         IF T = {} THEN <<>> ELSE LET x == CHOOSE y \in T : TRUE IN g[T \ {x}] \o Peer(x).sending_buffer]

LEMMA FoldOne ==
  ASSUME NEW S, NEW i, S = {} \/ S = {i}, S = {i} => <<>> \o Peer(i).sending_buffer = Peer(i).sending_buffer
  PROVE  FoldSet(LAMBDA s, acc : acc \o Peer(s).sending_buffer, <<>>, S) = IF S = {} THEN <<>> ELSE Peer(i).sending_buffer
<1> DEFINE iter == CHOOSE g : Joining(S, g)
           w == [T \in SUBSET S |-> IF T = {} THEN <<>> ELSE Peer(i).sending_buffer]
<1>1. Joining(S, w)
  <2> DEFINE v(T) == IF T = {} THEN <<>> ELSE LET x == CHOOSE y \in T : TRUE IN w[T \ {x}] \o Peer(x).sending_buffer
  <2>1. ASSUME NEW T \in SUBSET S PROVE w[T] = v(T)
    <3>1. CASE T = {}
      BY <3>1
    <3>2. CASE T # {}
      <4>1. T = {i} /\ S = {i}
        BY <3>2
      <4>2. (CHOOSE y \in T : TRUE) = i
        BY <4>1
      <4>3. T \ {i} = {} /\ {} \in SUBSET S
        BY <4>1
      <4>4. w[{}] = <<>>
        BY <4>3
      <4>5. w[T] = Peer(i).sending_buffer
        BY <3>2
      <4> HIDE DEF w
      <4>6. v(T) = <<>> \o Peer(i).sending_buffer
        BY <3>2, <4>2, <4>3, <4>4
      <4> QED
        BY <4>1, <4>5, <4>6
    <3> QED
      BY <3>1, <3>2
  <2>2. w = [T \in SUBSET S |-> w[T]]
    OBVIOUS
  <2> HIDE DEF w
  <2>3. w = [T \in SUBSET S |-> v(T)]
    BY <2>1, <2>2
  <2> QED
    BY <2>3 DEF Joining
<1>2. Joining(S, iter)
  BY <1>1
<1> HIDE DEF iter, w
<1>3. iter = [T \in SUBSET S |->
                IF T = {} THEN <<>> ELSE LET x == CHOOSE y \in T : TRUE IN iter[T \ {x}] \o Peer(x).sending_buffer]
  BY <1>2 DEF Joining
<1>4. iter[{}] = <<>>
  BY <1>3
<1>5. iter[S] = IF S = {} THEN <<>> ELSE Peer(i).sending_buffer
  <2>1. CASE S = {}
    BY <1>4, <2>1
  <2>2. CASE S = {i}
    <3>1. (CHOOSE y \in S : TRUE) = i /\ S \ {i} = {} /\ S # {} /\ S \in SUBSET S
      BY <2>2
    <3>2. iter[S] = iter[{}] \o Peer(i).sending_buffer
      BY <1>3, <3>1
    <3> QED
      BY <1>4, <2>2, <3>1, <3>2
  <2> QED
    BY <2>1, <2>2
<1>6. FoldSet(LAMBDA s, acc : acc \o Peer(s).sending_buffer, <<>>, S) = iter[S]
  BY DEF FoldSet, MapThenFoldSet, iter, Joining
<1> QED
  BY <1>5, <1>6

LEMMA SlotBytesOf ==
  ASSUME Full, NEW c \in Client
  PROVE  /\ net[c].conn # "open" => SlotBytes(c) = <<>>
         /\ \A s \in Slot : connection_list[s].socket = c => SlotBytes(c) = connection_list[s].sending_buffer
<1> DEFINE S == {s \in Slot : Peer(s).socket = c}
<1>1. SlotBytes(c) = FoldSet(LAMBDA s, acc : acc \o Peer(s).sending_buffer, <<>>, S)
  BY DEF SlotBytes
<1>2. CASE S = {}
  <2>1. SlotBytes(c) = <<>>
    BY <1>1, <1>2, FoldOne
  <2> QED
    BY <1>2, <2>1 DEF Peer
<1>3. ASSUME NEW s \in Slot, connection_list[s].socket = c
      PROVE  SlotBytes(c) = connection_list[s].sending_buffer
  <2>1. c # NULL
    BY StateAssumption
  <2>2. S = {s}
    BY <1>3, <2>1, TwoClients DEF Peer
  <2> DEFINE b == Peer(s).sending_buffer
             T == Piece(script)
  <2>3. b \in Seq(T)
    BY DEF Full, Typed, SlotsTyped, SlotTyped, Peer
  <2> HIDE DEF b, T
  <2>4. <<>> \o b = b
    BY ONLY <2>3, ConcatEmptySeq
  <2>5. SlotBytes(c) = b
    BY <1>1, <2>2, <2>4, FoldOne DEF b
  <2> QED
    BY <2>5 DEF b, Peer
<1>4. ASSUME net[c].conn # "open" PROVE S = {}
  <2>1. \A s \in Slot : Peer(s).socket # c
    BY <1>4 DEF Full, IInv, SlotInv, SlotsMatchConnections, Peer
  <2> QED
    BY <2>1
<1> QED
  BY <1>2, <1>3, <1>4 DEF Peer

LEMMA AnswersMean ==
  ASSUME Able, AnswerInv PROVE AnswersInOrder
<1> SUFFICES ASSUME NEW c \in Client, net[c].st # "gone"
             PROVE  IsPrefix(net[c].got \o net[c].outq \o SlotBytes(c), Answers(c))
  BY DEF AnswersInOrder
<1> DEFINE u == UpTo(Replies, c, Len(script[c]))
           b == SlotBytes(c)
<1>0. Full
  BY DEF Able
<1>1. Answers(c) = u
  <2>1. \A j \in 1 .. Len(script[c]) : Replies[<<c, j>>] = Answer(<<c, j>>)
    BY AskedOf DEF Replies
  <2>2. [j \in 1 .. Len(script[c]) |-> Replies[<<c, j>>]]
          = [j \in 1 .. Len(script[c]) |-> Answer(<<c, j>>)]
    BY <2>1
  <2> QED
    BY <2>2 DEF Answers, AnswerList, UpTo
<1>2. CASE net[c].conn = "open"
  <2>1. PICK s \in Slot : connection_list[s].socket = c
    BY <1>0, <1>2 DEF Full, IInv, SlotInv, SlotsMatchConnections, Peer
  <2>2. c # NULL
    BY StateAssumption
  <2>3. b = connection_list[s].sending_buffer
    BY <1>0, <2>1, SlotBytesOf
  <2>4. IsPrefix(Total(net[c], b), u)
    BY <2>1, <2>2, <2>3, OwedPrefix
  <2> QED
    BY <1>1, <2>4 DEF Total, Cat
<1>3. CASE net[c].conn # "open"
  <2>1. b = <<>>
    BY <1>0, <1>3, SlotBytesOf
  <2> DEFINE g == net[c].got
             o == net[c].outq
             T == Piece(script)
  <2>2. g \in Seq(T) /\ o \in Seq(T)
    BY <1>0 DEF AnswerInv, Minds, Full, Typed, NetTyped
  <2>3. IsPrefix(Cat(g, o), u)
    BY GotPrefix
  <2> HIDE DEF g, o, T
  <2>4. g \o o \in Seq(T)
    BY ONLY <2>2, ConcatProperties
  <2>5. (g \o o) \o <<>> = g \o o
    BY ONLY <2>4, ConcatEmptySeq
  <2>6. g \o o \o b = Cat(g, o)
    BY <2>1, <2>5 DEF Cat
  <2> QED
    BY <1>1, <2>3, <2>6 DEF g, o
<1> QED
  BY <1>2, <1>3

LEMMA InitAnswers ==
  ASSUME Init PROVE AnswerInv
<1>1. ASSUME NEW c \in Client PROVE Minds(Replies, script, c, net[c])
  <2> DEFINE k == net[c]
  <2>1. /\ k.st = "off" /\ k.conn = "none" /\ k.inq = <<>> /\ k.outq = <<>> /\ k.got = <<>>
        /\ k.next = <<1, 1>>
    BY DEF Init
  <2> HIDE DEF k
  <2>2. k.got \in Seq(Piece(script))
    BY <2>1, EmptySeq
  <2>3. Outside(Replies, script, c, k)
    BY <2>1 DEF Outside, From
  <2>4. Waits(Replies, script, c, k)
    <3>1. Len(script[c]) \in Nat
      BY StateAssumption, LenProperties DEF Init
    <3>2. \A j \in 2 .. Len(script[c]) : ~Before(<<j, 1>>, k.next)
      BY <2>1, <3>1 DEF Before
    <3> QED
      BY <3>2 DEF Waits
  <2> QED
    BY <2>2, <2>3, <2>4 DEF Minds, k
<1>2. \A s \in Slot : connection_list[s].socket = NULL
  BY DEF Init, FreshPeer, NO_SOCKET
<1> QED
  BY <1>1, <1>2 DEF AnswerInv, SlotServes

LEMMA NextAnswers ==
  ASSUME Able, AnswerInv, Enough, [Next]_vars PROVE AnswerInv'
<1>1. CASE UNCHANGED vars
  BY <1>1, AnswerStays DEF vars
<1>2. CASE Interrupt \/ SelectFails
  BY <1>2, ShutdownAnswers DEF Interrupt, SelectFails
<1> QED
  BY <1>1, <1>2, LoopStepAnswers, EnvironmentAnswers DEF Next

Known == Base /\ Freed /\ Given
Owed == Orderly(script) => AnswerInv

LEMMA KnownAble == Known /\ Orderly(script) => Able
  BY DEF Known, Base, Freed, Given, Able, Orderly

LEMMA NextOwed == Known /\ Owed /\ Enough /\ [Next]_vars => Owed'
<1> SUFFICES ASSUME Known, Owed, Enough, [Next]_vars, Orderly(script)' PROVE AnswerInv'
  BY DEF Owed
<1>1. Orderly(script)
  BY AsksStay DEF Orderly
<1> QED
  BY <1>1, KnownAble, NextAnswers DEF Owed

\* As long as the clients ask for files only, each of them waits for an answer before
\* it asks again, and their requests do not meet in the global request (one
\* connection at a time, or no bodies to wait for): while a descriptor is left for the
\* file that a task opens, what a client has read, what the kernel holds for it and
\* what its sending buffer holds is a beginning of the answers to its own requests,
\* through every partial send, full buffer, hang-up, refusal and reuse of a slot.
THEOREM AnswersOrdered == Spec /\ []Enough => [](Orderly(script) => AnswersInOrder)
<1>1. Init => Known /\ Owed
  BY InitBase, InitFreed, InitGiven, InitAnswers DEF Known, Owed
<1>2. (Known /\ Owed) /\ Enough /\ [Next]_vars => (Known /\ Owed)'
  BY NextBase, NextFreed, NextGiven, NextOwed DEF Known
<1>3. Known /\ Owed => (Orderly(script) => AnswersInOrder)
  BY KnownAble, AnswersMean DEF Owed
<1> QED
  BY <1>1, <1>2, <1>3, PTL DEF Spec
-----------------------------------------------------------------------------
(* The refinement of Responder: only answers to requests that have been    *)
(* sent completely.                                                        *)

LEMMA UpToMonotone ==
  ASSUME NEW sc, NEW a, Tells(sc, a), NEW c \in Client, Len(sc[c]) \in Nat,
         NEW j \in 0 .. Len(sc[c]), NEW i \in 0 .. j
  PROVE  IsPrefix(UpTo(a, c, i), UpTo(a, c, j))
<1> DEFINE u(m) == UpTo(a, c, m)
           n == j - i
           Good == {d \in 0 .. n : IsPrefix(u(i), u(i + d))}
           S == Piece(sc)
<1>1. \A m \in 0 .. Len(sc[c]) : u(m) \in Seq(S)
  <2>1. \A m \in 0 .. Len(sc[c]) : IsUpTo(sc, a, c, m)
    BY UpToType
  <2> QED
    BY <2>1 DEF IsUpTo
<1>2. \A m \in 1 .. Len(sc[c]) : IsPrefix(u(m - 1), u(m))
  <2>1. ASSUME NEW m \in 1 .. Len(sc[c]) PROVE IsPrefix(u(m - 1), u(m))
    <3>1. m - 1 \in 0 .. Len(sc[c])
      OBVIOUS
    <3>2. IsUpTo(sc, a, c, m - 1)
      BY <3>1, UpToType
    <3> QED
      BY <3>2, UpToGrows
  <2> QED
    BY <2>1
<1> HIDE DEF u, S
<1>3. n \in Nat /\ i \in 0 .. Len(sc[c])
  OBVIOUS
<1>4. 0 \in Good
  <2>1. i + 0 = i /\ 0 \in 0 .. n
    BY <1>3
  <2>2. u(i) \in Seq(S)
    BY <1>1, <1>3
  <2>3. IsPrefix(u(i), u(i))
    BY ONLY <2>2, PrefixSelf
  <2> QED
    BY <2>1, <2>3
<1>5. ASSUME NEW d \in 0 .. n - 1, d \in Good PROVE d + 1 \in Good
  <2> DEFINE x == u(i)
             y == u(i + d)
             z == u(i + (d + 1))
  <2>1. /\ i + d \in 0 .. Len(sc[c]) /\ i + (d + 1) \in 1 .. Len(sc[c]) /\ i + (d + 1) - 1 = i + d
        /\ d + 1 \in 0 .. n
    BY <1>3
  <2>2. /\ x \in Seq(S) /\ y \in Seq(S) /\ z \in Seq(S) /\ IsPrefix(x, y)
    BY <1>1, <1>3, <1>5, <2>1
  <2>3. IsPrefix(y, z)
    BY <1>2, <2>1
  <2> HIDE DEF x, y, z
  <2>4. IsPrefix(x, z)
    BY ONLY <2>2, <2>3, PrefixTransitive
  <2> QED
    BY <2>1, <2>4 DEF x, z
<1> HIDE DEF Good, n
<1>6. n \in Good
  <2>1. \A d \in 0 .. n : d \in Good
    BY <1>3, <1>4, <1>5, Climb
  <2> QED
    BY <1>3, <2>1
<1>7. i + n = j
  BY DEF n
<1> QED
  BY <1>6, <1>7 DEF Good, u

\* What a client gets are answers to the requests that it has sent completely.
LEMMA TotalAsked ==
  ASSUME Able, AnswerInv, Posted(script), NEW s \in Slot, connection_list[s].socket # NULL,
         net[connection_list[s].socket].st # "gone"
  PROVE  LET p == connection_list[s]
             c == p.socket
             k == net[c]
         IN /\ k.next[1] - 1 \in 0 .. Len(script[c])
            /\ IsPrefix(Total(k, p.sending_buffer), UpTo(Replies, c, k.next[1] - 1))
<1> DEFINE p == connection_list[s]
           t == p.http_task
           c == p.socket
           k == net[c]
           n == Len(script[c])
           x == Total(k, p.sending_buffer)
           a == Replies
           m == t.own[2]
           q == Unread(t, p.receiving_buffer, k.inq)
           f == From(k, q)
           e == k.next[1] - 1
           S == Piece(script)
<1>0. Full /\ InputInv
  BY DEF Able
<1>1. /\ c \in Client /\ n \in Nat /\ x \in Seq(S)
      /\ t.own # None => m \in 1 .. n /\ t.own = <<c, m>>
  BY Serving
<1>2. Owes(a, script, c, t, p.sending_buffer, x, f)
  <2>1. Serves(a, script, p, k)
    BY Serving
  <2> QED
    BY <2>1 DEF Serves
<1>3. Tells(script, a)
  BY AbleTells
<1>4. /\ Flow(script, c, k, q) /\ k.next[1] \in Nat /\ q \in Seq(PieceOf(script, c))
      /\ t.state \in TakesBody => t.own # None /\ Taking(script, proc, t, k, q)
  <2> DEFINE T == PieceOf(script, c)
             hd == Held(t)
             b == p.receiving_buffer
             i == k.inq
  <2>1. /\ Reads(script, proc, c, t, b, k) /\ k.next[1] \in Nat
        /\ t.state \in TakesBody => t.own # None
        /\ hd \in Seq(T) /\ b \in Seq(T) /\ i \in Seq(T)
    BY <1>0, SlotOfClient
  <2>2. hd \o b \o i \in Seq(T)
    <3> HIDE DEF T, hd, b, i
    <3> QED
      BY ONLY <2>1, Joined
  <2> QED
    BY <2>1, <2>2 DEF Reads, Unread
<1> HIDE DEF p, t, c, k, n, x, a, q, S, m
<1>5. e \in 0 .. n /\ f[1] \in Nat /\ f[1] <= k.next[1]
  <2>1. k.next[1] \in 1 .. n + 1
    BY <1>1, <1>4 DEF Flow, IsSpot, n
  <2>2. CASE q = <<>>
    BY <1>1, <1>4, <2>1, <2>2 DEF From
  <2>3. CASE q # <<>>
    <3>1. Len(q) \in Nat /\ Len(q) > 0
      BY <1>4, <2>3, LenProperties, EmptySeq
    <3>2. 1 \in 1 .. Len(q)
      BY <3>1
    <3>3. f = SpotOf(q[1])
      BY <2>3 DEF From
    <3>4. IsSpot(script, c, f) /\ Before(f, k.next)
      BY <1>4, <3>2, <3>3 DEF Flow, InOrder
    <3>5. f[1] \in 1 .. n
      BY <3>4 DEF IsSpot, n
    <3>6. f[1] < k.next[1] \/ f[1] = k.next[1]
      BY <3>4 DEF Before
    <3> HIDE DEF f
    <3> QED
      BY <1>1, <2>1, <3>5, <3>6
  <2> QED
    BY <2>2, <2>3
<1> HIDE DEF f
\* A number of answers that is not too large.
<1>6. \E j \in 0 .. e : IsPrefix(x, UpTo(a, c, j))
  <2>1. CASE t.state = "RECV_HEADER_STATE"
    <3>1. PICK j \in 0 .. n : x = UpTo(a, c, j) /\ Settles(f, j)
      BY <1>2, <2>1 DEF Owes, n
    <3>2. f[2] = 1
      BY <1>2, <2>1 DEF Owes, AtRequest
    <3>3. f[1] = j + 1
      BY <3>1, <3>2 DEF Settles
    <3>4. j \in 0 .. e
      BY <1>1, <1>4, <1>5, <3>3
    <3>5. IsPrefix(x, x)
      BY <1>1, PrefixSelf
    <3> QED
      BY <3>1, <3>4, <3>5
  <2>2. CASE t.state = "RECV_BODY_STATE"
    <3>1. t.own # None /\ Pays(a, script, t, p.sending_buffer, x)
      BY <1>2, <2>2 DEF Owes
    <3>2. m \in 1 .. n /\ t.own = <<c, m>>
      BY <1>1, <3>1
    <3>3. x = UpTo(a, c, m - 1)
      BY <2>2, <3>1, <3>2 DEF Pays, BeforeAnswer, TakesBody, m
    <3>4. m < f[1] \/ m = f[1]
      <4>1. Taking(script, proc, t, k, q)
        BY <1>4, <2>2 DEF TakesBody
      <4>2. Before(<<m, 1>>, f)
        BY <4>1 DEF Taking, m, f
      <4> QED
        BY <4>2 DEF Before
    <3>5. m - 1 \in 0 .. e
      BY <1>1, <1>4, <1>5, <3>2, <3>4
    <3>6. IsPrefix(x, x)
      BY <1>1, PrefixSelf
    <3> QED
      BY <3>3, <3>5, <3>6
  <2>3. CASE t.state \notin {"RECV_HEADER_STATE", "RECV_BODY_STATE"}
    <3>1. t.own # None /\ Settles(f, m)
      BY <1>2, <2>3 DEF Owes, m
    <3>2. f[2] = 1
      BY <1>2, <2>3 DEF Owes, AtRequest
    <3>3. f[1] = m + 1 /\ m \in 1 .. n
      BY <1>1, <3>1, <3>2 DEF Settles
    <3>4. m \in 0 .. e
      BY <1>1, <1>4, <1>5, <3>3
    <3>5. IsPrefix(x, UpTo(a, c, m))
      BY <2>3, OwnPrefix DEF p, t, c, k, x, a, m
    <3> QED
      BY <3>4, <3>5
  <2> QED
    BY <2>1, <2>2, <2>3
<1>7. IsPrefix(x, UpTo(a, c, e))
  <2>1. PICK j \in 0 .. e : IsPrefix(x, UpTo(a, c, j))
    BY <1>6
  <2> HIDE DEF e
  <2>2. IsPrefix(UpTo(a, c, j), UpTo(a, c, e))
    BY <1>1, <1>3, <1>5, <2>1, UpToMonotone DEF n
  <2>3. /\ x \in Seq(S) /\ UpTo(a, c, j) \in Seq(S) /\ UpTo(a, c, e) \in Seq(S)
    <3>1. j \in 0 .. n
      BY <1>1, <1>5
    <3>2. IsUpTo(script, a, c, j) /\ IsUpTo(script, a, c, e)
      BY <1>1, <1>3, <1>5, <3>1, UpToType DEF n
    <3> QED
      BY <1>1, <3>2 DEF IsUpTo, S
  <2> QED
    BY ONLY <2>1, <2>2, <2>3, PrefixTransitive
<1> QED
  BY <1>5, <1>7 DEF p, t, c, k, n, x, a, q, f, S

LEMMA AskedType ==
  ASSUME Able, NEW c \in Client, NEW n \in 0 .. Len(script[c])
  PROVE  UpTo(Replies, c, n) \in Seq(Piece(script))
<1>1. Tells(script, Replies) /\ Len(script[c]) \in Nat
  BY AbleTells
<1>2. IsUpTo(script, Replies, c, n)
  BY <1>1, UpToType
<1> QED
  BY <1>2 DEF IsUpTo
-----------------------------------------------------------------------------
(* What each kind of step is for the clients.                              *)

PromiseStep == [Promise!Next]_(Promise!vars)

LEMMA AnswersStay ==
  ASSUME script' = script
  PROVE  [c \in Client |-> AnswerList(c)]' = [c \in Client |-> AnswerList(c)]
<1>1. ASSUME NEW r PROVE Answer(r)' = Answer(r)
  BY DEF Answer, FileAnswer, RequestOf, OutputLen
<1>2. ASSUME NEW c \in Client PROVE AnswerList(c)' = AnswerList(c)
  BY <1>1 DEF AnswerList
<1> QED
  BY <1>2

\* The clients see nothing of a step.
LEMMA Unseen ==
  ASSUME script' = script,
         \A c \in Client : /\ AskedCount(c)' = AskedCount(c)
                           /\ SentTo(c)' = SentTo(c)
                           /\ Link(c)' = Link(c)
  PROVE  PromiseStep
<1>1. UNCHANGED Promise!vars
  BY AnswersStay DEF Promise!vars
<1> QED
  BY <1>1 DEF PromiseStep

LEMMA NetUnseen == ASSUME script' = script, net' = net PROVE PromiseStep
<1>1. \A c \in Client : /\ AskedCount(c)' = AskedCount(c)
                        /\ SentTo(c)' = SentTo(c)
                        /\ Link(c)' = Link(c)
  BY DEF AskedCount, SentTo, Link
<1> QED
  BY <1>1, Unseen

\* What the clients other than c see stays.
LEMMA OthersSee ==
  ASSUME NEW c \in Client, \A d \in Client : d # c => net'[d] = net[d]
  PROVE  \A d \in Client \ {c} :
           AskedCount(d)' = AskedCount(d) /\ SentTo(d)' = SentTo(d) /\ Link(d)' = Link(d)
  BY DEF AskedCount, SentTo, Link

\* A step of which c sees nothing either.
LEMMA OneUnseen ==
  ASSUME script' = script, NEW c \in Client, \A d \in Client : d # c => net'[d] = net[d],
         AskedCount(c)' = AskedCount(c), SentTo(c)' = SentTo(c), Link(c)' = Link(c)
  PROVE  PromiseStep
<1>1. ASSUME NEW d \in Client
      PROVE  AskedCount(d)' = AskedCount(d) /\ SentTo(d)' = SentTo(d) /\ Link(d)' = Link(d)
  BY OthersSee
<1> QED
  BY <1>1, Unseen

\* The answers to the first n requests of c, as the Responder writes them.
LEMMA PromisedAnswers ==
  ASSUME Able, NEW c \in Client, NEW n \in 0 .. Len(script[c])
  PROVE  Promise!FlattenSeq(SubSeq([d \in Client |-> AnswerList(d)][c], 1, n)) = UpTo(Replies, c, n)
<1> DEFINE v(j) == Answer(<<c, j>>)
           a == [j \in 1 .. Len(script[c]) |-> v(j)]
           b == [j \in 1 .. n |-> v(j)]
           V == {v(j) : j \in 1 .. Len(script[c])}
<1>1. Len(script[c]) \in Nat /\ \A r \in Asked(script) : Replies[r] = Answer(r)
  BY AbleTells
<1>2. [d \in Client |-> AnswerList(d)][c] = a
  BY DEF AnswerList
<1> HIDE DEF v
<1>3. a \in Seq(V) /\ Len(a) = Len(script[c])
  BY <1>1, IsASeq
<1>4. b \in Seq(V) /\ Len(b) = n
  <2>1. \A j \in 1 .. n : v(j) \in V
    BY <1>1
  <2> QED
    BY <2>1, IsASeq
<1>5. SubSeq(a, 1, n) = b
  <2> HIDE DEF V
  <2>1. n \in 0 .. Len(a)
    BY <1>3
  <2>2. Take(a, n) \in Seq(V) /\ Len(Take(a, n)) = n
    BY <1>3, <2>1, TakeType
  <2>3. \A j \in 1 .. n : Take(a, n)[j] = a[j]
    BY <1>3, <2>1, TakeElement
  <2>4. \A j \in 1 .. n : a[j] = b[j]
    BY <1>1
  <2> HIDE DEF a, b
  <2>5. Take(a, n) = b
    BY <1>4, <2>2, <2>3, <2>4, SeqEqual
  <2> QED
    BY <2>5 DEF Take
<1>6. b = [j \in 1 .. n |-> Replies[<<c, j>>]]
  <2>1. \A j \in 1 .. n : Replies[<<c, j>>] = v(j)
    BY <1>1, AskedOf DEF v
  <2> QED
    BY <2>1
<1>7. Promise!FlattenSeq(b) = FlattenSeq(b)
  BY DEF Promise!FlattenSeq, FlattenSeq
<1> QED
  BY <1>2, <1>5, <1>6, <1>7 DEF UpTo

\* Some more is sent to c, whose connection may be closed then.
LEMMA MoreIsSent ==
  ASSUME Able, script' = script, NEW c \in Client, \A d \in Client : d # c => net'[d] = net[d],
         net[c].st # "gone", net'[c].st = net[c].st, net[c].conn = "open",
         net'[c].conn \in {"open", "closed"}, net'[c].next = net[c].next,
         net[c].next[1] - 1 \in 0 .. Len(script[c]),
         IsPrefix(Cat(net[c].got, net[c].outq), Cat(net'[c].got, net'[c].outq)),
         IsPrefix(Cat(net'[c].got, net'[c].outq), UpTo(Replies, c, net[c].next[1] - 1))
  PROVE  PromiseStep
<1> DEFINE link == [d \in Client |-> Link(d)]
           reply == [d \in Client |-> SentTo(d)]
           asked == [d \in Client |-> AskedCount(d)]
<1>1. \A d \in Client \ {c} :
        AskedCount(d)' = AskedCount(d) /\ SentTo(d)' = SentTo(d) /\ Link(d)' = Link(d)
  BY OthersSee
<1>2. /\ Link(c) = "open" /\ Link(c)' \in {"open", "over"}
      /\ SentTo(c) = Cat(net[c].got, net[c].outq) /\ SentTo(c)' = Cat(net'[c].got, net'[c].outq)
      /\ AskedCount(c)' = AskedCount(c) /\ AskedCount(c) = net[c].next[1] - 1
  BY DEF Link, SentTo, AskedCount, Cat
<1>3. /\ link' = [link EXCEPT ![c] = link'[c]] /\ reply' = [reply EXCEPT ![c] = reply'[c]]
      /\ asked' = asked
  BY <1>1, <1>2
<1>4. Promise!IsPrefix(SentTo(c), SentTo(c)')
  BY <1>2 DEF Promise!IsPrefix, IsPrefix
<1>5. Promise!IsPrefix(SentTo(c)',
        Promise!FlattenSeq(SubSeq([d \in Client |-> AnswerList(d)][c], 1, asked[c])))
  <2>1. asked[c] = net[c].next[1] - 1
    BY <1>2
  <2>2. Promise!FlattenSeq(SubSeq([d \in Client |-> AnswerList(d)][c], 1, asked[c]))
          = UpTo(Replies, c, net[c].next[1] - 1)
    BY <2>1, PromisedAnswers
  <2> QED
    BY <1>2, <2>2 DEF Promise!IsPrefix, IsPrefix
<1>6. Promise!Answer(c)
  BY <1>2, <1>3, <1>4, <1>5 DEF Promise!Answer
<1> QED
  BY <1>6, AnswersStay DEF PromiseStep, Promise!Next

\* A connection is closed, for whatever reason.
LEMMA CloseIsSeen ==
  ASSUME Able, AnswerInv, Posted(script), Me.socket # NULL, NEW k,
         Halts(k, Me.socket, Me.sending_buffer), close_client_connection(cur, k), script' = script
  PROVE  PromiseStep
<1>1. cur \in Slot /\ Me = connection_list[cur]
  BY CurrentTyped DEF Able
<1>0. PICK c \in Client : c = Me.socket
  BY <1>1, Serving
<1> DEFINE x == Total(net[c], Me.sending_buffer)
           z == Cat(k[c].got, k[c].outq)
           S == Piece(script)
<1>2. c = Me.socket /\ net[c].conn = "open" /\ x \in Seq(S) /\ Halts(k, c, Me.sending_buffer)
  BY <1>0, <1>1, Serving
<1>3. net' = [k EXCEPT ![c].conn = "closed", ![c].inq = <<>>]
  BY <1>0, <1>1 DEF close_client_connection, Peer, NO_SOCKET
<1>4. /\ \A d \in Client : d # c => net'[d] = net[d]
      /\ net'[c].conn = "closed" /\ net'[c].st = net[c].st /\ net'[c].got = k[c].got
      /\ net'[c].next = net[c].next /\ net'[c].outq = k[c].outq /\ k[c].st = net[c].st
  BY <1>2, <1>3 DEF Halts, NetFields
<1>5. CASE net[c].st = "gone"
  <2>1. AskedCount(c)' = AskedCount(c) /\ SentTo(c)' = SentTo(c) /\ Link(c)' = Link(c)
    BY <1>4, <1>5 DEF AskedCount, SentTo, Link
  <2> QED
    BY <1>2, <1>4, <2>1, OneUnseen
<1>6. CASE net[c].st # "gone"
  <2> DEFINE e == net[c].next[1] - 1
             u == UpTo(Replies, c, e)
  <2>1. e \in 0 .. Len(script[c]) /\ IsPrefix(x, u)
    BY <1>1, <1>2, <1>6, TotalAsked
  <2>2. /\ z \in Seq(S) /\ IsPrefix(z, x)
        /\ IsPrefix(Cat(net[c].got, net[c].outq), z)
    BY <1>2, <1>4, <1>6 DEF Halts
  <2>3. u \in Seq(S)
    BY <1>2, <2>1, AskedType
  <2>4. IsPrefix(z, u)
    <3> HIDE DEF z, x, u, S
    <3>1. z \in Seq(S) /\ x \in Seq(S) /\ u \in Seq(S) /\ IsPrefix(z, x) /\ IsPrefix(x, u)
      BY <1>2, <2>1, <2>2, <2>3
    <3> QED
      BY ONLY <3>1, PrefixTransitive
  <2> QED
    BY <1>2, <1>4, <1>6, <2>1, <2>2, <2>4, MoreIsSent
<1> QED
  BY <1>5, <1>6

LEMMA SendIsSeen ==
  ASSUME Able, AnswerInv, Posted(script), Send PROVE PromiseStep
<1> DEFINE c == Me.socket
           h == SentByKernel[c]
           x == Total(net[c], Me.sending_buffer)
           z == Cat(h.got, h.outq)
           S == Piece(script)
<1>0. Full /\ script' = script
  BY DEF Able, Send
<1>1. cur \in Slot /\ Me = connection_list[cur]
  BY <1>0, CurrentTyped
<1>2. c # NULL
  BY <1>0, <1>1 DEF Send, Full, Typed, Control
<1>3. c \in Client /\ net[c].conn = "open" /\ x \in Seq(S)
  BY <1>1, <1>2, Serving
<1>4. CASE net' = net
  BY <1>0, <1>4, NetUnseen
<1>5. CASE net' = SentByKernel
  <2>1. /\ \A d \in Client : d # c => net'[d] = net[d]
        /\ net'[c] = h
        /\ h.st = net[c].st /\ h.next = net[c].next /\ h.conn = net[c].conn
    BY <1>2, <1>5, SentByKernelIs
  <2>2. CASE net[c].st = "gone"
    <3>1. SentByKernel = net
      BY <2>2 DEF SentByKernel
    <3> QED
      BY <1>4, <1>5, <3>1
  <2>3. CASE net[c].st # "gone"
    <3> DEFINE e == net[c].next[1] - 1
               u == UpTo(Replies, c, e)
    <3>1. e \in 0 .. Len(script[c]) /\ IsPrefix(x, u)
      BY <1>1, <1>2, <2>3, TotalAsked
    <3>2. /\ z \in Seq(S) /\ IsPrefix(z, x)
          /\ IsPrefix(Cat(net[c].got, net[c].outq), z)
      BY <1>2, <2>1, <2>3, SentHalts DEF Halts
    <3>3. u \in Seq(S)
      BY <1>3, <3>1, AskedType
    <3>4. IsPrefix(z, u)
      <4> HIDE DEF z, x, u, S
      <4>1. z \in Seq(S) /\ x \in Seq(S) /\ u \in Seq(S) /\ IsPrefix(z, x) /\ IsPrefix(x, u)
        BY <1>3, <3>1, <3>2, <3>3
      <4> QED
        BY ONLY <4>1, PrefixTransitive
    <3> HIDE DEF h
    <3> QED
      BY <1>0, <1>3, <2>1, <2>3, <3>1, <3>2, <3>4, MoreIsSent
  <2> QED
    BY <2>2, <2>3
<1> QED
  BY <1>4, <1>5 DEF Send, SendToPeer

\* A connection is taken, or refused because no slot is free.
LEMMA AcceptIsSeen ==
  ASSUME Able, Accept PROVE PromiseStep
<1>0. Full /\ pc = "accept" /\ script' = script
  BY DEF Able, Accept
<1>1. CASE net' = net
  BY <1>0, <1>1, NetUnseen
<1>2. ASSUME ListenFd \in rfds, NEW v \in {"open", "refused"}, NEW q,
             LET c == Head(backlog) IN
               net' = [net EXCEPT ![c].conn = v] \/ net' = [net EXCEPT ![c].conn = v, ![c].inq = q]
      PROVE  PromiseStep
  <2> DEFINE link == [d \in Client |-> Link(d)]
             reply == [d \in Client |-> SentTo(d)]
             asked == [d \in Client |-> AskedCount(d)]
  <2>1. backlog \in Seq(Client) /\ backlog # <<>>
    BY <1>0, <1>2 DEF Full, IInv, SlotInv, BacklogInv, AcceptInv
  <2>10. PICK c \in Client : c = Head(backlog)
    BY <2>1
  <2>2. net[c].conn = "none"
    <3>1. c = backlog[1] /\ 1 \in 1 .. Len(backlog)
      BY <2>1, <2>10
    <3> QED
      BY <1>0, <3>1 DEF Full, IInv, SlotInv, BacklogInv
  <2>3. DOMAIN net = Client /\ DOMAIN net[c] = NetFields
    BY <1>0, <2>2 DEF Full, IInv, SlotInv, Shape
  <2>4. net' = [net EXCEPT ![c].conn = v] \/ net' = [net EXCEPT ![c].conn = v, ![c].inq = q]
    BY <1>2, <2>10
  <2>5. /\ net'[c].conn = v /\ net'[c].st = net[c].st /\ net'[c].got = net[c].got
        /\ net'[c].outq = net[c].outq /\ net'[c].next = net[c].next
        /\ \A d \in Client : d # c => net'[d] = net[d]
    BY <2>2, <2>3, <2>4 DEF NetFields
  <2>6. \A d \in Client \ {c} :
          AskedCount(d)' = AskedCount(d) /\ SentTo(d)' = SentTo(d) /\ Link(d)' = Link(d)
    BY <2>2, <2>5, OthersSee
  <2>7. SentTo(c)' = SentTo(c) /\ AskedCount(c)' = AskedCount(c)
    BY <2>5 DEF SentTo, AskedCount
  <2>8. CASE net[c].st = "gone"
    <3>1. Link(c)' = Link(c)
      BY <2>5, <2>8 DEF Link
    <3> QED
      BY <1>0, <2>2, <2>5, <2>7, <3>1, OneUnseen
  <2>9. CASE net[c].st # "gone"
    <3>1. Link(c) = "idle" /\ Link(c)' = IF v = "open" THEN "open" ELSE "over"
      BY <2>2, <2>5, <2>9 DEF Link
    <3>2. reply' = reply /\ asked' = asked
      BY <2>6, <2>7
    <3>3. CASE v = "open"
      <4>1. link[c] = "idle" /\ link' = [link EXCEPT ![c] = "open"]
        BY <2>2, <2>6, <3>1, <3>3
      <4>2. Promise!Open(c)
        BY <3>2, <4>1 DEF Promise!Open
      <4> QED
        BY <1>0, <2>2, <4>2, AnswersStay DEF PromiseStep, Promise!Next
    <3>4. CASE v = "refused"
      <4>1. c \in {d \in Client : link[d] \in {"idle", "open"}}
        BY <2>2, <3>1
      <4>2. link' = [d \in Client |-> IF d \in {c} THEN "over" ELSE link[d]]
        BY <2>2, <2>6, <3>1, <3>4
      <4>3. Promise!End
        BY <3>2, <4>1, <4>2 DEF Promise!End
      <4> QED
        BY <1>0, <4>3, AnswersStay DEF PromiseStep, Promise!Next
    <3> QED
      BY <3>3, <3>4
  <2> QED
    BY <2>8, <2>9
<1> QED
  BY <1>1, <1>2 DEF Accept, handle_new_connection

\* All connections end at once.
LEMMA ShutdownIsSeen ==
  ASSUME Able, Shutdown PROVE PromiseStep
<1> DEFINE gone == {s \in Slot : Peer(s).socket # NO_SOCKET}
           link == [d \in Client |-> Link(d)]
           reply == [d \in Client |-> SentTo(d)]
           asked == [d \in Client |-> AskedCount(d)]
           MustEnd(c) == net[c].st # "gone" /\ (Waiting(c) \/ \E s \in gone : Peer(s).socket = c)
           T == {c \in Client : MustEnd(c)}
<1>0. Full
  BY DEF Able
<1>1. /\ net' = [c \in Client |->
                   IF \E s \in gone : Peer(s).socket = c
                     THEN [net[c] EXCEPT !.conn = "closed", !.inq = <<>>]
                   ELSE IF Waiting(c) THEN [net[c] EXCEPT !.conn = "refused", !.inq = <<>>]
                   ELSE net[c]]
      /\ script' = script
  BY DEF Shutdown, ShutdownOf
<1>2. ASSUME NEW c \in Client
      PROVE  /\ SentTo(c)' = SentTo(c) /\ AskedCount(c)' = AskedCount(c)
             /\ MustEnd(c) => Link(c) \in {"idle", "open"} /\ Link(c)' = "over"
             /\ ~MustEnd(c) => Link(c)' = Link(c)
  <2>1. DOMAIN net[c] = NetFields
    BY <1>0 DEF Full, IInv, SlotInv, Shape
  <2>2. Waiting(c) => net[c].conn = "none"
    BY <1>0, WaitingIsNew DEF Full, IInv
  <2>3. (\E s \in gone : Peer(s).socket = c) => net[c].conn = "open"
    BY <1>0 DEF Full, IInv, SlotInv, SlotsMatchConnections
  <2> HIDE DEF gone
  <2> DEFINE h == net'[c]
  <2>4. /\ h.st = net[c].st /\ h.got = net[c].got /\ h.outq = net[c].outq /\ h.next = net[c].next
        /\ Waiting(c) \/ (\E s \in gone : Peer(s).socket = c) => h.conn \in {"closed", "refused"}
        /\ ~(Waiting(c) \/ (\E s \in gone : Peer(s).socket = c)) => h.conn = net[c].conn
    BY <1>1, <2>1 DEF NetFields
  <2>5. SentTo(c)' = SentTo(c) /\ AskedCount(c)' = AskedCount(c)
    BY <2>4 DEF SentTo, AskedCount
  <2>6. CASE MustEnd(c)
    BY <2>2, <2>3, <2>4, <2>5, <2>6 DEF Link
  <2>7. CASE ~MustEnd(c)
    BY <2>4, <2>5, <2>7 DEF Link
  <2> QED
    BY <2>6, <2>7
<1> HIDE DEF MustEnd
<1>3. reply' = reply /\ asked' = asked
  BY <1>2
<1>4. T \in SUBSET {c \in Client : link[c] \in {"idle", "open"}}
  BY <1>2
<1>5. link' = [c \in Client |-> IF c \in T THEN "over" ELSE link[c]]
  BY <1>2
<1> HIDE DEF link, T
<1>6. \E U \in SUBSET {c \in Client : link[c] \in {"idle", "open"}} :
        link' = [c \in Client |-> IF c \in U THEN "over" ELSE link[c]]
  BY <1>4, <1>5
<1>7. Promise!End
  BY <1>3, <1>6 DEF Promise!End, link
<1> QED
  BY <1>1, <1>7, AnswersStay DEF PromiseStep, Promise!Next

LEMMA HandlerIsSeen ==
  ASSUME Able, AnswerInv, Posted(script), Handler PROVE PromiseStep
<1>1. Me.socket # NULL
  <2>1. pc = "http"
    BY DEF Handler, HeaderIncomplete, HeaderTooLong, HeaderRefused, HeaderParsed, HeaderComplete,
           ReceiveBody, GenerateHeader, SendHeader, CheckStatic, CheckCgi, ProcessingCgi,
           SendBody, SendBodyFails, Finish, HandlerDies, InHandler
  <2> QED
    BY <2>1, CurrentTyped DEF Able, Full, Typed, Control
<1>2. ASSUME ReturnCloseNow PROVE PromiseStep
  BY <1>1, <1>2, NetHalts, CloseIsSeen DEF ReturnCloseNow
<1>3. ASSUME net' = net, script' = script PROVE PromiseStep
  BY <1>3, NetUnseen
<1>4. CASE HeaderTooLong \/ HeaderRefused
  BY <1>2, <1>4 DEF HeaderTooLong, HeaderRefused
<1>5. CASE SendBodyFails
  BY <1>2, <1>3, <1>5 DEF SendBodyFails, world
<1>6. CASE HeaderIncomplete \/ HeaderParsed \/ ReceiveBody \/ GenerateHeader \/ SendHeader
  BY <1>3, <1>6
  DEF HeaderIncomplete, HeaderParsed, ReceiveBody, GenerateHeader, SendHeader, Continue, world
<1>7. CASE CheckStatic \/ CheckCgi \/ ProcessingCgi \/ SendBody \/ Finish \/ HandlerDies
  BY <1>3, <1>7 DEF CheckStatic, CheckCgi, ProcessingCgi, SendBody, Finish, HandlerDies, Die, world
<1> QED
  BY <1>4, <1>5, <1>6, <1>7 DEF Handler

LEMMA ServerIsSeen ==
  ASSUME Able, AnswerInv, Posted(script), ServerStep PROVE PromiseStep
<1>0. Full /\ cur \in Slot /\ Me = connection_list[cur]
  BY CurrentTyped DEF Able
<1>1. CASE Select \/ SelectDies \/ NoCgi \/ CgiDies \/ SkipSlot
  BY <1>1, NetUnseen DEF Select, SelectDies, NoCgi, CgiDies, SkipSlot, Die, world
<1>2. CASE RecvCloses
  <2>1. /\ Me.socket # NULL
        /\ close_client_connection(cur, net) /\ script' = script
    BY <1>2 DEF RecvCloses, CloseSlot, NO_SOCKET
  <2> QED
    BY <2>1, NetHalts, CloseIsSeen
<1>3. CASE SendCloses
  <2>1. /\ pc = "send"
        /\ close_client_connection(cur, SentByKernel) /\ script' = script
    BY <1>3 DEF SendCloses, CloseSlot
  <2>2. Me.socket # NULL
    BY <1>0, <2>1 DEF Full, Typed, Control
  <2> QED
    BY <2>1, <2>2, SentHalts, CloseIsSeen
<1>4. CASE Recv
  <2>1. script' = script /\ Me.socket # NULL
    BY <1>4 DEF Recv, NO_SOCKET
  <2>2. CASE ReceiveFromPeer
    <3>0. PICK c \in Client : c = Me.socket
      BY <1>0, <2>1 DEF Full, IInv, SlotInv, Sockets
    <3>1. DOMAIN net = Client /\ DOMAIN net[c] = NetFields
      BY <1>0 DEF Full, IInv, SlotInv, Shape
    <3>2. net' = [net EXCEPT ![c].inq = Drop(@, Len(Received))]
      BY <2>2, <3>0 DEF ReceiveFromPeer
    <3>3. /\ \A d \in Client : d # c => net'[d] = net[d]
          /\ net'[c].st = net[c].st /\ net'[c].got = net[c].got /\ net'[c].conn = net[c].conn
          /\ net'[c].outq = net[c].outq /\ net'[c].next = net[c].next
      BY <3>1, <3>2 DEF NetFields
    <3>4. AskedCount(c)' = AskedCount(c) /\ SentTo(c)' = SentTo(c) /\ Link(c)' = Link(c)
      BY <3>3 DEF AskedCount, SentTo, Link
    <3> QED
      BY <2>1, <3>1, <3>3, <3>4, OneUnseen
  <2>3. CASE net' = net
    BY <2>1, <2>3, NetUnseen
  <2> QED
    BY <1>4, <2>2, <2>3 DEF Recv
<1> QED
  BY <1>1, <1>2, <1>3, <1>4, AcceptIsSeen, NoChild, SendIsSeen, HandlerIsSeen DEF ServerStep

LEMMA ClientIsSeen ==
  ASSUME Able, AnswerInv, Environment PROVE PromiseStep
<1> DEFINE link == [d \in Client |-> Link(d)]
           reply == [d \in Client |-> SentTo(d)]
           asked == [d \in Client |-> AskedCount(d)]
<1>0. Full
  BY DEF Able
<1>1. DOMAIN net = Client /\ \A d \in Client : DOMAIN net[d] = NetFields
  BY <1>0 DEF Full, IInv, SlotInv, Shape
<1>2. ASSUME NEW c \in Client, Connect(c) \/ ClientShutdown(c) PROVE PromiseStep
  <2>1. /\ script' = script
        /\ \A d \in Client : d # c => net'[d] = net[d]
        /\ net'[c].got = net[c].got /\ net'[c].outq = net[c].outq /\ net'[c].next = net[c].next
        /\ net'[c].conn = net[c].conn /\ net'[c].st # "gone" /\ net[c].st # "gone"
    BY <1>1, <1>2 DEF Connect, ClientShutdown, UnchangedServer, NetFields
  <2>2. AskedCount(c)' = AskedCount(c) /\ SentTo(c)' = SentTo(c) /\ Link(c)' = Link(c)
    BY <2>1 DEF AskedCount, SentTo, Link
  <2> QED
    BY <2>1, <2>2, OneUnseen
<1>3. ASSUME NEW c \in Client, ClientSend(c) PROVE PromiseStep
  <2> DEFINE k == net[c].next[1]
             j == net[c].next[2]
             nxt == IF j < 2 + BodyLen(script[c][k]) THEN <<k, j + 1>> ELSE <<k + 1, 1>>
  <2>1. /\ script' = script /\ net[c].st = "on"
        /\ net' = [net EXCEPT ![c].inq = Append(@, RequestToken(c, k, j)), ![c].next = nxt]
    BY <1>3 DEF ClientSend, UnchangedServer
  <2>2. nxt[1] = k \/ nxt[1] = k + 1
    OBVIOUS
  <2> HIDE DEF nxt
  <2>3. /\ \A d \in Client : d # c => net'[d] = net[d]
        /\ net'[c].got = net[c].got /\ net'[c].outq = net[c].outq /\ net'[c].next = nxt
        /\ net'[c].conn = net[c].conn /\ net'[c].st = net[c].st
    BY <1>1, <2>1 DEF NetFields
  <2>4. SentTo(c)' = SentTo(c) /\ Link(c)' = Link(c)
    BY <2>3 DEF SentTo, Link
  <2>5. \A d \in Client \ {c} :
          AskedCount(d)' = AskedCount(d) /\ SentTo(d)' = SentTo(d) /\ Link(d)' = Link(d)
    BY <2>3, OthersSee
  <2>6. CASE nxt[1] = k
    <3>1. AskedCount(c)' = AskedCount(c)
      BY <2>3, <2>6 DEF AskedCount
    <3> QED
      BY <2>1, <2>3, <2>4, <3>1, OneUnseen
  <2>7. CASE nxt[1] = k + 1
    <3>1. k \in Nat
      BY <1>0 DEF Full, Typed, NetTyped
    <3>2. AskedCount(c)' = AskedCount(c) + 1
      BY <2>3, <2>7, <3>1 DEF AskedCount
    <3>3. asked' = [asked EXCEPT ![c] = @ + 1] /\ reply' = reply /\ link' = link
      BY <2>4, <2>5, <3>2
    <3>4. Promise!Ask(c)
      BY <3>3 DEF Promise!Ask
    <3> QED
      BY <2>1, <3>4, AnswersStay DEF PromiseStep, Promise!Next
  <2> QED
    BY <2>2, <2>6, <2>7
<1>4. ASSUME NEW c \in Client, ClientRead(c) PROVE PromiseStep
  <2> DEFINE g == net[c].got
             o == net[c].outq
             S == Piece(script)
  <2>1. /\ script' = script
        /\ net' = [net EXCEPT ![c].got = @ \o o, ![c].outq = <<>>]
    BY <1>4 DEF ClientRead, UnchangedServer
  <2>2. g \in Seq(S) /\ o \in Seq(S)
    BY <1>0 DEF AnswerInv, Minds, Full, Typed, NetTyped
  <2>3. /\ \A d \in Client : d # c => net'[d] = net[d]
        /\ net'[c].got = g \o o /\ net'[c].outq = <<>> /\ net'[c].next = net[c].next
        /\ net'[c].conn = net[c].conn /\ net'[c].st = net[c].st
    BY <1>1, <2>1 DEF NetFields
  <2>4. (g \o o) \o <<>> = g \o o
    <3> HIDE DEF g, o, S
    <3>1. g \o o \in Seq(S)
      BY ONLY <2>2, ConcatProperties
    <3> QED
      BY ONLY <3>1, ConcatEmptySeq
  <2>5. AskedCount(c)' = AskedCount(c) /\ SentTo(c)' = SentTo(c) /\ Link(c)' = Link(c)
    BY <2>3, <2>4 DEF AskedCount, SentTo, Link
  <2> QED
    BY <2>1, <2>3, <2>5, OneUnseen
<1>5. ASSUME NEW c \in Client, ClientVanish(c) PROVE PromiseStep
  <2>1. PICK q : net' = [net EXCEPT ![c].st = "gone", ![c].inq = q, ![c].outq = <<>>]
    BY <1>5 DEF ClientVanish
  <2>2. /\ \A d \in Client : d # c => net'[d] = net[d]
        /\ net'[c].st = "gone" /\ net'[c].next = net[c].next
    BY <1>1, <2>1 DEF NetFields
  <2>3. AskedCount(c)' = AskedCount(c) /\ SentTo(c)' = <<>> /\ Link(c)' = "left"
    BY <2>2 DEF AskedCount, SentTo, Link
  <2>4. \A d \in Client \ {c} :
          AskedCount(d)' = AskedCount(d) /\ SentTo(d)' = SentTo(d) /\ Link(d)' = Link(d)
    BY <2>2, OthersSee
  <2>5. /\ asked' = asked /\ reply' = [reply EXCEPT ![c] = <<>>]
        /\ link' = [link EXCEPT ![c] = "left"]
    BY <2>3, <2>4
  <2>6. Promise!Leave(c)
    BY <2>5 DEF Promise!Leave
  <2>7. script' = script
    BY <1>5 DEF ClientVanish, UnchangedServer
  <2> QED
    BY <2>6, <2>7, AnswersStay DEF PromiseStep, Promise!Next
<1>6. ASSUME NEW p, ChildRead(p) \/ ChildWrite(p) \/ ChildExit(p) \/ ChildFails(p) PROVE PromiseStep
  <2>1. net' = net /\ script' = script
    BY <1>6 DEF ChildRead, ChildWrite, ChildExit, ChildFails, UnchangedServer
  <2> QED
    BY <2>1, NetUnseen
<1> QED
  BY <1>2, <1>3, <1>4, <1>5, <1>6 DEF Environment

LEMMA NextIsSeen ==
  ASSUME Able, AnswerInv, Posted(script), [Next]_vars PROVE PromiseStep
<1>1. CASE UNCHANGED vars
  BY <1>1, NetUnseen DEF vars
<1>2. CASE Interrupt \/ SelectFails
  BY <1>2, ShutdownIsSeen DEF Interrupt, SelectFails
<1> QED
  BY <1>1, <1>2, ServerIsSeen, ClientIsSeen DEF Next

\* Towards such clients, if only a POST has a body, the server is an ordered responder:
\* it only appends to what it has sent, only answers to requests that it has completely
\* been sent, and nothing once it has hung up.
THEOREM KeepsPromise == Spec /\ []Enough /\ Orderly(script) /\ Posted(script) => PromiseSpec
<1> DEFINE Fits == Orderly(script) /\ Posted(script)
<1>1. Init => Known /\ Owed /\ Promise!Init
  <2>1. Init => Known /\ Owed
    BY InitBase, InitFreed, InitGiven, InitAnswers DEF Known, Owed
  <2>2. ASSUME Init PROVE Promise!Init
    <3>1. \A c \in Client : AskedCount(c) = 0 /\ SentTo(c) = <<>> /\ Link(c) = "idle"
      <4>1. ASSUME NEW c \in Client PROVE AskedCount(c) = 0 /\ SentTo(c) = <<>> /\ Link(c) = "idle"
        <5>1. /\ net[c].st = "off" /\ net[c].conn = "none" /\ net[c].outq = <<>>
              /\ net[c].got = <<>> /\ net[c].next = <<1, 1>>
          BY <2>2 DEF Init
        <5>2. <<>> \o <<>> = <<>>
          OBVIOUS
        <5> QED
          BY <5>1, <5>2 DEF AskedCount, SentTo, Link
      <4> QED
        BY <4>1
    <3> QED
      BY <3>1 DEF Promise!Init
  <2> QED
    BY <2>1, <2>2
<1>2. (Known /\ Owed /\ Fits) /\ Enough /\ [Next]_vars => (Known /\ Owed /\ Fits)'
  <2>1. Fits /\ [Next]_vars => Fits'
    <3> SUFFICES ASSUME Fits, [Next]_vars PROVE Fits'
      OBVIOUS
    <3>1. Orderly(script)'
      BY AsksStay DEF Orderly
    <3>2. Posted(script)'
      BY ScriptStays DEF Posted, Asked
    <3> QED
      BY <3>1, <3>2
  <2> QED
    BY <2>1, NextBase, NextFreed, NextGiven, NextOwed DEF Known
<1>3. Known /\ Owed /\ Fits /\ [Next]_vars => [Promise!Next]_(Promise!vars)
  BY KnownAble, NextIsSeen DEF Owed, PromiseStep
<1> HIDE DEF Fits
<1>4. Spec /\ []Enough /\ Fits => PromiseSpec
  BY <1>1, <1>2, <1>3, PTL DEF Spec, PromiseSpec, Promise!Spec
<1> QED
  BY <1>4 DEF Fits
-----------------------------------------------------------------------------
(* Requests that are answered in the turn of the handler that has parsed   *)
(* them: slots share the global request, and none finds another's there.   *)

Bodiless(sc) == \A r \in Asked(sc) : BodyLen(sc[r[1]][r[2]]) = 0

\* Nothing makes a handler wait between two turns: no script, no body to be
\* received, an answer that fits into the sending buffer, and clients that do
\* not ask again before they have it.
OneTurn(sc) ==
  /\ ~Pipelined /\ NoScripts(sc) /\ Bodiless(sc)
  /\ FileLen + 3 <= BUF_DATA_MAXSIZE

\* A client has not said more than its next request.
Late(k, q) == Before(k.next, <<From(k, q)[1] + 1, 2>>)

\* What the task and its sending buffer hold of an answer leaves room for the file.
Brief(t, b) ==
  /\ t.state \in BeforeAnswer => b = <<>>
  /\ SendsFile(t) =>
       /\ t.fp.pos = 0
       /\ t.state = "SEND_HEADER_STATE" => Len(t.response_buf) <= 2
       /\ t.state = "SEND_BODY_STATE" => Len(b) <= 2

\* A client says nothing more until it has the answer.
Prompt(p, k) ==
  LET t == p.http_task
      q == Unread(t, p.receiving_buffer, k.inq)
  IN /\ Late(k, q)
     /\ p.sending_buffer = <<>> \/ q = <<>> \/ t.state # "RECV_HEADER_STATE"
     /\ t.state # "RECV_HEADER_STATE" => q = <<>> /\ Brief(t, p.sending_buffer)

\* Only the slot whose turn it is works on a request, and that is the global one.
TurnOf(s) ==
  LET p == connection_list[s]
  IN p.socket # NULL =>
       /\ Prompt(p, net[p.socket])
       /\ p.http_task.state # "RECV_HEADER_STATE" =>
            /\ s = cur /\ pc \in {"http", "dead"}
            /\ request # NULL /\ request = [of |-> p.http_task.own, freed |-> FALSE]

Early(c) == net[c].conn = "none" => Late(net[c], net[c].inq)

TurnInv == (\A c \in Client : Early(c)) /\ (\A s \in Slot : TurnOf(s))

LEMMA OneTurnOrderly ==
  ASSUME script \in [Client -> Seq(Request)], OneTurn(script)
  PROVE  Orderly(script) /\ Posted(script)
<1>1. ASSUME NEW r \in Asked(script), script[r[1]][r[2]].method = "POST"
      PROVE  script[r[1]][r[2]].length <= 0
  <2> DEFINE a == script[r[1]][r[2]]
  <2>1. a \in Request
    BY AskedRequest
  <2>2. a.length \in Int /\ BodyLen(a) = 0
    BY <2>1 DEF Request, OneTurn, Bodiless
  <2> HIDE DEF a
  <2>3. a.length <= 0
    BY <2>2 DEF BodyLen, HasLength
  <2> QED
    BY <2>3 DEF a
<1>2. Posted(script)
  BY DEF OneTurn, Bodiless, Posted
<1> QED
  BY <1>1, <1>2 DEF Orderly, OneTurn, Unshared, NoBody

\* Nothing changes for the slots, and the slot whose turn it is keeps it.
LEMMA TurnStays ==
  ASSUME TurnInv, UNCHANGED <<connection_list, net>>,
         \/ pc \notin {"http", "dead"}
         \/ pc' \in {"http", "dead"} /\ cur' = cur /\ request' = request
  PROVE  TurnInv'
<1>1. \A c \in Client : Early(c)'
  BY DEF TurnInv, Early
<1>2. \A s \in Slot : TurnOf(s)'
  BY DEF TurnInv, TurnOf, Slot
<1> QED
  BY <1>1, <1>2 DEF TurnInv, Slot

\* A step of the handler on its slot, which becomes p.
LEMMA CurrentTurn ==
  ASSUME Full, TurnInv, pc = "http", NEW p,
         connection_list' = [connection_list EXCEPT ![cur] = p],
         net' = net, p.socket = Me.socket, Prompt(p, net[Me.socket]),
         p.http_task.state # "RECV_HEADER_STATE" =>
           /\ cur' = cur /\ pc' = "http"
           /\ request' # NULL /\ request' = [of |-> p.http_task.own, freed |-> FALSE]
  PROVE  TurnInv'
<1>1. cur \in Slot /\ Me = connection_list[cur] /\ DOMAIN connection_list = Slot
  BY CurrentTyped
<1>2. \A c \in Client : Early(c)'
  BY DEF TurnInv, Early
<1>3. ASSUME NEW s \in Slot PROVE TurnOf(s)'
  <2>1. CASE s = cur
    BY <1>1, <2>1 DEF TurnOf
  <2>2. CASE s # cur
    BY <1>1, <2>2 DEF TurnInv, TurnOf
  <2> QED
    BY <2>1, <2>2
<1> QED
  BY <1>2, <1>3 DEF TurnInv, Slot

\* The handler goes on with the request.
LEMMA TurnGoesOn ==
  ASSUME Full, TurnInv, pc = "http", NEW p,
         connection_list' = [connection_list EXCEPT ![cur] = p],
         net' = net, request' = request, UNCHANGED loop, p.socket = Me.socket,
         p.receiving_buffer = Me.receiving_buffer, p.http_task.own = Task.own,
         Task.state # "RECV_HEADER_STATE", p.http_task.state # "RECV_HEADER_STATE",
         Brief(Task, Me.sending_buffer) => Brief(p.http_task, p.sending_buffer)
  PROVE  TurnInv'
<1> DEFINE k == net[Me.socket]
           q == Unread(Task, Me.receiving_buffer, k.inq)
<1>1. cur \in Slot /\ Me = connection_list[cur] /\ Task = Me.http_task /\ Me.socket # NULL
  BY CurrentTyped
<1>2. TurnOf(cur)
  BY <1>1 DEF TurnInv
<1>3. Prompt(Me, k) /\ request # NULL /\ request = [of |-> Task.own, freed |-> FALSE]
  BY <1>1, <1>2 DEF TurnOf
<1>4. Unread(p.http_task, p.receiving_buffer, k.inq) = q
  BY DEF Unread, Held
<1>5. Late(k, q) /\ q = <<>> /\ Brief(Task, Me.sending_buffer)
  BY <1>1, <1>3 DEF Prompt
<1>6. Prompt(p, k)
  BY <1>4, <1>5 DEF Prompt
<1> QED
  BY <1>3, <1>6, CurrentTurn DEF loop

\* The slot whose turn it is loses its connection.
LEMMA CloseTurn ==
  ASSUME Able, TurnInv, Me.socket # NULL, NEW k, Halts(k, Me.socket, Me.sending_buffer),
         close_client_connection(cur, k)
  PROVE  TurnInv'
<1> DEFINE c == Me.socket
<1>0. Full
  BY DEF Able
<1>1. /\ cur \in Slot /\ DOMAIN connection_list = Slot /\ Me = connection_list[cur]
      /\ DOMAIN Me = PeerFields
  BY <1>0, CurrentTyped
<1>2. c \in Client
  BY <1>0, <1>1 DEF Full, IInv, SlotInv, Sockets
<1>3. net' = [k EXCEPT ![c].conn = "closed", ![c].inq = <<>>]
  BY <1>1 DEF close_client_connection, Peer, NO_SOCKET
<1>4. net'[c].conn = "closed" /\ \A d \in Client : d # c => net'[d] = net[d]
  BY <1>2, <1>3 DEF Halts, NetFields
<1>5. connection_list' = [connection_list EXCEPT ![cur] = Vacated(@)]
  BY DEF close_client_connection
<1>6. \A d \in Client : Early(d)'
  BY <1>4 DEF TurnInv, Early
<1>7. ASSUME NEW s \in Slot PROVE TurnOf(s)'
  <2>1. CASE s = cur
    <3>1. connection_list'[s].socket = NULL
      BY <1>1, <1>5, <2>1 DEF Vacated, PeerFields, NO_SOCKET
    <3> QED
      BY <3>1 DEF TurnOf
  <2>2. CASE s # cur
    <3>1. connection_list'[s] = connection_list[s] /\ connection_list[s].socket # c
      BY <1>0, <1>1, <1>5, <2>2, TwoClients
    <3>2. connection_list[s].socket \in Client \cup {NULL} /\ TurnOf(s)
      BY <1>0 DEF Full, IInv, SlotInv, Sockets, TurnInv
    <3> QED
      BY <1>4, <2>2, <3>1, <3>2 DEF TurnOf
  <2> QED
    BY <2>1, <2>2
<1> QED
  BY <1>6, <1>7 DEF TurnInv, Slot

LEMMA HeaderIncompleteTurn ==
  ASSUME Able, TurnInv, HeaderIncomplete PROVE TurnInv'
<1> DEFINE c == Me.socket
           k == net[c]
<1>1. Full /\ InputInv
  BY DEF Able
<1>2. /\ pc = "http" /\ Task.state = "RECV_HEADER_STATE" /\ net' = net
      /\ \E p :
           /\ connection_list' = [connection_list EXCEPT ![cur] = p]
           /\ p.socket = c /\ p.sending_buffer = Me.sending_buffer
           /\ p.http_task.state = "RECV_HEADER_STATE"
           /\ Unread(p.http_task, p.receiving_buffer, k.inq)
                = Unread(Task, Me.receiving_buffer, k.inq)
  BY <1>1, HeaderIncompleteLeaves
<1>3. PICK p :
        /\ connection_list' = [connection_list EXCEPT ![cur] = p]
        /\ p.socket = c /\ p.sending_buffer = Me.sending_buffer
        /\ p.http_task.state = "RECV_HEADER_STATE"
        /\ Unread(p.http_task, p.receiving_buffer, k.inq)
             = Unread(Task, Me.receiving_buffer, k.inq)
  BY <1>2
<1>4. cur \in Slot /\ Me = connection_list[cur] /\ Task = Me.http_task /\ c # NULL
  BY <1>1, <1>2, CurrentTyped
<1>5. Prompt(Me, k)
  BY <1>4 DEF TurnInv, TurnOf
<1>6. Prompt(p, k)
  BY <1>2, <1>3, <1>4, <1>5 DEF Prompt
<1> QED
  BY <1>1, <1>2, <1>3, <1>6, CurrentTurn

\* What lies behind a header that was parsed.
LEMMA RestTyped ==
  ASSUME Full, InputInv, HeaderParsed, NEW p,
         connection_list' = [connection_list EXCEPT ![cur] = p],
         p.http_task.state # "RECV_HEADER_STATE"
  PROVE  \E S : Unread(p.http_task, p.receiving_buffer, net[Me.socket].inq) \in Seq(S)
<1> DEFINE S == PieceOf(script, Me.socket)
           b == Me.receiving_buffer
           i == net[Me.socket].inq
           t == Dispatch([Task EXCEPT !.parse_buf = Header, !.own = Header[1].req,
                                      !.last_request = RequestOf(Header[1].req).close],
                         RequestOf(Header[1].req))
           v == [Me EXCEPT !.http_task = t, !.receiving_buffer = Drop(@, HeaderSize)]
<1>1. /\ pc = "http" /\ EndsHeader # {}
      /\ connection_list' = [connection_list EXCEPT ![cur] = v]
  BY DEF HeaderParsed, HeaderComplete, InHandler
<1>2. /\ DOMAIN Me = PeerFields /\ cur \in Slot /\ Me = connection_list[cur]
      /\ Me.socket # NULL /\ DOMAIN connection_list = Slot
  BY <1>1, CurrentTyped
<1>3. b \in Seq(S) /\ i \in Seq(S)
  BY <1>2, SlotOfClient
<1> HIDE DEF t
<1>4. p.receiving_buffer = Drop(b, HeaderSize)
  <2>1. p = v
    <3> HIDE DEF v
    <3> QED
      BY <1>1, <1>2
  <2> QED
    BY <1>2, <2>1 DEF PeerFields
<1>5. HeaderSize \in 0 .. Len(b)
  <2>1. HeaderSize \in 1 .. Len(Incoming) /\ Len(Incoming) \in 0 .. Len(b)
    BY <1>1, HeaderSizeType, IncomingType
  <2>2. Len(b) \in Nat
    BY <1>3, LenProperties
  <2> QED
    BY <2>1, <2>2
<1>6. Drop(b, HeaderSize) \in Seq(S)
  BY <1>3, <1>5, DropType
<1> HIDE DEF b, i, S
<1>7. Held(p.http_task) = <<>>
  BY DEF Held
<1>8. Unread(p.http_task, p.receiving_buffer, i) \in Seq(S)
  <2> DEFINE z == Drop(b, HeaderSize)
  <2>1. z \in Seq(S) /\ <<>> \o z = z /\ z \o i \in Seq(S)
    BY <1>3, <1>6, ConcatEmptySeq, ConcatProperties
  <2> HIDE DEF z
  <2> QED
    BY <1>4, <1>7, <2>1 DEF Unread, z
<1> QED
  BY <1>8 DEF i

\* The whole of what the client has said is this header.
LEMMA HeaderParsedTurn ==
  ASSUME Able, TurnInv, Bodiless(script), HeaderParsed PROVE TurnInv'
<1> DEFINE c == Me.socket
           k == net[c]
           b == Me.sending_buffer
           r == Header[1].req
           a == RequestOf(r)
           m == r[2]
           u == [Task EXCEPT !.parse_buf = Header, !.own = r, !.last_request = a.close]
           q == Unread(Task, Me.receiving_buffer, k.inq)
<1>0. Full /\ InputInv
  BY DEF Able
<1>1. /\ pc = "http" /\ Task.state = "RECV_HEADER_STATE" /\ net' = net
      /\ c \in Client /\ c # NULL /\ m \in 1 .. Len(script[c]) /\ r = <<c, m>>
      /\ a = script[c][m] /\ From(k, q) = <<m, 1>> /\ Before(<<m, 1>>, k.next)
      /\ \E p :
           LET d == Unread(p.http_task, p.receiving_buffer, k.inq)
           IN /\ connection_list' = [connection_list EXCEPT ![cur] = p]
              /\ p.socket = c /\ p.sending_buffer = b
              /\ p.http_task = Dispatch(u, a) /\ p.http_task.own = r
              /\ p.http_task.state # "RECV_HEADER_STATE"
              /\ Flow(script, c, k, d)
              /\ Certain(k, d) => From(k, d) = After(script, c, <<m, 2>>)
  BY <1>0, HeaderParsedTakes
<1>2. PICK p :
        LET d == Unread(p.http_task, p.receiving_buffer, k.inq)
        IN /\ connection_list' = [connection_list EXCEPT ![cur] = p]
           /\ p.socket = c /\ p.sending_buffer = b
           /\ p.http_task = Dispatch(u, a) /\ p.http_task.own = r
           /\ p.http_task.state # "RECV_HEADER_STATE"
           /\ Flow(script, c, k, d)
           /\ Certain(k, d) => From(k, d) = After(script, c, <<m, 2>>)
  BY <1>1
<1>3. /\ DOMAIN Task = TaskFields /\ Task = Me.http_task
      /\ cur \in Slot /\ Me = connection_list[cur]
      /\ Len(script[c]) \in Nat /\ k.next[1] \in Nat /\ k.next[2] \in Nat
  BY <1>0, <1>1, CurrentTyped, SlotOfClient
<1>4. Late(k, q) /\ (b = <<>> \/ q = <<>>)
  BY <1>1, <1>3 DEF TurnInv, TurnOf, Prompt
<1> DEFINE t == p.http_task
           d == Unread(t, p.receiving_buffer, k.inq)
<1>5. b = <<>>
  <2>1. ASSUME q = <<>> PROVE FALSE
    <3>1. k.next = <<m, 1>>
      BY <1>1, <2>1 DEF From
    <3> HIDE DEF m
    <3> QED
      BY <1>1, <3>1 DEF Before
  <2> QED
    BY <1>4, <2>1
<1>12. \E S : d \in Seq(S)
  BY <1>0, <1>2, RestTyped
<1>6. d = <<>>
  <2>1. BodyLen(script[c][m]) = 0
    BY <1>1, AskedOf DEF Bodiless
  <2>7. Before(k.next, <<m + 1, 2>>)
    <3>1. From(k, q) = <<m, 1>> /\ Late(k, q)
      BY <1>1, <1>4
    <3> HIDE DEF m, k, q
    <3> QED
      BY <3>1 DEF Late
  <2>8. m \in Nat /\ k.next[1] \in Nat /\ k.next[2] \in Nat
    <3> HIDE DEF m, k, c
    <3> QED
      BY <1>1, <1>3
  <2> HIDE DEF c, m, q, k
  <2>2. Size(script, c, m) = 2
    BY <2>1 DEF Size
  <2>3. After(script, c, <<m, 2>>) = <<m + 1, 1>>
    BY <2>2 DEF After
  <2> SUFFICES ASSUME d # <<>> PROVE FALSE
    OBVIOUS
  <2>4. From(k, d) = <<m + 1, 1>> /\ From(k, d) = SpotOf(d[1]) /\ Flow(script, c, k, d)
    BY <1>2, <2>3 DEF Certain, From, c, k, m
  <2> HIDE DEF d
  <2>5. 1 \in 1 .. Len(d)
    <3>1. \E S : d \in Seq(S)
      BY <1>12 DEF d
    <3> QED
      BY <3>1, EmptySeq, LenProperties
  <2>6. Before(<<m + 1, 1>>, k.next)
    BY <2>4, <2>5 DEF Flow
  <2> DEFINE x == k.next[1]
             y == k.next[2]
  <2>9. /\ x \in Nat /\ y \in Nat /\ (m + 1 < x \/ (m + 1 = x /\ 1 < y))
        /\ (x < m + 1 \/ (x = m + 1 /\ y < 2))
    BY <2>6, <2>7, <2>8 DEF Before
  <2> HIDE DEF x, y, m
  <2> QED
    BY <2>8, <2>9
<1>7. t.state \in TakesBody \cup {"GENERATE_HEADER_STATE"}
  <2> HIDE DEF a, r
  <2>1. DOMAIN u = TaskFields /\ t = Dispatch(u, a)
    BY <1>2, <1>3 DEF TaskFields
  <2> HIDE DEF u, t
  <2> QED
    BY <2>1 DEF Dispatch, TaskFields, TakesBody
<1>8. Late(k, d)
  BY <1>3, <1>6 DEF Late, From, Before
<1>9. Prompt(p, k)
  <2>1. t.state # "RECV_HEADER_STATE" /\ p.sending_buffer = b
    BY <1>2
  <2> HIDE DEF t, d, b, k
  <2>2. Brief(t, b)
    BY <1>5, <1>7 DEF Brief, SendsFile, TakesBody
  <2> QED
    BY <1>5, <1>6, <1>8, <2>1, <2>2 DEF Prompt, t, d
<1>10. /\ request' # NULL /\ request' = [of |-> t.own, freed |-> FALSE]
       /\ cur' = cur /\ pc' = "http"
  <2>1. request' = [of |-> r, freed |-> FALSE] /\ UNCHANGED loop
    BY DEF HeaderParsed
  <2>2. r \in Client \X Nat
    <3> HIDE DEF m, r
    <3> QED
      BY <1>1, <1>3
  <2>3. [of |-> r, freed |-> FALSE] # NULL
    BY <2>2, RequestThere
  <2> QED
    BY <1>1, <1>2, <2>1, <2>3 DEF loop
<1> QED
  BY <1>0, <1>1, <1>2, <1>9, <1>10, CurrentTurn

\* There is no body to be received.
LEMMA ReceiveBodyTurn ==
  ASSUME Able, TurnInv, Bodiless(script), ReceiveBody PROVE TurnInv'
<1> DEFINE c == Me.socket
           k == net[c]
           b == Me.sending_buffer
           o == Task.own
           n == Least(Len(Me.receiving_buffer), Task.body_bytes_num - Len(Task.post_body))
           new == [Task EXCEPT !.post_body = @ \o Take(Me.receiving_buffer, n)]
           done == [new EXCEPT !.state = "CHECK_CGI"]
           p == [Me EXCEPT !.receiving_buffer = Drop(@, n),
                           !.http_task.post_body = @ \o Take(Me.receiving_buffer, n)]
           z == [p EXCEPT !.http_task.state = "CHECK_CGI"]
<1>0. Full /\ InputInv
  BY DEF Able
<1>1. pc = "http" /\ Task.state = "RECV_BODY_STATE" /\ net' = net /\ request' = request
  BY DEF ReceiveBody, InHandler, world
<1>2. /\ DOMAIN Me = PeerFields /\ Task = Me.http_task /\ DOMAIN Task = TaskFields
      /\ cur \in Slot /\ Me = connection_list[cur] /\ c # NULL
      /\ TaskTyped(script, Task) /\ SlotTyped(script, Me)
  BY <1>0, <1>1, CurrentTyped
<1>3. Task.body_bytes_num = 0 /\ Len(Task.post_body) = 0
  <2>1. Reads(script, proc, c, Task, Me.receiving_buffer, k) /\ o \in Asked(script)
    BY <1>0, <1>1, <1>2, SlotOfClient DEF TaskTyped, Parsed
  <2> DEFINE a == script[o[1]][o[2]]
  <2>2. a.length \in Nat /\ Task.body_bytes_num = a.length
    BY <1>1, <2>1 DEF Reads, TakesBody, Taking
  <2>3. BodyLen(a) = 0
    BY <2>1 DEF Bodiless
  <2>4. Len(Task.post_body) \in Nat /\ Len(Task.post_body) <= Task.body_bytes_num
    BY <1>1, <1>2, LenProperties DEF TaskTyped
  <2> HIDE DEF a
  <2>5. a.length = 0
    BY <2>2, <2>3 DEF BodyLen, HasLength
  <2> QED
    BY <2>2, <2>4, <2>5
<1>4. n = 0
  <2>1. Len(Me.receiving_buffer) \in Nat
    BY <1>2, LenProperties DEF SlotTyped
  <2> QED
    BY <1>3, <2>1 DEF Least
<1>5. Drop(Me.receiving_buffer, n) = Me.receiving_buffer
  BY <1>2, <1>4, DropNone DEF SlotTyped
<1>6. Task.post_body \o Take(Me.receiving_buffer, n) = <<>>
  <2>1. Take(Me.receiving_buffer, n) = <<>> /\ Task.post_body = <<>>
    BY <1>2, <1>3, <1>4, TakeNone, EmptySeq DEF TaskTyped, SlotTyped
  <2> QED
    BY <2>1, ConcatEmptySeq, EmptySeq
<1> HIDE DEF n
<1>7. /\ p.socket = c /\ p.sending_buffer = b /\ p.http_task = new
      /\ p.receiving_buffer = Me.receiving_buffer /\ DOMAIN p = PeerFields
  BY <1>2, <1>5 DEF PeerFields
<1>8. /\ new.own = o /\ new.body_bytes_num = 0 /\ new.post_body = <<>>
      /\ DOMAIN new = TaskFields
  BY <1>2, <1>3, <1>6 DEF TaskFields
<1> HIDE DEF new, p
<1>9. done.own = o /\ done.state = "CHECK_CGI"
  BY <1>8 DEF TaskFields
<1>10. /\ z.socket = c /\ z.sending_buffer = b /\ z.http_task = done
       /\ z.receiving_buffer = Me.receiving_buffer
  BY <1>7 DEF PeerFields
<1>11. connection_list' = [connection_list EXCEPT ![cur] = z] /\ UNCHANGED loop
  <2>1. ~(Len(new.post_body) < Task.body_bytes_num)
    BY <1>3, <1>8, EmptySeq
  <2> QED
    BY <1>2, <1>7, <2>1 DEF ReceiveBody, p, n
<1> HIDE DEF done, z
<1>12. Brief(Task, b) => Brief(done, b)
  BY <1>1, <1>9 DEF Brief, BeforeAnswer, TakesBody, SendsFile
<1> QED
  BY <1>0, <1>1, <1>9, <1>10, <1>11, <1>12, TurnGoesOn

LEMMA GenerateHeaderTurn ==
  ASSUME Able, TurnInv, GenerateHeader PROVE TurnInv'
<1> DEFINE b == Me.sending_buffer
           new == [Task EXCEPT
                     !.response_buf = @ \o NonBodyResponse(Task.own, Task.response_code),
                     !.state = "SEND_HEADER_STATE"]
           p == [Me EXCEPT !.http_task = new]
<1>0. Full
  BY DEF Able
<1>1. /\ pc = "http" /\ Task.state = "GENERATE_HEADER_STATE"
      /\ connection_list' = [connection_list EXCEPT ![cur].http_task = new]
      /\ net' = net /\ request' = request /\ UNCHANGED loop
  BY DEF GenerateHeader, InHandler, Continue, world
<1>2. /\ DOMAIN Me = PeerFields /\ Task = Me.http_task /\ DOMAIN Task = TaskFields
      /\ cur \in Slot /\ Me = connection_list[cur] /\ DOMAIN connection_list = Slot
      /\ TaskTyped(script, Task) /\ TaskOK(Task)
  BY <1>0, <1>1, CurrentTyped
<1>3. /\ new.state = "SEND_HEADER_STATE" /\ new.own = Task.own
      /\ new.response_code = Task.response_code /\ new.method_type = Task.method_type
  BY <1>2 DEF TaskFields
<1> HIDE DEF new
<1>4. connection_list' = [connection_list EXCEPT ![cur] = p]
  BY <1>1, <1>2
<1>5. /\ p.socket = Me.socket /\ p.receiving_buffer = Me.receiving_buffer
      /\ p.sending_buffer = b /\ p.http_task = new
  BY <1>2 DEF PeerFields
<1>6. AfterHeader(new) = "FINISHED_STATE"
  BY <1>1, <1>2, <1>3 DEF AfterHeader, TaskTyped, TaskOK, ErrorCodes
<1>7. ~SendsFile(new)
  BY <1>3, <1>6 DEF SendsFile, AfterHeader
<1>8. Brief(Task, b) => Brief(new, b)
  BY <1>1, <1>3, <1>7 DEF Brief, BeforeAnswer
<1> HIDE DEF p
<1> QED
  BY <1>0, <1>1, <1>3, <1>4, <1>5, <1>8, TurnGoesOn

\* The header leaves room for the file.
LEMMA SendHeaderTurn ==
  ASSUME Able, TurnInv, SendHeader PROVE TurnInv'
<1> DEFINE b == Me.sending_buffer
           y == Task.response_buf
           n == Least(Len(y), Room(b))
           new == [Task EXCEPT !.response_buf = Drop(@, Least(Len(@), n + 1)),
                               !.state = AfterHeader(Task)]
           p == [Me EXCEPT !.sending_buffer = @ \o Take(y, n), !.http_task = new]
<1>0. Full
  BY DEF Able
<1>1. /\ pc = "http" /\ Task.state = "SEND_HEADER_STATE"
      /\ connection_list' =
          [connection_list EXCEPT
             ![cur] = [Me EXCEPT
               !.sending_buffer = @ \o Take(y, n),
               !.http_task.response_buf = Drop(@, Least(Len(@), n + 1)),
               !.http_task.state = AfterHeader(Task)]]
      /\ net' = net /\ request' = request /\ UNCHANGED loop
  BY DEF SendHeader, InHandler, world
<1>2. /\ DOMAIN Me = PeerFields /\ Task = Me.http_task /\ DOMAIN Task = TaskFields
      /\ cur \in Slot /\ Me = connection_list[cur] /\ DOMAIN connection_list = Slot
      /\ TaskTyped(script, Task)
  BY <1>0, <1>1, CurrentTyped
<1>3. new.state = AfterHeader(Task) /\ new.own = Task.own /\ new.fp = Task.fp
  BY <1>2 DEF TaskFields
<1>4. connection_list' = [connection_list EXCEPT ![cur] = p]
  BY <1>1, <1>2
<1>5. /\ p.socket = Me.socket /\ p.receiving_buffer = Me.receiving_buffer
      /\ p.sending_buffer = b \o Take(y, n) /\ p.http_task = new
  <2> HIDE DEF new
  <2> QED
    BY <1>2 DEF PeerFields
<1>6. AfterHeader(Task) \in {"SEND_BODY_STATE", "FINISHED_STATE"}
  BY DEF AfterHeader
<1> HIDE DEF p, new
<1>7. Brief(Task, b) => Brief(new, b \o Take(y, n))
  <2> SUFFICES ASSUME Brief(Task, b) PROVE Brief(new, b \o Take(y, n))
    OBVIOUS
  <2>1. CASE AfterHeader(Task) = "FINISHED_STATE"
    BY <1>3, <2>1 DEF Brief, BeforeAnswer, TakesBody, SendsFile
  <2>2. CASE AfterHeader(Task) = "SEND_BODY_STATE"
    <3>1. SendsFile(Task)
      BY <1>1, <2>2 DEF SendsFile, AfterHeader
    <3>2. b = <<>> /\ Task.fp.pos = 0 /\ Len(y) <= 2
      BY <1>1, <3>1 DEF Brief, BeforeAnswer
    <3>3. y \in Seq(Piece(script)) /\ Len(y) \in Nat
      BY <1>2, LenProperties DEF TaskTyped
    <3>4. n = Len(y)
      <4>1. Room(b) = BUF_DATA_MAXSIZE
        BY <3>2, EmptySeq, StateAssumption DEF Room
      <4> QED
        BY <3>2, <3>3, <4>1, StateAssumption DEF Least
    <3>5. b \o Take(y, n) = y
      BY <3>2, <3>3, <3>4, TakeAll, ConcatEmptySeq
    <3> HIDE DEF b, y, n
    <3>6. Len(b \o Take(y, n)) <= 2
      BY <3>2, <3>5
    <3> QED
      BY <1>3, <2>2, <3>2, <3>6 DEF Brief, BeforeAnswer, TakesBody
  <2> QED
    BY <1>6, <2>1, <2>2
<1>8. new.state # "RECV_HEADER_STATE"
  BY <1>3, <1>6
<1> QED
  BY <1>0, <1>1, <1>3, <1>4, <1>5, <1>7, <1>8, TurnGoesOn

LEMMA CheckStaticTurn ==
  ASSUME Able, TurnInv, CheckStatic PROVE TurnInv'
<1> DEFINE b == Me.sending_buffer
           new == IF IsRead THEN StaticGet
                  ELSE [Task EXCEPT !.response_code = 200, !.state = "GENERATE_HEADER_STATE"]
           p == [Me EXCEPT !.http_task = new]
<1>0. Full
  BY DEF Able
<1>1. /\ pc = "http" /\ Task.state = "CHECK_CGI"
      /\ connection_list' = [connection_list EXCEPT ![cur].http_task = new]
      /\ net' = net /\ request' = request /\ UNCHANGED loop
  BY DEF CheckStatic, InHandler
<1>2. /\ DOMAIN Me = PeerFields /\ Task = Me.http_task /\ DOMAIN Task = TaskFields
      /\ cur \in Slot /\ Me = connection_list[cur] /\ DOMAIN connection_list = Slot
      /\ TaskTyped(script, Task)
  BY <1>0, <1>1, CurrentTyped
<1>3. Task.response_buf = <<>>
  BY <1>1, <1>2 DEF TaskTyped
<1>4. connection_list' = [connection_list EXCEPT ![cur] = p]
  BY <1>1, <1>2
<1>5. /\ p.socket = Me.socket /\ p.receiving_buffer = Me.receiving_buffer
      /\ p.sending_buffer = b /\ p.http_task = new
  <2> HIDE DEF new
  <2> QED
    BY <1>2 DEF PeerFields
<1> HIDE DEF p
<1>6. /\ new.own = Task.own /\ new.state \in {"GENERATE_HEADER_STATE", "SEND_HEADER_STATE"}
      /\ new.state = "SEND_HEADER_STATE" => new.fp.pos = 0 /\ Len(new.response_buf) <= 2
  <2> DEFINE ok == <<Token(request.of, "head", 200), Token(request.of, "end", 200)>>
             late == [Task EXCEPT !.response_buf = @ \o ok, !.response_code = 200,
                                  !.fp = [of |-> request.of, pos |-> 0],
                                  !.state = "SEND_HEADER_STATE"]
             none == [Task EXCEPT !.response_code = 404, !.state = "GENERATE_HEADER_STATE"]
             fails == [Task EXCEPT !.response_buf = @ \o ok, !.response_code = 500,
                                   !.state = "GENERATE_HEADER_STATE"]
             post == [Task EXCEPT !.response_code = 200, !.state = "GENERATE_HEADER_STATE"]
  <2>1. new \in {late, none, fails, post}
    <3>1. Wanted.target = "missing" => ~FileOpens
      BY DEF FileOpens
    <3> HIDE DEF late, none, fails, post
    <3>2. StaticGet \in {late, none, fails}
      BY <3>1 DEF StaticGet, late, none, fails
    <3> QED
      BY <3>2 DEF post
  <2> HIDE DEF new
  <2>2. Task.response_buf \o ok = ok /\ Len(ok) = 2
    <3> DEFINE h == Token(request.of, "head", 200)
               e == Token(request.of, "end", 200)
    <3> HIDE DEF h, e
    <3>1. <<h, e>> \in Seq({h, e}) /\ Len(<<h, e>>) = 2
      OBVIOUS
    <3>2. <<>> \o <<h, e>> = <<h, e>>
      BY <3>1, ConcatEmptySeq
    <3> QED
      BY <1>3, <3>1, <3>2 DEF h, e
  <2> HIDE DEF ok
  <2>3. /\ late.own = Task.own /\ late.state = "SEND_HEADER_STATE" /\ late.fp.pos = 0
        /\ late.response_buf = ok
    BY <1>2, <2>2 DEF TaskFields
  <2>4. none.own = Task.own /\ none.state = "GENERATE_HEADER_STATE"
    BY <1>2 DEF TaskFields
  <2>5. fails.own = Task.own /\ fails.state = "GENERATE_HEADER_STATE"
    BY <1>2 DEF TaskFields
  <2>6. post.own = Task.own /\ post.state = "GENERATE_HEADER_STATE"
    BY <1>2 DEF TaskFields
  <2> HIDE DEF late, none, fails, post
  <2>7. CASE new = late
    <3>1. /\ new.own = Task.own /\ new.state = "SEND_HEADER_STATE" /\ new.fp.pos = 0
          /\ new.response_buf = ok
      BY <2>3, <2>7
    <3>2. Len(new.response_buf) = 2
      BY ONLY <2>2, <3>1
    <3> DEFINE l == Len(new.response_buf)
    <3> HIDE DEF l
    <3>3. l <= 2
      BY <3>2 DEF l
    <3> QED
      BY <3>1, <3>3 DEF l
  <2>8. CASE new \in {none, fails, post}
    BY <2>4, <2>5, <2>6, <2>8
  <2> QED
    BY <2>1, <2>7, <2>8
<1> HIDE DEF new
<1>7. Brief(Task, b) => Brief(new, b)
  BY <1>1, <1>6 DEF Brief, BeforeAnswer, TakesBody, SendsFile
<1> QED
  BY <1>0, <1>1, <1>4, <1>5, <1>6, <1>7, TurnGoesOn

\* The whole file fits behind the header.
LEMMA SendBodyTurn ==
  ASSUME Able, TurnInv, FileLen + 3 <= BUF_DATA_MAXSIZE, SendBody PROVE TurnInv'
<1> DEFINE b == Me.sending_buffer
           o == Task.own
           f == Task.fp
           file == FileStream(f.of)
           n == Least(Len(file) - f.pos, Room(b))
           part == SubSeq(file, f.pos + 1, f.pos + n)
           g == [f EXCEPT !.pos = @ + n]
           more == [Task EXCEPT !.fp = g]
           done == [more EXCEPT !.state = "FINISHED_STATE"]
           p == [Me EXCEPT !.sending_buffer = @ \o SubSeq(file, f.pos + 1, f.pos + n),
                           !.http_task.fp.pos = @ + n]
           q == [p EXCEPT !.http_task.state = "FINISHED_STATE"]
           P == Seq(Piece(script))
<1>0. Full
  BY DEF Able
<1>1. /\ pc = "http" /\ Task.state = "SEND_BODY_STATE"
      /\ \/ p.http_task.fp.pos < Len(file)
         \/ /\ connection_list' = [connection_list EXCEPT ![cur] = q]
            /\ UNCHANGED loop
      /\ net' = net /\ request' = request
  BY DEF SendBody, InHandler, Return
<1>2. /\ DOMAIN Me = PeerFields /\ Task = Me.http_task /\ DOMAIN Task = TaskFields
      /\ cur \in Slot /\ Me = connection_list[cur] /\ Me.socket # NULL
      /\ SlotTyped(script, Me) /\ TaskTyped(script, Task)
  BY <1>0, <1>1, CurrentTyped
<1>3. f \in [of : Asked(script), pos : 0 .. FileLen + 1]
  BY <1>1, <1>2 DEF TaskTyped, SendsFile
<1>4. p.http_task = more /\ p.sending_buffer = b \o part
  <2> HIDE DEF n, file
  <2> QED
    BY <1>2, <1>3 DEF PeerFields, TaskFields
<1>5. p.socket = Me.socket /\ p.receiving_buffer = Me.receiving_buffer /\ DOMAIN p = PeerFields
  BY <1>2 DEF PeerFields
<1>6. b \in P /\ file \in P /\ Len(file) = FileLen + 1
  BY <1>2, <1>3, FileType DEF SlotTyped
<1>7. f.pos = 0 /\ Len(b) <= 2
  <2>1. TurnOf(cur)
    BY <1>2 DEF TurnInv
  <2>2. Brief(Task, b)
    BY <1>1, <1>2, <2>1 DEF TurnOf, Prompt
  <2> QED
    BY <1>1, <2>2 DEF Brief, SendsFile
<1> HIDE DEF file, b, p, q
<1>8. n = Len(file) /\ FileLen \in Nat
  <2>1. Len(b) \in Nat /\ FileLen \in Nat
    BY <1>6, LenProperties, StateAssumption
  <2>2. Room(b) >= FileLen + 1
    BY <1>7, <2>1, StateAssumption DEF Room
  <2> QED
    BY <1>6, <1>7, <2>1, <2>2, StateAssumption DEF Least, Room
<1> HIDE DEF n
<1>9. g.pos = Len(file)
  BY <1>3, <1>6, <1>7, <1>8
<1> HIDE DEF g
<1>10. /\ more.state = "SEND_BODY_STATE" /\ more.own = o /\ more.fp = g
       /\ DOMAIN more = TaskFields
  BY <1>1, <1>2 DEF TaskFields
<1> HIDE DEF more
<1>11. done.state = "FINISHED_STATE" /\ done.own = o
  BY <1>10 DEF TaskFields
<1>12. /\ q.http_task = done /\ q.sending_buffer = b \o part
       /\ q.socket = Me.socket /\ q.receiving_buffer = Me.receiving_buffer
  BY <1>4, <1>5 DEF PeerFields, q
<1> HIDE DEF done
<1>13. connection_list' = [connection_list EXCEPT ![cur] = q] /\ UNCHANGED loop
  <2>1. p.http_task.fp.pos = Len(file)
    BY <1>4, <1>9, <1>10
  <2> QED
    BY <1>1, <1>6, <1>8, <2>1
<1>14. Brief(done, b \o part)
  BY <1>11 DEF Brief, BeforeAnswer, TakesBody, SendsFile
<1> QED
  BY <1>0, <1>1, <1>11, <1>12, <1>13, <1>14, TurnGoesOn DEF o

\* A directory opens and cannot be read; the buffer has room when that is found out.
LEMMA SendBodyFailsTurn ==
  ASSUME Able, AnswerInv, TurnInv, SendBodyFails PROVE TurnInv'
<1> DEFINE b == Me.sending_buffer
<1>0. Full
  BY DEF Able
<1>1. pc = "http" /\ Task.state = "SEND_BODY_STATE"
  BY DEF SendBodyFails, InHandler
<1>2. /\ cur \in Slot /\ Me = connection_list[cur] /\ Task = Me.http_task
      /\ Me.socket # NULL /\ SlotTyped(script, Me)
  BY <1>0, <1>1, CurrentTyped
<1>3. Len(b) <= 2
  <2>1. TurnOf(cur)
    BY <1>2 DEF TurnInv
  <2>2. Brief(Task, b)
    BY <1>1, <1>2, <2>1 DEF TurnOf, Prompt
  <2> QED
    BY <1>1, <2>2 DEF Brief, SendsFile
<1>4. Room(b) # 0
  <2>1. Len(b) \in Nat
    BY <1>2, LenProperties DEF SlotTyped
  <2> QED
    BY <1>3, <2>1, StateAssumption DEF Room
<1>5. close_client_connection(cur, net)
  BY <1>4 DEF SendBodyFails, ReturnCloseNow
<1> QED
  BY <1>2, <1>5, NetHalts, CloseTurn

LEMMA HeaderRefusedTurn ==
  ASSUME Able, AnswerInv, TurnInv, HeaderTooLong \/ HeaderRefused PROVE TurnInv'
<1>1. pc = "http"
  BY DEF HeaderTooLong, HeaderRefused, HeaderComplete, InHandler
<1>2. Me.socket # NULL
  BY <1>1, CurrentTyped DEF Able
<1>3. close_client_connection(cur, net)
  BY DEF HeaderTooLong, HeaderRefused, ReturnCloseNow
<1> QED
  BY <1>2, <1>3, NetHalts, CloseTurn

\* The slot gives up its turn.
LEMMA FinishTurn ==
  ASSUME Able, TurnInv, Finish PROVE TurnInv'
<1> DEFINE k == net[Me.socket]
           new == reset_http_task(Task)
           p == [Me EXCEPT !.http_task = new]
           q == Unread(Task, Me.receiving_buffer, k.inq)
<1>0. Full
  BY DEF Able
<1>1. /\ pc = "http" /\ Task.state = "FINISHED_STATE"
      /\ connection_list' = [connection_list EXCEPT ![cur] = p] /\ net' = net
  BY DEF Finish, InHandler, Return, reset_http_task, FreshTask, world
<1>2. /\ DOMAIN Me = PeerFields /\ Task = Me.http_task
      /\ cur \in Slot /\ Me = connection_list[cur] /\ Me.socket # NULL
  BY <1>0, <1>1, CurrentTyped
<1>3. new.state = "RECV_HEADER_STATE" /\ new.parse_buf = <<>>
  BY DEF reset_http_task, FreshTask
<1> HIDE DEF new
<1>4. p.socket = Me.socket /\ p.receiving_buffer = Me.receiving_buffer /\ p.http_task = new
  BY <1>2 DEF PeerFields
<1> HIDE DEF p
<1>5. Unread(new, p.receiving_buffer, k.inq) = q
  BY <1>1, <1>3, <1>4 DEF Unread, Held
<1>6. Late(k, q) /\ q = <<>>
  <2>1. TurnOf(cur)
    BY <1>2 DEF TurnInv
  <2>2. Prompt(Me, k) /\ Me.http_task.state # "RECV_HEADER_STATE"
    BY <1>1, <1>2, <2>1 DEF TurnOf
  <2> QED
    BY <1>2, <2>2 DEF Prompt
<1> HIDE DEF q, k
<1>7. Prompt(p, k)
  <2>1. p.http_task.state = "RECV_HEADER_STATE"
    BY <1>3, <1>4
  <2> QED
    BY <1>4, <1>5, <1>6, <2>1 DEF Prompt
<1> QED
  BY <1>0, <1>1, <1>3, <1>4, <1>7, CurrentTurn DEF k

LEMMA HandlerStepTurn ==
  ASSUME Able, AnswerInv, TurnInv, OneTurn(script), Handler PROVE TurnInv'
<1>1. ~ProcessingCgi
  <2>1. Full /\ FreeInv
    BY DEF Able
  <2>2. cur \in Slot /\ Task = connection_list[cur].http_task
    BY <2>1, CurrentTyped
  <2> QED
    BY <2>1, <2>2 DEF ProcessingCgi, InHandler, FreeInv
<1>2. CASE HandlerDies
  <2>1. UNCHANGED <<connection_list, net, cur, request>> /\ pc' = "dead"
    BY <1>2 DEF HandlerDies, Die
  <2> QED
    BY <2>1, TurnStays
<1> QED
  BY <1>1, <1>2, HeaderIncompleteTurn, HeaderRefusedTurn, HeaderParsedTurn,
     ReceiveBodyTurn, GenerateHeaderTurn, SendHeaderTurn, CheckStaticTurn,
     NoCgiAsked, SendBodyTurn, SendBodyFailsTurn, FinishTurn
  DEF Handler, OneTurn
-----------------------------------------------------------------------------
(* Between two turns every task waits for a header.                        *)

\* Steps of one client at most, and of its slot.
LEMMA TurnStep ==
  ASSUME Full, TurnInv, pc \notin {"http", "dead"}, NEW c \in Client,
         \A d \in Client : d # c => net'[d] = net[d],
         net'[c].conn = "none" => Late(net'[c], net'[c].inq),
         \A s \in Slot : \/ connection_list'[s] = connection_list[s] /\ connection_list[s].socket # c
                         \/ TurnOf(s)'
  PROVE  TurnInv'
<1>1. \A d \in Client : Early(d)'
  BY DEF TurnInv, Early
<1>2. ASSUME NEW s \in Slot, connection_list'[s] = connection_list[s],
             connection_list[s].socket # c
      PROVE  TurnOf(s)'
  <2>1. connection_list[s].socket \in Client \cup {NULL} /\ TurnOf(s)
    BY <1>2 DEF Full, IInv, SlotInv, Sockets, TurnInv
  <2> QED
    BY <1>1, <1>2, <2>1 DEF TurnOf
<1> QED
  BY <1>1, <1>2 DEF TurnInv, Slot

\* What arrives at the current slot was on its way to it.
LEMMA RecvTurn ==
  ASSUME Able, TurnInv, Recv PROVE TurnInv'
<1>0. Full /\ InputInv
  BY DEF Able
<1>1. Me.socket # NULL /\ pc = "recv"
  BY DEF Recv, NO_SOCKET
<1>2. CASE UNCHANGED <<connection_list, net>>
  BY <1>1, <1>2, TurnStays
<1>3. CASE ReceiveFromPeer
  <2> DEFINE c == Me.socket
             k == net[c]
             S == PieceOf(script, c)
             inq == k.inq
             old == Me.receiving_buffer
             n == Least(Len(inq), Room(old))
             x == Take(inq, n)
             y == Drop(inq, n)
             p == [Me EXCEPT !.receiving_buffer = old \o x]
             h == [k EXCEPT !.inq = y]
  <2>1. /\ cur \in Slot /\ DOMAIN connection_list = Slot /\ Me = connection_list[cur]
        /\ DOMAIN Me = PeerFields /\ SlotTyped(script, Me)
    BY <1>0, CurrentTyped
  <2>2. Held(Task) \in Seq(S) /\ old \in Seq(S) /\ inq \in Seq(S) /\ c \in Client
        /\ k.conn = "open"
    BY <1>0, <1>1, <2>1, SlotOfClient DEF Task, Me
  <2>3. DOMAIN net = Client /\ DOMAIN k = NetFields
    BY <1>0, <2>2 DEF Full, IInv, SlotInv, Shape
  <2>4. n \in 0 .. Len(inq)
    BY <2>1, <2>2, FitType, StateAssumption DEF Room, SlotTyped
  <2>5. x \in Seq(S) /\ Len(x) = n /\ y \in Seq(S)
    BY <2>2, <2>4, TakeType, DropType
  <2>6. /\ connection_list' = [connection_list EXCEPT ![cur] = p]
        /\ net' = [net EXCEPT ![c] = h]
    BY <1>3, <2>5 DEF ReceiveFromPeer, Me, Received
  <2>7. x \o y = inq
    BY <2>2, <2>4, TakeDrop
  <2>8. Prompt(Me, k) /\ Task.state = "RECV_HEADER_STATE"
    <3>1. TurnOf(cur)
      BY <2>1 DEF TurnInv
    <3> QED
      BY <1>1, <2>1, <3>1 DEF TurnOf, Task, Me
  <2> HIDE DEF x, y, n
  <2>9. h.inq = y /\ h.next = k.next /\ h.conn = k.conn
    BY <2>2, <2>3 DEF NetFields
  <2>10. /\ p.socket = c /\ p.http_task = Task /\ p.receiving_buffer = old \o x
         /\ p.sending_buffer = Me.sending_buffer
    BY <2>1 DEF PeerFields, Task, Me
  <2>11. \A d \in Client : net'[d] = IF d = c THEN h ELSE net[d]
    BY <2>3, <2>6
  <2>12. \A s \in Slot : connection_list'[s] = IF s = cur THEN p ELSE connection_list[s]
    BY <2>1, <2>6
  <2> HIDE DEF p, h, k, old, inq
  <2>13. Unread(Task, old \o x, y) = Unread(Task, old, inq)
    <3> DEFINE d == Held(Task)
    <3>1. d \in Seq(S)
      BY <2>2
    <3> HIDE DEF d, S
    <3>2. Cat(Cat(d, Cat(old, x)), y) = Cat(Cat(d, old), Cat(x, y))
      BY <2>2, <2>5, <3>1, Moved
    <3>3. Cat(x, y) = inq
      BY <2>7 DEF Cat
    <3> QED
      BY <3>2, <3>3 DEF Cat, Unread, d
  <2>14. Prompt(p, h)
    <3> DEFINE q == Unread(Task, old, inq)
    <3>1. Late(k, q) /\ (Me.sending_buffer = <<>> \/ q = <<>>)
      BY <2>8 DEF Prompt, Task, Me, old, inq
    <3> HIDE DEF q
    <3>2. Unread(p.http_task, p.receiving_buffer, h.inq) = q
      BY <2>9, <2>10, <2>13 DEF q
    <3>3. Late(h, q)
      BY <2>9, <3>1 DEF Late, From
    <3> QED
      BY <2>8, <2>10, <3>1, <3>2, <3>3 DEF Prompt
  <2>15. ASSUME NEW s \in Slot
         PROVE  \/ connection_list'[s] = connection_list[s] /\ connection_list[s].socket # c
                \/ TurnOf(s)'
    <3>1. CASE s = cur
      <4>1. net'[c] = h /\ connection_list'[s] = p
        BY <2>2, <2>11, <2>12, <3>1
      <4> QED
        BY <2>8, <2>10, <2>14, <4>1 DEF TurnOf
    <3>2. CASE s # cur
      <4>1. connection_list[cur].socket # connection_list[s].socket
        BY <1>0, <1>1, <2>1, <3>2, TwoClients
      <4> QED
        BY <2>1, <2>12, <3>2, <4>1
    <3> QED
      BY <3>1, <3>2
  <2>16. net'[c].conn # "none" /\ \A d \in Client : d # c => net'[d] = net[d]
    <3>1. net'[c] = h /\ h.conn = "open"
      BY <2>2, <2>9, <2>11 DEF k
    <3> QED
      BY <2>11, <3>1
  <2> QED
    BY <1>0, <1>1, <2>2, <2>15, <2>16, TurnStep
<1> QED
  BY <1>2, <1>3 DEF Recv

\* What is sent leaves the buffer, and an empty buffer stays empty.
LEMMA SendTurn ==
  ASSUME Able, AnswerInv, TurnInv, Send PROVE TurnInv'
<1> DEFINE c == Me.socket
           b == Me.sending_buffer
           t == Me.http_task
           r == Me.receiving_buffer
           h == SentByKernel[c]
           n == Taken
<1>0. Full /\ pc = "send"
  BY DEF Able, Send
<1>1. /\ cur \in Slot /\ Me = connection_list[cur] /\ DOMAIN connection_list = Slot
      /\ DOMAIN Me = PeerFields
  BY <1>0, CurrentTyped
<1>2. c # NULL
  BY <1>0, <1>1 DEF Full, Typed, Control
<1>3. CASE ~Sends
  <2>1. UNCHANGED <<connection_list, net>>
    BY <1>3 DEF Send
  <2> QED
    BY <1>0, <2>1, TurnStays
<1>4. CASE Sends
  <2>1. connection_list' = [connection_list EXCEPT ![cur].sending_buffer = Drop(@, Taken)]
    BY <1>4 DEF Send, SendToPeer
  <2>2. net' = SentByKernel
    BY <1>4 DEF Send, SendToPeer
  <2>3. c \in Client /\ b \in Seq(Piece(script)) /\ net[c].conn = "open"
    BY <1>1, <1>2, Serving
  <2>4. /\ \A d \in Client : d # c => SentByKernel[d] = net[d]
        /\ h.next = net[c].next /\ h.inq = net[c].inq /\ h.conn = net[c].conn
        /\ n \in 0 .. Len(b)
    BY <1>2, SentByKernelIs
  <2>5. /\ connection_list'[cur].socket = c /\ connection_list'[cur].http_task = t
        /\ connection_list'[cur].receiving_buffer = r
        /\ connection_list'[cur].sending_buffer = Drop(b, n)
    BY <1>1, <2>1 DEF PeerFields
  <2>6. Prompt(Me, net[c]) /\ t.state = "RECV_HEADER_STATE"
    <3>1. TurnOf(cur)
      BY <1>1 DEF TurnInv
    <3> QED
      BY <1>0, <1>1, <1>2, <3>1 DEF TurnOf
  <2>7. b = <<>> => Drop(b, n) = <<>>
    <3>1. ASSUME b = <<>> PROVE n = 0
      BY <2>4, <3>1, EmptySeq
    <3> QED
      BY <2>3, <3>1, DropNone
  <2> DEFINE q == Unread(t, r, net[c].inq)
             d == Drop(b, n)
             p == connection_list'[cur]
  <2>8. Late(net[c], q) /\ (b = <<>> \/ q = <<>>)
    BY <2>6 DEF Prompt
  <2>9. Unread(p.http_task, p.receiving_buffer, h.inq) = q
    BY <2>4, <2>5
  <2> HIDE DEF q, d, h, p
  <2>10. Prompt(p, h)
    <3>1. Late(h, q)
      BY <2>4, <2>8 DEF Late, From
    <3>2. p.sending_buffer = <<>> \/ q = <<>>
      BY <2>5, <2>7, <2>8 DEF p
    <3>3. p.http_task.state = "RECV_HEADER_STATE"
      BY <2>5, <2>6 DEF p
    <3> QED
      BY <2>9, <3>1, <3>2, <3>3 DEF Prompt
  <2>11. ASSUME NEW s \in Slot, s = cur PROVE TurnOf(s)'
    <3>1. p.socket = c /\ p.http_task.state = "RECV_HEADER_STATE" /\ net'[c] = h
      BY <2>2, <2>5, <2>6 DEF p, h
    <3>2. p.socket # NULL => /\ Prompt(p, net'[p.socket])
                             /\ p.http_task.state = "RECV_HEADER_STATE"
      BY <2>10, <3>1
    <3> QED
      BY <2>11, <3>2 DEF TurnOf, p
  <2>12. ASSUME NEW s \in Slot, s # cur
         PROVE  connection_list'[s] = connection_list[s] /\ connection_list[s].socket # c
    <3>1. connection_list[cur].socket # connection_list[s].socket
      BY <1>0, <1>1, <1>2, <2>12, TwoClients
    <3> QED
      BY <1>1, <2>1, <2>12, <3>1
  <2>13. net'[c].conn # "none" /\ \A e \in Client : e # c => net'[e] = net[e]
    BY <2>2, <2>3, <2>4 DEF h
  <2> QED
    BY <1>0, <2>3, <2>11, <2>12, <2>13, TurnStep
<1> QED
  BY <1>3, <1>4

\* A client that is accepted has said no more than its first request.
LEMMA AcceptedTurn ==
  ASSUME Able, TurnInv, pc \notin {"http", "dead"},
         NEW s \in Slot, NEW c \in Client, net[c].conn = "none",
         connection_list[s].socket = NULL,
         connection_list' = [connection_list EXCEPT
           ![s] = [@ EXCEPT !.socket = c, !.close_conn = FALSE, !.http_task = FreshTask]],
         net' = [net EXCEPT ![c].conn = "open"]
  PROVE  TurnInv'
<1> DEFINE old == connection_list[s]
           p == [old EXCEPT !.socket = c, !.close_conn = FALSE, !.http_task = FreshTask]
           k == net[c]
           h == net'[c]
<1>0. Full
  BY DEF Able
<1>1. /\ DOMAIN connection_list = Slot /\ DOMAIN old = PeerFields
      /\ DOMAIN net = Client /\ DOMAIN k = NetFields
  BY <1>0 DEF Full, IInv, SlotInv, Shape
<1>2. Emptied(old)
  BY DEF Able, FreeInv
<1>3. /\ p.socket = c /\ p.http_task = FreshTask /\ p.receiving_buffer = <<>>
      /\ p.sending_buffer = <<>>
  BY <1>1, <1>2 DEF PeerFields, Emptied
<1>4. \A t \in Slot : connection_list'[t] = IF t = s THEN p ELSE connection_list[t]
  BY <1>1
<1>5. /\ \A d \in Client : d # c => net'[d] = net[d]
      /\ h.conn = "open" /\ h.inq = k.inq /\ h.next = k.next
  BY <1>1 DEF NetFields
<1> HIDE DEF p, h
<1>6. Late(k, k.inq)
  BY DEF TurnInv, Early
<1>7. FreshTask.state = "RECV_HEADER_STATE" /\ FreshTask.parse_buf = <<>>
  BY DEF FreshTask
<1>8. Unread(FreshTask, <<>>, h.inq) = k.inq
  <2>1. k.inq \in Seq(PieceOf(script, c))
    BY <1>0 DEF Full, Typed, NetTyped
  <2> QED
    BY <1>5, <1>7, <2>1, ConcatEmptySeq DEF Unread, Held
<1>9. Prompt(p, h)
  <2>1. Late(h, k.inq)
    BY <1>5, <1>6 DEF Late, From
  <2> HIDE DEF k
  <2> QED
    BY <1>3, <1>7, <1>8, <2>1 DEF Prompt
<1>10. ASSUME NEW t \in Slot
       PROVE  \/ connection_list'[t] = connection_list[t] /\ connection_list[t].socket # c
              \/ TurnOf(t)'
  <2>1. CASE t = s
    BY <1>3, <1>4, <1>7, <1>9, <2>1 DEF TurnOf, h
  <2>2. CASE t # s
    <3>1. connection_list[t].socket # c
      BY <1>0 DEF Full, IInv, SlotInv, SlotsMatchConnections, Peer
    <3> QED
      BY <1>4, <2>2, <3>1
  <2> QED
    BY <2>1, <2>2
<1>11. net'[c].conn # "none"
  BY <1>5 DEF h
<1> QED
  BY <1>0, <1>5, <1>10, <1>11, TurnStep

LEMMA AcceptTurn ==
  ASSUME Able, TurnInv, Accept PROVE TurnInv'
<1>0. Full
  BY DEF Able
<1>1. pc = "accept"
  BY DEF Accept
<1>2. CASE UNCHANGED <<connection_list, net>>
  BY <1>1, <1>2, TurnStays
<1>3. CASE ListenFd \in rfds /\ handle_new_connection /\ ~UNCHANGED <<connection_list, net>>
  <2> DEFINE c == Head(backlog)
  <2>1. backlog \in Seq(Client) /\ backlog # <<>>
    BY <1>0, <1>1, <1>3 DEF Full, IInv, SlotInv, BacklogInv, AcceptInv
  <2>2. c \in Client /\ net[c].conn = "none"
    <3>1. c = backlog[1] /\ 1 \in 1 .. Len(backlog) /\ c \in Client
      BY <2>1
    <3> QED
      BY <1>0, <3>1 DEF Full, IInv, SlotInv, BacklogInv
  <2> HIDE DEF c
  <2>3. CASE \E s \in Slot :
               /\ connection_list[s].socket = NULL
               /\ connection_list' = [connection_list EXCEPT
                    ![s] = [@ EXCEPT !.socket = c, !.close_conn = FALSE,
                                     !.http_task = FreshTask]]
               /\ net' = [net EXCEPT ![c].conn = "open"]
    BY <1>1, <2>2, <2>3, AcceptedTurn
  <2>4. CASE /\ net' = [net EXCEPT ![c].conn = "refused", ![c].inq = <<>>]
             /\ connection_list' = connection_list
    <3>1. DOMAIN net = Client /\ DOMAIN net[c] = NetFields
      BY <1>0, <2>2 DEF Full, IInv, SlotInv, Shape
    <3>2. net'[c].conn = "refused" /\ \A d \in Client : d # c => net'[d] = net[d]
      BY <2>2, <2>4, <3>1 DEF NetFields
    <3>3. \A s \in Slot : connection_list'[s] = connection_list[s] /\ connection_list[s].socket # c
      BY <1>0, <2>2, <2>4 DEF Full, IInv, SlotInv, SlotsMatchConnections, Peer
    <3> QED
      BY <1>0, <1>1, <2>2, <3>2, <3>3, TurnStep
  <2> QED
    BY <1>3, <2>3, <2>4 DEF handle_new_connection, Peer, NO_SOCKET, c
<1> QED
  BY <1>2, <1>3 DEF Accept

\* No slot is left.
LEMMA ShutdownTurn ==
  ASSUME Able, TurnInv, Shutdown PROVE TurnInv'
<1> DEFINE gone == {s \in Slot : Peer(s).socket # NO_SOCKET}
<1>0. Full
  BY DEF Able
<1>1. /\ connection_list' =
           [s \in Slot |-> IF s \in gone THEN Vacated(Peer(s)) ELSE Peer(s)]
      /\ net' = [c \in Client |->
                   IF \E s \in gone : Peer(s).socket = c
                     THEN [net[c] EXCEPT !.conn = "closed", !.inq = <<>>]
                   ELSE IF Waiting(c) THEN [net[c] EXCEPT !.conn = "refused", !.inq = <<>>]
                   ELSE net[c]]
  BY DEF Shutdown, ShutdownOf
<1> HIDE DEF gone
<1>2. ASSUME NEW s \in Slot PROVE connection_list'[s].socket = NULL
  <2>1. DOMAIN Peer(s) = PeerFields
    BY <1>0 DEF Full, IInv, SlotInv, Shape, Peer
  <2>2. CASE s \in gone
    BY <1>1, <2>1, <2>2 DEF Vacated, PeerFields, NO_SOCKET
  <2>3. CASE s \notin gone
    BY <1>1, <2>3 DEF gone, NO_SOCKET
  <2> QED
    BY <2>2, <2>3
<1>3. ASSUME NEW c \in Client PROVE Early(c)'
  <2>1. DOMAIN net[c] = NetFields /\ Early(c)
    BY <1>0 DEF Full, IInv, SlotInv, Shape, TurnInv
  <2>2. ASSUME NEW v, net'[c] = [net[c] EXCEPT !.conn = v, !.inq = <<>>], v \in {"closed", "refused"}
        PROVE  Early(c)'
    <3>1. net'[c].conn = v
      BY <2>1, <2>2 DEF NetFields
    <3> QED
      BY <2>2, <3>1 DEF Early
  <2>3. CASE net'[c] = net[c]
    BY <2>1, <2>3 DEF Early
  <2> QED
    BY <1>1, <2>2, <2>3
<1> QED
  BY <1>2, <1>3 DEF TurnInv, TurnOf, Slot

LEMMA LoopStepTurn ==
  ASSUME Able, AnswerInv, TurnInv, OneTurn(script), ServerStep PROVE TurnInv'
<1>0. Full /\ Me = connection_list[cur]
  BY CurrentTyped DEF Able
<1>1. CASE Select \/ SelectDies \/ NoCgi \/ CgiDies \/ SkipSlot
  <2>1. UNCHANGED <<connection_list, net>> /\ pc \notin {"http", "dead"}
    BY <1>1 DEF Select, SelectDies, NoCgi, CgiDies, SkipSlot, Die, peers, world
  <2> QED
    BY <2>1, TurnStays
<1>2. CASE RecvCloses
  <2>1. Me.socket # NULL /\ close_client_connection(cur, net)
    BY <1>2 DEF RecvCloses, CloseSlot, NO_SOCKET
  <2> QED
    BY <2>1, NetHalts, CloseTurn
<1>3. CASE SendCloses
  <2>1. pc = "send" /\ close_client_connection(cur, SentByKernel)
    BY <1>3 DEF SendCloses, CloseSlot
  <2>2. Me.socket # NULL
    BY <1>0, <2>1 DEF Full, Typed, Control
  <2> QED
    BY <2>1, <2>2, SentHalts, CloseTurn
<1> QED
  BY <1>1, <1>2, <1>3, AcceptTurn, NoChild, RecvTurn, SendTurn, HandlerStepTurn
  DEF ServerStep
-----------------------------------------------------------------------------
(* Clients, which the server does not meet in the middle of a turn.        *)

\* A step of client c, which leaves the server alone.
LEMMA ClientTurn ==
  ASSUME Able, TurnInv, KernelTurn, NEW c \in Client, UNCHANGED connection_list,
         \A d \in Client : d # c => net'[d] = net[d], Early(c)',
         \A s \in Slot : connection_list[s].socket = c => Prompt(connection_list[s], net'[c])
  PROVE  TurnInv'
<1>1. Full /\ pc \notin {"http", "dead"}
  BY DEF Able, KernelTurn
<1>2. ASSUME NEW s \in Slot
      PROVE  \/ connection_list'[s] = connection_list[s] /\ connection_list[s].socket # c
             \/ TurnOf(s)'
  <2>1. CASE connection_list[s].socket = c
    <3>1. TurnOf(s) /\ c # NULL
      BY StateAssumption DEF TurnInv
    <3>2. connection_list[s].http_task.state = "RECV_HEADER_STATE"
      BY <1>1, <2>1, <3>1 DEF TurnOf
    <3> QED
      BY <2>1, <3>2 DEF TurnOf
  <2> QED
    BY <2>1
<1>3. net'[c].conn = "none" => Late(net'[c], net'[c].inq)
  BY DEF Early
<1> QED
  BY <1>1, <1>2, <1>3, TurnStep

\* What client c says stays the same, or goes with it.
LEMMA QuietTurn ==
  ASSUME Able, TurnInv, KernelTurn, NEW c \in Client, UNCHANGED connection_list,
         \A d \in Client : d # c => net'[d] = net[d],
         net'[c].conn = net[c].conn, net'[c].next = net[c].next,
         net'[c].inq \in {net[c].inq, <<>>}
  PROVE  TurnInv'
<1> DEFINE k == net[c]
           h == net'[c]
           S == PieceOf(script, c)
<1>0. Full /\ InputInv
  BY DEF Able
<1>1. /\ k.inq \in Seq(S) /\ k.next \in (Nat \ {0}) \X Nat
  BY <1>0 DEF Full, Typed, NetTyped
<1> HIDE DEF k, h, S
<1>2. /\ h.conn = k.conn /\ h.next = k.next /\ h.inq \in {k.inq, <<>>}
  BY DEF h, k
<1>3. Late(h, <<>>)
  BY <1>1, <1>2 DEF Late, From, Before
<1>4. Early(c)'
  <2>1. k.conn = "none" => Late(k, k.inq)
    BY DEF TurnInv, Early, k
  <2>2. h.conn = "none" => Late(h, h.inq)
    BY <1>2, <1>3, <2>1 DEF Late, From
  <2> QED
    BY <2>2 DEF Early, h
<1>5. ASSUME NEW s \in Slot, connection_list[s].socket = c
      PROVE  Prompt(connection_list[s], h)
  <2> DEFINE p == connection_list[s]
             t == p.http_task
             b == p.receiving_buffer
             q == Unread(t, b, k.inq)
             d == Unread(t, b, <<>>)
  <2>1. c # NULL /\ pc \notin {"http", "dead"}
    BY StateAssumption DEF KernelTurn
  <2>2. Prompt(p, k) /\ t.state = "RECV_HEADER_STATE"
    BY <1>5, <2>1 DEF TurnInv, TurnOf, k
  <2>3. Held(t) \in Seq(S) /\ b \in Seq(S)
    BY <1>0, <1>5, <2>1, SlotOfClient DEF S
  <2>4. Late(k, q) /\ (p.sending_buffer = <<>> \/ q = <<>>)
    BY <2>2 DEF Prompt
  <2>5. /\ d = <<>> \/ (q # <<>> /\ d[1] = q[1])
        /\ q = <<>> => d = <<>>
    <3> DEFINE x == Held(t) \o b
    <3>1. x \in Seq(S)
      BY <2>3, ConcatProperties
    <3> HIDE DEF x
    <3>2. q = x \o k.inq /\ d = x \o <<>>
      BY DEF Unread, x
    <3>3. d = x
      BY <3>1, <3>2, ConcatEmptySeq
    <3>4. /\ Len(q) = Len(x) + Len(k.inq) /\ q \in Seq(S)
          /\ \A i \in 1 .. Len(x) : q[i] = x[i]
      BY <1>1, <3>1, <3>2, ConcatProperties, LenProperties
    <3>5. Len(x) \in Nat /\ Len(k.inq) \in Nat
      BY <1>1, <3>1, LenProperties
    <3> HIDE DEF q, d
    <3>6. x # <<>> => Len(x) > 0
      BY <3>1, <3>5, EmptySeq
    <3>7. x # <<>> => q # <<>> /\ x[1] = q[1]
      BY <3>4, <3>5, <3>6, EmptySeq
    <3> QED
      BY <3>3, <3>7
  <2> HIDE DEF q, d
  <2>6. Late(h, d)
    BY <1>2, <1>3, <2>4, <2>5 DEF Late, From
  <2>7. Late(h, q)
    BY <1>2, <2>4 DEF Late, From
  <2>8. Unread(t, b, h.inq) \in {q, d}
    BY <1>2 DEF q, d
  <2> DEFINE z == Unread(t, b, h.inq)
  <2>9. Late(h, z) /\ (p.sending_buffer = <<>> \/ z = <<>>)
    BY <2>4, <2>5, <2>6, <2>7, <2>8
  <2> QED
    BY <2>2, <2>9 DEF Prompt
<1> QED
  BY <1>4, <1>5, ClientTurn DEF h

\* An answer that the client has heard is one of those that it has got.
LEMMA HeardSoFar ==
  ASSUME NEW sc, NEW a, Tells(sc, a), NEW c \in Client, Len(sc[c]) \in Nat,
         NEW m \in 0 .. Len(sc[c]), NEW j \in 1 .. Len(sc[c]), NEW k, NEW b,
         k.got \in Seq(Piece(sc)), k.outq \in Seq(Piece(sc)), b \in Seq(Piece(sc)),
         Total(k, b) = UpTo(a, c, m), Heard(a, <<c, j>>, k)
  PROVE  j <= m
<1> DEFINE S == Piece(sc)
           u == UpTo(a, c, m)
           w == a[<<c, j>>]
           g == k.got
           o == k.outq
<1>1. (g \o o) \o b = u
  BY DEF Total, Cat
<1>2. \A i \in 1 .. Len(u) : u[i].req[2] \in 1 .. m
  <2>1. IsUpTo(sc, a, c, m)
    BY UpToType
  <2> QED
    BY <2>1 DEF IsUpTo
<1>3. w \in Seq(S) /\ \A i \in 1 .. Len(w) : w[i].req = <<c, j>>
  BY AskedOf DEF Tells, Ending
<1>4. w # <<>> /\ \E i \in 1 .. Len(g) : g[i] = w[Len(w)]
  BY DEF Heard
<1> HIDE DEF S, u, w, g, o
<1>5. g \in Seq(S) /\ o \in Seq(S) /\ b \in Seq(S)
  BY DEF g, o, S
<1>6. Len(w) \in 1 .. Len(w)
  <2>1. Len(w) \in Nat /\ Len(w) # 0
    BY ONLY <1>3, <1>4, EmptySeq, LenProperties
  <2> QED
    BY <2>1
<1>7. PICK i \in 1 .. Len(g) : g[i] = w[Len(w)]
  BY <1>4
<1>8. /\ g \o o \in Seq(S) /\ Len(g \o o) = Len(g) + Len(o)
      /\ \A n \in 1 .. Len(g) + Len(o) : (g \o o)[n] = IF n <= Len(g) THEN g[n] ELSE o[n - Len(g)]
  BY ONLY <1>5, ConcatProperties
<1>9. Len(g) \in Nat /\ Len(o) \in Nat /\ Len(b) \in Nat
  BY ONLY <1>5, LenProperties
<1> DEFINE h == g \o o
<1>10. h \in Seq(S) /\ Len(h) = Len(g) + Len(o) /\ h[i] = g[i] /\ i \in 1 .. Len(h)
  BY <1>8, <1>9
<1> HIDE DEF h
<1>11. /\ Len(h \o b) = Len(h) + Len(b)
       /\ \A n \in 1 .. Len(h) + Len(b) : (h \o b)[n] = IF n <= Len(h) THEN h[n] ELSE b[n - Len(h)]
  <2>1. h \in Seq(S) /\ b \in Seq(S)
    BY <1>5, <1>10
  <2> QED
    BY ONLY <2>1, ConcatProperties
<1>12. u[i] = h[i] /\ i \in 1 .. Len(u)
  <2>1. h \o b = u
    BY <1>1 DEF h
  <2>2. Len(h) \in Nat
    BY <1>9, <1>10
  <2> QED
    BY <1>9, <1>10, <1>11, <2>1, <2>2
<1>13. u[i].req = <<c, j>>
  BY <1>3, <1>6, <1>7, <1>10, <1>12
<1>14. j \in 1 .. m
  BY <1>2, <1>12, <1>13
<1> QED
  BY <1>14

\* What a client that may go on has been sent it has read, and the next thing
\* that its slot reads begins its next request.
LEMMA GoesOnNext ==
  ASSUME Able, AnswerInv, NEW s \in Slot, NEW c \in Client, connection_list[s].socket = c,
         connection_list[s].http_task.state = "RECV_HEADER_STATE",
         LET p == connection_list[s]
             k == net[c]
             f == From(k, Unread(p.http_task, p.receiving_buffer, k.inq))
         IN /\ k.st # "gone" /\ f[2] = 1 /\ f[1] \in Nat
            /\ k.next[1] \in 1 .. Len(script[c])
            /\ f[1] <= k.next[1] /\ k.next[1] <= f[1] + 1
            /\ k.next[1] > 1 => Heard(Replies, <<c, k.next[1] - 1>>, k)
  PROVE  LET p == connection_list[s]
             k == net[c]
             f == From(k, Unread(p.http_task, p.receiving_buffer, k.inq))
         IN p.sending_buffer = <<>> /\ f[1] = k.next[1]
<1> DEFINE p == connection_list[s]
           t == p.http_task
           k == net[c]
           b == p.sending_buffer
           f == From(k, Unread(t, p.receiving_buffer, k.inq))
           n == Len(script[c])
           u == k.next[1]
           S == Piece(script)
<1>1. c # NULL
  BY StateAssumption
<1>2. /\ n \in Nat /\ k.got \in Seq(S) /\ k.outq \in Seq(S) /\ b \in Seq(S)
      /\ Serves(Replies, script, p, k)
  BY <1>1, Serving
<1>3. Owes(Replies, script, c, t, b, Total(k, b), f)
  BY <1>2 DEF Serves
<1>4. PICK m \in 0 .. n : Total(k, b) = UpTo(Replies, c, m) /\ Settles(f, m)
  BY <1>3 DEF Owes
<1>5. f = <<m + 1, 1>>
  BY <1>4 DEF Settles
<1>6. Tells(script, Replies)
  BY AbleTells
<1>7. /\ u \in 1 .. n /\ m + 1 <= u /\ u <= m + 2
      /\ u > 1 => Heard(Replies, <<c, u - 1>>, k)
  BY <1>5
<1> HIDE DEF b, f, n, u, S
<1>8. CASE u = 1
  <2>1. m = 0 /\ Total(k, b) = <<>>
    <3>1. m = 0
      BY <1>2, <1>7, <1>8
    <3> QED
      BY <1>4, <3>1, UpToNone
  <2> DEFINE g == k.got
             o == k.outq
  <2>2. g \in Seq(S) /\ o \in Seq(S) /\ b \in Seq(S) /\ (g \o o) \o b = <<>>
    BY <1>2, <2>1 DEF Total, Cat
  <2> HIDE DEF g, o
  <2>3. /\ Len(g) \in Nat /\ Len(o) \in Nat /\ Len(b) \in Nat
        /\ Len(g \o o \o b) = Len(g) + Len(o) + Len(b)
    BY ONLY <2>2, Joined
  <2>4. Len(b) = 0
    BY <2>2, <2>3, EmptySeq
  <2>5. b = <<>>
    BY ONLY <2>2, <2>4, EmptySeq
  <2> QED
    BY <1>5, <1>8, <2>1, <2>5 DEF b, f, u
<1>9. CASE u # 1
  <2>1. u - 1 \in 1 .. n /\ Heard(Replies, <<c, u - 1>>, k)
    BY <1>2, <1>7, <1>9
  <2>2. u - 1 <= m
    <3> HIDE DEF k
    <3> QED
      BY <1>2, <1>4, <1>6, <2>1, HeardSoFar DEF n, S
  <2>3. u - 1 = m
    BY <1>2, <1>7, <2>2
  <2>4. b = <<>>
    <3> HIDE DEF k
    <3>1. m \in 1 .. n /\ Heard(Replies, <<c, m>>, k)
      BY <2>1, <2>3
    <3> QED
      BY <1>2, <1>4, <1>6, <3>1, HeardAll DEF n, S
  <2> QED
    BY <1>5, <1>7, <1>2, <2>3, <2>4 DEF b, f, u
<1> QED
  BY <1>8, <1>9

\* A client says the next piece of the request that its slot waits for.
LEMMA ClientSendTurn ==
  ASSUME Able, AnswerInv, TurnInv, OneTurn(script), NEW c \in Client, ClientSend(c)
  PROVE  TurnInv'
<1> DEFINE k == net[c]
           h == net'[c]
           S == PieceOf(script, c)
           tok == RequestToken(c, k.next[1], k.next[2])
           nxt == IF k.next[2] < 2 + BodyLen(script[c][k.next[1]])
                    THEN <<k.next[1], k.next[2] + 1>> ELSE <<k.next[1] + 1, 1>>
           u == k.next[1]
           v == k.next[2]
<1>0. Full /\ InputInv /\ ~Pipelined /\ KernelTurn
  BY DEF Able, Orderly, ClientSend
<1>1. /\ UNCHANGED <<connection_list, script, proc>>
      /\ k.st = "on" /\ k.next[1] <= Len(script[c]) /\ k.conn \in {"none", "open"}
      /\ net' = [net EXCEPT ![c].inq = Append(@, tok), ![c].next = nxt]
      /\ ~Pipelined /\ k.next[1] > 1 /\ k.next[2] = 1 => Answered(<<c, k.next[1] - 1>>)
  BY DEF ClientSend, UnchangedServer, peers, HasMore
<1>2. /\ k.inq \in Seq(S) /\ k.next \in (Nat \ {0}) \X Nat
      /\ DOMAIN net = Client /\ \A d \in Client : DOMAIN net[d] = NetFields
  BY <1>0 DEF Full, Typed, NetTyped, IInv, SlotInv, Shape
<1>3. u \in Nat \ {0} /\ v \in Nat /\ k.next = <<u, v>>
  BY <1>2
<1>4. script[c] \in Seq(Request) /\ Len(script[c]) \in Nat /\ u \in 1 .. Len(script[c])
  BY <1>0, <1>1, <1>3, LenProperties DEF Full, Typed, ScriptTyped
<1>5. BodyLen(script[c][u]) = 0
  <2>1. <<c, u>> \in Asked(script)
    BY <1>4, AskedOf
  <2> QED
    BY <2>1 DEF OneTurn, Bodiless
<1>6. tok = At(c, k.next) /\ nxt = After(script, c, k.next)
  BY <1>3 DEF At, After, Size
<1>7. nxt = IF v < 2 THEN <<u, v + 1>> ELSE <<u + 1, 1>>
  BY <1>5
<1> HIDE DEF tok, nxt
<1>8. /\ h.inq = Append(k.inq, tok) /\ h.next = nxt /\ h.st = k.st /\ h.conn = k.conn
      /\ \A d \in Client : d # c => net'[d] = net[d]
  BY <1>1, <1>2 DEF NetFields
<1>9. ASSUME NEW j \in 1 .. Len(script[c])
      PROVE  Size(script, c, j) \in Nat /\ Size(script, c, j) >= 2
  <2>1. script[c][j] \in Request
    BY <1>4, ElementOfSeq
  <2>2. script[c][j].length \in Int
    BY <2>1 DEF Request
  <2> QED
    BY <2>2 DEF Size, BodyLen, HasLength
<1>10. tok \in S
  <2>1. <<c, u>> \in Asked(script)
    BY <1>4, AskedOf
  <2> HIDE DEF u, v
  <2> QED
    BY <1>3, <2>1 DEF tok, RequestToken, Token, PieceOf, Piece, u, v
<1>11. u > 1 /\ v = 1 => Heard(Replies, <<c, u - 1>>, k)
  <2> SUFFICES ASSUME u > 1, v = 1 PROVE Heard(Replies, <<c, u - 1>>, k)
    OBVIOUS
  <2> DEFINE r == <<c, u - 1>>
  <2>1. r \in Asked(script)
    <3>1. u - 1 \in 1 .. Len(script[c])
      BY <1>3, <1>4
    <3> QED
      BY <3>1, AskedOf
  <2>2. Replies[r] = Answer(r) /\ Answered(r) /\ r[1] = c
    BY <1>0, <1>1, <2>1 DEF Replies
  <2> HIDE DEF r
  <2>3. Heard(Replies, r, net[c])
    BY <2>2 DEF Answered, Heard
  <2> QED
    BY <2>3 DEF r
<1>12. Minds(Replies, script, c, k)
  BY DEF AnswerInv
<1> HIDE DEF k, h, S
\* The next token is taken up behind what is on its way.
<1>13. ASSUME NEW q \in Seq(S), Flow(script, c, k, q)
       PROVE  /\ From(h, Append(q, tok)) = From(k, q) /\ v \in {1, 2}
              /\ q # <<>> => Before(From(k, q), k.next)
  <2>1. k.next # <<Len(script[c]) + 1, 1>>
    BY <1>4 DEF u
  <2>2. IsSpot(script, c, k.next)
    BY <1>13, <2>1 DEF Flow
  <2>3. HasToken(script, c, k.next)
    BY <1>3, <1>4, <1>9, <2>2 DEF HasToken, u, v
  <2>4. From(h, Append(q, tok)) = From(k, q)
    BY <1>1, <1>6, <1>8, <1>10, <1>13, <2>3, FlowAppend
  <2>5. v \in {1, 2}
    BY <1>3, <1>5, <2>2 DEF IsSpot, Size, u, v
  <2>6. q # <<>> => 1 \in 1 .. Len(q)
    BY <1>13, EmptySeq, LenProperties
  <2> QED
    BY <1>13, <2>4, <2>5, <2>6 DEF Flow, From
<1>14. Early(c)'
  <2> SUFFICES ASSUME k.conn = "none" PROVE Late(h, h.inq)
    BY <1>8 DEF Early, h
  <2>1. k.got = <<>> /\ From(k, k.inq) = <<1, 1>>
    BY <1>1, <1>12 DEF Minds, Outside
  <2>2. From(h, h.inq) = <<1, 1>> /\ v \in {1, 2}
    <3>1. Flow(script, c, k, k.inq)
      BY <1>0 DEF InputInv, Unaccepted, k
    <3> QED
      BY <1>2, <1>8, <1>13, <2>1, <3>1 DEF k, S
  <2>3. Before(<<u, v>>, <<2, 2>>)
    BY <1>3, <2>1 DEF TurnInv, Early, Late, k, u, v
  <2>4. ~(u > 1 /\ v = 1)
    <3>1. ASSUME Heard(Replies, <<c, u - 1>>, k) PROVE FALSE
      BY <2>1, <3>1, EmptySeq DEF Heard
    <3> QED
      BY <1>11, <3>1
  <2> HIDE DEF u, v
  <2>5. Before(nxt, <<2, 2>>)
    BY <1>3, <1>7, <2>2, <2>3, <2>4 DEF Before
  <2> QED
    BY <1>8, <2>2, <2>5 DEF Late
<1>15. ASSUME NEW s \in Slot, connection_list[s].socket = c
       PROVE  Prompt(connection_list[s], h)
  <2> DEFINE p == connection_list[s]
             t == p.http_task
             b == p.receiving_buffer
             q == Unread(t, b, k.inq)
             f == From(k, q)
  <2>1. c # NULL /\ pc \notin {"http", "dead"}
    BY <1>0, StateAssumption DEF KernelTurn
  <2>2. Prompt(p, k) /\ t.state = "RECV_HEADER_STATE"
    BY <1>15, <2>1 DEF TurnInv, TurnOf, k
  <2>3. Reads(script, proc, c, t, b, k) /\ Held(t) \in Seq(S) /\ b \in Seq(S)
    BY <1>0, <1>15, <2>1, SlotOfClient DEF k, S
  <2>4. k.inq \in Seq(S)
    BY <1>2 DEF k, S
  <2>5. Serves(Replies, script, p, k)
    BY <1>15, <2>1 DEF AnswerInv, SlotServes, k
  <2>6. f[2] = 1
    <3>1. AtRequest(script, t, f)
      BY <1>1, <2>5 DEF Serves, Owes
    <3>2. Posted(script)
      BY OneTurnOrderly, <1>0 DEF Full, Typed, ScriptTyped
    <3> QED
      BY <2>2, <3>1, <3>2 DEF AtRequest
  <2>7. Late(k, q) /\ (p.sending_buffer = <<>> \/ q = <<>>)
    BY <2>2 DEF Prompt
  <2> DEFINE d == Unread(t, b, h.inq)
  <2>8. d = Append(q, tok)
    <3> DEFINE x == Held(t) \o b
    <3>1. x \in Seq(S)
      BY <2>3, ConcatProperties
    <3> HIDE DEF x
    <3>2. x \o Append(k.inq, tok) = Append(x \o k.inq, tok)
      BY <1>10, <2>4, <3>1
    <3> QED
      BY <1>8, <3>2 DEF x, Unread
  <2>9. q \in Seq(S) /\ Flow(script, c, k, q)
    <3> HIDE DEF t, b
    <3> QED
      BY <2>3, <2>4, Joined DEF Reads, Unread
  <2> HIDE DEF q, d
  <2>10. /\ From(h, d) = f /\ v \in {1, 2} /\ Before(k.next, <<f[1] + 1, 2>>)
         /\ q = <<>> => f = k.next
         /\ q # <<>> => Before(f, k.next)
    BY <1>13, <2>7, <2>8, <2>9 DEF Late, From
  <2>11. f[1] \in Nat
    <3>1. f[1] \in Int /\ (q # <<>> => f[1] \in 1 .. Len(script[c]))
      <4>1. f[1] \in Int
        BY <1>4, <2>9, FromType
      <4>2. ASSUME q # <<>> PROVE f[1] \in 1 .. Len(script[c])
        <5>1. 1 \in 1 .. Len(q)
          BY <2>9, <4>2, EmptySeq, LenProperties
        <5> QED
          BY <2>9, <4>2, <5>1 DEF Flow, InOrder, IsSpot, From
      <4> QED
        BY <4>1, <4>2
    <3> QED
      BY <1>3, <1>4, <2>10, <3>1 DEF u
  <2> HIDE DEF f
  <2>12. p.sending_buffer = <<>> /\ Before(nxt, <<f[1] + 1, 2>>)
    <3>1. /\ u < f[1] + 1 \/ (u = f[1] + 1 /\ v < 2)
          /\ q = <<>> => f[1] = u /\ v = 1
          /\ q # <<>> => f[1] < u \/ (f[1] = u /\ 1 < v)
      BY <2>6, <2>10 DEF Before, u, v
    <3>2. CASE v = 2
      <4>1. q # <<>> /\ nxt = <<u + 1, 1>>
        BY <1>7, <3>1, <3>2
      <4>2. u \in Nat /\ f[1] \in Nat /\ u <= f[1]
        BY <1>3, <2>11, <3>1, <3>2
      <4> HIDE DEF u, v
      <4> QED
        BY <2>7, <4>1, <4>2 DEF Before
    <3>3. CASE v = 1
      <4>1. /\ k.st # "gone" /\ f[2] = 1 /\ f[1] \in Nat
            /\ u \in 1 .. Len(script[c]) /\ f[1] <= u /\ u <= f[1] + 1
            /\ u > 1 => Heard(Replies, <<c, u - 1>>, k)
        BY <1>1, <1>3, <1>4, <1>11, <2>6, <2>11, <3>1, <3>3
      <4>2. p.sending_buffer = <<>> /\ f[1] = u
        BY <1>15, <2>2, <4>1, GoesOnNext DEF f, q, k, u
      <4>3. nxt = <<u, 2>>
        BY <1>7, <3>3
      <4> HIDE DEF u, v
      <4> QED
        BY <1>3, <4>2, <4>3 DEF Before
    <3> QED
      BY <2>10, <3>2, <3>3
  <2>13. Late(h, d)
    BY <1>8, <2>10, <2>12 DEF Late
  <2> QED
    BY <2>2, <2>12, <2>13 DEF Prompt, d
<1> QED
  BY <1>0, <1>1, <1>8, <1>14, <1>15, ClientTurn DEF h

LEMMA EnvironmentTurn ==
  ASSUME Able, AnswerInv, TurnInv, OneTurn(script), Environment PROVE TurnInv'
<1>0. Full
  BY DEF Able
<1>1. ASSUME NEW c \in Client,
             Connect(c) \/ ClientRead(c) \/ ClientShutdown(c) \/ ClientVanish(c)
      PROVE  TurnInv'
  <2>1. /\ KernelTurn /\ UNCHANGED connection_list
        /\ DOMAIN net = Client /\ \A d \in Client : DOMAIN net[d] = NetFields
    BY <1>0, <1>1
       DEF Connect, ClientRead, ClientShutdown, ClientVanish, UnchangedServer, peers,
           Full, IInv, SlotInv, Shape
  <2>2. /\ \A d \in Client : d # c => net'[d] = net[d]
        /\ net'[c].conn = net[c].conn /\ net'[c].next = net[c].next
        /\ net'[c].inq \in {net[c].inq, <<>>}
    <3>1. CASE ClientVanish(c)
      <4>1. PICK q \in {net[c].inq, <<>>} :
              net' = [net EXCEPT ![c].st = "gone", ![c].inq = q, ![c].outq = <<>>]
        BY <3>1 DEF ClientVanish
      <4> QED
        BY <2>1, <4>1 DEF NetFields
    <3>2. CASE Connect(c)
      BY <2>1, <3>2 DEF Connect, NetFields
    <3>3. CASE ClientShutdown(c)
      BY <2>1, <3>3 DEF ClientShutdown, NetFields
    <3>4. CASE ClientRead(c)
      BY <2>1, <3>4 DEF ClientRead, NetFields
    <3> QED
      BY <1>1, <3>1, <3>2, <3>3, <3>4
  <2> QED
    BY <2>1, <2>2, QuietTurn
<1>2. ASSUME NEW p, ChildRead(p) \/ ChildWrite(p) \/ ChildExit(p) \/ ChildFails(p) PROVE TurnInv'
  <2>1. UNCHANGED <<connection_list, net>> /\ pc \notin {"http", "dead"}
    BY <1>2 DEF ChildRead, ChildWrite, ChildExit, ChildFails, UnchangedServer, peers, KernelTurn
  <2> QED
    BY <2>1, TurnStays
<1> QED
  BY <1>1, <1>2, ClientSendTurn DEF Environment
-----------------------------------------------------------------------------
(* The theorem.                                                            *)

LEMMA InitTurn == ASSUME Init PROVE TurnInv
<1>1. ASSUME NEW c \in Client PROVE Early(c)
  <2>1. net[c].inq = <<>> /\ net[c].next = <<1, 1>>
    BY DEF Init
  <2> QED
    BY <2>1 DEF Early, Late, From, Before
<1>2. \A s \in Slot : connection_list[s].socket = NULL
  BY DEF Init, FreshPeer, NO_SOCKET
<1> QED
  BY <1>1, <1>2 DEF TurnInv, TurnOf

LEMMA NextTurn ==
  ASSUME Able, AnswerInv, TurnInv, OneTurn(script), [Next]_vars PROVE TurnInv'
<1>1. CASE UNCHANGED vars
  BY <1>1, TurnStays DEF vars
<1>2. CASE Interrupt \/ SelectFails
  BY <1>2, ShutdownTurn DEF Interrupt, SelectFails
<1> QED
  BY <1>1, <1>2, LoopStepTurn, EnvironmentTurn DEF Next

Turned == OneTurn(script) => TurnInv

LEMMA KnownTurn == Known /\ Owed /\ OneTurn(script) => Able /\ AnswerInv
<1> SUFFICES ASSUME Known, Owed, OneTurn(script) PROVE Able /\ AnswerInv
  OBVIOUS
<1>1. Orderly(script)
  BY OneTurnOrderly DEF Known, Base, Full, Typed, ScriptTyped
<1> QED
  BY <1>1, KnownAble DEF Owed

LEMMA NextTurned == Known /\ Owed /\ Turned /\ [Next]_vars => Turned'
<1> SUFFICES ASSUME Known, Owed, Turned, [Next]_vars, OneTurn(script)' PROVE TurnInv'
  BY DEF Turned
<1>1. OneTurn(script)
  BY ScriptStays DEF OneTurn, NoScripts, Bodiless, Asked, BodyLen, HasLength
<1> QED
  BY <1>1, KnownTurn, NextTurn DEF Turned

LEMMA TurnMeans ==
  ASSUME Full, TurnInv PROVE RequestIsOwn
<1> SUFFICES ASSUME pc = "http", Task.state \in {"CHECK_CGI", "FINISHED_STATE"}
             PROVE  request # NULL /\ request.of = Task.own /\ ~request.freed
  BY DEF RequestIsOwn
<1>1. /\ cur \in Slot /\ Me = connection_list[cur] /\ Task = Me.http_task
      /\ Me.socket # NULL
  BY CurrentTyped
<1>2. TurnOf(cur)
  BY <1>1 DEF TurnInv
<1> QED
  BY <1>1, <1>2 DEF TurnOf

\* However many slots serve however many clients: as long as the clients ask for files
\* only, send no body, and each waits for an answer before it asks again, and an answer
\* fits into a sending buffer, the global request that handle_http reads and frees is
\* the one of the task it works on, and has not been freed, although every slot that
\* parses a header replaces it.  No other slot has a request under way then, since the
\* handler ends each request in the turn that has parsed it.
THEOREM RequestKept == Spec /\ []Enough => [](OneTurn(script) => RequestIsOwn)
<1>1. Init => Known /\ Owed /\ Turned
  BY InitBase, InitFreed, InitGiven, InitAnswers, InitTurn DEF Known, Owed, Turned
<1>2. (Known /\ Owed /\ Turned) /\ Enough /\ [Next]_vars => (Known /\ Owed /\ Turned)'
  BY NextBase, NextFreed, NextGiven, NextOwed, NextTurned DEF Known
<1>3. Known /\ Owed /\ Turned => (OneTurn(script) => RequestIsOwn)
  BY KnownTurn, TurnMeans DEF Turned, Able
<1> QED
  BY <1>1, <1>2, <1>3, PTL DEF Spec
=============================================================================
