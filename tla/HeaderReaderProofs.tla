------------------------- MODULE HeaderReaderProofs -------------------------
(***************************************************************************)
(* Proofs about HeaderReader for every set of bytes, buffer size and       *)
(* stream length.                                                          *)
(***************************************************************************)
EXTENDS HeaderReaderProperties, TLAPS

\* s is the length of the longest match at the end of p.
Longest(p, s) ==
  /\ EndsWith(p, Len(p), s)
  /\ \A k \in s + 1 .. 4 : ~EndsWith(p, Len(p), k)

\* One byte more extends a match of length k if it is the byte the match
\* waits for, and nothing else makes a match of length k + 1.
LEMMA ExtendMatch ==
  ASSUME NEW p \in Seq(Byte), NEW b \in Byte, NEW k \in 0 .. 3
  PROVE EndsWith(Append(p, b), Len(p) + 1, k + 1) <=>
          EndsWith(p, Len(p), k) /\ b = Terminator[k + 1]
<1> DEFINE q == Append(p, b)
<1> DEFINE n == Len(p)
<1>1. n \in Nat /\ Len(q) = n + 1 /\ q[n + 1] = b
  OBVIOUS
<1>2. \A m \in 1 .. n : q[m] = p[m]
  OBVIOUS
<1>3. ASSUME EndsWith(q, n + 1, k + 1)
      PROVE EndsWith(p, n, k) /\ b = Terminator[k + 1]
  <2>1. n >= k
    BY <1>1, <1>3 DEF EndsWith
  <2>2. \A j \in 1 .. k + 1 : q[n - k + j] = Terminator[j]
    <3>1. \A j \in 1 .. k + 1 : q[(n + 1) - (k + 1) + j] = Terminator[j]
      BY <1>3 DEF EndsWith
    <3>2. \A j \in 1 .. k + 1 : (n + 1) - (k + 1) + j = n - k + j
      BY <1>1
    <3> QED
      BY <3>1, <3>2
  <2>3. q[n + 1] = Terminator[k + 1]
    <3>1. k + 1 \in 1 .. k + 1 /\ n - k + (k + 1) = n + 1
      BY <1>1
    <3> QED
      BY <2>2, <3>1
  <2>4. \A j \in 1 .. k : p[n - k + j] = Terminator[j]
    <3>1. \A j \in 1 .. k : n - k + j \in 1 .. n /\ j \in 1 .. k + 1
      BY <2>1, <1>1
    <3> QED
      BY <2>2, <3>1, <1>2
  <2> QED
    BY <2>1, <2>3, <2>4, <1>1 DEF EndsWith
<1>4. ASSUME EndsWith(p, n, k), b = Terminator[k + 1]
      PROVE EndsWith(q, n + 1, k + 1)
  <2>1. n >= k /\ \A j \in 1 .. k : p[n - k + j] = Terminator[j]
    BY <1>4 DEF EndsWith
  <2>2. \A j \in 1 .. k + 1 : q[n - k + j] = Terminator[j]
    <3> SUFFICES ASSUME NEW j \in 1 .. k + 1
                 PROVE q[n - k + j] = Terminator[j]
      OBVIOUS
    <3>1. CASE j = k + 1
      <4>1. n - k + j = n + 1
        BY <3>1, <1>1
      <4> QED
        BY <4>1, <3>1, <1>1, <1>4
    <3>2. CASE j # k + 1
      <4>1. j \in 1 .. k /\ n - k + j \in 1 .. n
        BY <3>2, <2>1, <1>1
      <4> QED
        BY <4>1, <2>1, <1>2
    <3> QED
      BY <3>1, <3>2
  <2>3. \A j \in 1 .. k + 1 : q[(n + 1) - (k + 1) + j] = Terminator[j]
    <3>1. \A j \in 1 .. k + 1 : (n + 1) - (k + 1) + j = n - k + j
      BY <1>1
    <3> QED
      BY <2>2, <3>1
  <2> QED
    BY <2>1, <2>3, <1>1 DEF EndsWith
<1> QED
  BY <1>3, <1>4

\* A byte added at the end changes no match that ends before it.
LEMMA KeepMatch ==
  ASSUME NEW p \in Seq(Byte), NEW b \in Byte, NEW m \in 1 .. Len(p), NEW k \in 0 .. 4
  PROVE EndsWith(Append(p, b), m, k) <=> EndsWith(p, m, k)
<1>1. \A x \in 1 .. Len(p) : Append(p, b)[x] = p[x]
  OBVIOUS
<1>2. m >= k => \A j \in 1 .. k : m - k + j \in 1 .. Len(p)
  OBVIOUS
<1> QED
  BY <1>1, <1>2 DEF EndsWith

\* A match of length 2 excludes one of length 1 and a match of length 3 one of
\* length 2, but a match of length 3 ends with a match of length 1.
LEMMA ShorterMatches ==
  ASSUME NEW p \in Seq(Byte), NEW n \in 0 .. Len(p)
  PROVE /\ EndsWith(p, n, 0)
        /\ EndsWith(p, n, 2) => ~EndsWith(p, n, 1)
        /\ EndsWith(p, n, 3) => EndsWith(p, n, 1) /\ ~EndsWith(p, n, 2)
<1>1. EndsWith(p, n, 1) <=> n >= 1 /\ p[n] = CL
  BY DEF EndsWith, Terminator
<1>2. EndsWith(p, n, 2) => p[n] = RF
  BY DEF EndsWith, Terminator
<1>3. EndsWith(p, n, 3) => n >= 1 /\ p[n] = CL
  BY DEF EndsWith, Terminator
<1>4. EndsWith(p, n, 0)
  BY DEF EndsWith
<1> QED
  BY <1>1, <1>2, <1>3, <1>4, ReaderAssumption

\* The recogniser of read_header_data is right: from the longest match of
\* what was collected it finds the longest match with the next byte.
LEMMA StatusStep ==
  ASSUME NEW p \in Seq(Byte), NEW b \in Byte, NEW s \in 0 .. 3, Longest(p, s)
  PROVE /\ NextStatus(s, b) \in 0 .. 4
        /\ Longest(Append(p, b), NextStatus(s, b))
<1> DEFINE E(k) == EndsWith(p, Len(p), k)
<1> DEFINE F(k) == EndsWith(Append(p, b), Len(p) + 1, k)
<1>1. /\ F(1) <=> E(0) /\ b = CL
      /\ F(2) <=> E(1) /\ b = RF
      /\ F(3) <=> E(2) /\ b = CL
      /\ F(4) <=> E(3) /\ b = RF
  <2>1. \A k \in 0 .. 3 : F(k + 1) <=> E(k) /\ b = Terminator[k + 1]
    BY ExtendMatch
  <2>2. /\ Terminator[1] = CL /\ Terminator[2] = RF
        /\ Terminator[3] = CL /\ Terminator[4] = RF
    BY DEF Terminator
  <2> HIDE DEF E, F
  <2>3. /\ F(0 + 1) <=> E(0) /\ b = Terminator[0 + 1]
        /\ F(1 + 1) <=> E(1) /\ b = Terminator[1 + 1]
        /\ F(2 + 1) <=> E(2) /\ b = Terminator[2 + 1]
        /\ F(3 + 1) <=> E(3) /\ b = Terminator[3 + 1]
    BY <2>1
  <2> QED
    BY <2>2, <2>3
<1>2. E(0) /\ (E(2) => ~E(1)) /\ (E(3) => E(1) /\ ~E(2))
  BY ShorterMatches
<1>3. F(0)
  BY DEF EndsWith
<1>4. E(s) /\ \A k \in s + 1 .. 4 : ~E(k)
  BY DEF Longest
<1>5. Len(Append(p, b)) = Len(p) + 1
  OBVIOUS
<1> SUFFICES /\ NextStatus(s, b) \in 0 .. 4
             /\ F(NextStatus(s, b))
             /\ \A k \in NextStatus(s, b) + 1 .. 4 : ~F(k)
  BY <1>5 DEF Longest
<1> HIDE DEF E, F
<1>6. s = 0 \/ s = 1 \/ s = 2 \/ s = 3
  OBVIOUS
<1>7. CL # RF
  BY ReaderAssumption
<1>8. CASE s = 0
  <2>1. ~E(1) /\ ~E(2) /\ ~E(3)
    BY <1>4, <1>8
  <2>2. CASE b = CL
    <3>1. NextStatus(s, b) = 1
      BY <1>8, <2>2 DEF NextStatus
    <3>2. F(1) /\ ~F(2) /\ ~F(3) /\ ~F(4)
      BY <1>1, <1>2, <2>1, <2>2
    <3> QED
      BY <3>1, <3>2
  <2>3. CASE b # CL
    <3>1. NextStatus(s, b) = 0
      BY <1>8, <2>3 DEF NextStatus
    <3>2. ~F(1) /\ ~F(2) /\ ~F(3) /\ ~F(4)
      BY <1>1, <1>2, <2>1, <2>3
    <3> QED
      BY <3>1, <3>2, <1>3
  <2> QED
    BY <2>2, <2>3
<1>9. CASE s = 1
  <2>1. E(1) /\ ~E(2) /\ ~E(3)
    BY <1>4, <1>9
  <2>2. CASE b = CL
    <3>1. NextStatus(s, b) = 1
      BY <1>9, <2>2, <1>7 DEF NextStatus
    <3>2. F(1) /\ ~F(2) /\ ~F(3) /\ ~F(4)
      BY <1>1, <1>2, <2>1, <2>2, <1>7
    <3> QED
      BY <3>1, <3>2
  <2>3. CASE b = RF
    <3>1. NextStatus(s, b) = 2
      BY <1>9, <2>3, <1>7 DEF NextStatus
    <3>2. F(2) /\ ~F(3) /\ ~F(4)
      BY <1>1, <1>2, <2>1, <2>3, <1>7
    <3> QED
      BY <3>1, <3>2
  <2>4. CASE b # CL /\ b # RF
    <3>1. NextStatus(s, b) = 0
      BY <1>9, <2>4 DEF NextStatus
    <3>2. ~F(1) /\ ~F(2) /\ ~F(3) /\ ~F(4)
      BY <1>1, <2>4
    <3> QED
      BY <3>1, <3>2, <1>3
  <2> QED
    BY <2>2, <2>3, <2>4
<1>10. CASE s = 2
  <2>1. ~E(1) /\ E(2) /\ ~E(3)
    BY <1>4, <1>10, <1>2
  <2>2. CASE b = CL
    <3>1. NextStatus(s, b) = 3
      BY <1>10, <2>2 DEF NextStatus
    <3>2. F(3) /\ ~F(4)
      BY <1>1, <2>1, <2>2
    <3> QED
      BY <3>1, <3>2
  <2>3. CASE b # CL
    <3>1. NextStatus(s, b) = 0
      BY <1>10, <2>3 DEF NextStatus
    <3>2. ~F(1) /\ ~F(2) /\ ~F(3) /\ ~F(4)
      BY <1>1, <2>1, <2>3
    <3> QED
      BY <3>1, <3>2, <1>3
  <2> QED
    BY <2>2, <2>3
<1>11. CASE s = 3
  <2>1. E(1) /\ ~E(2) /\ E(3)
    BY <1>4, <1>11, <1>2
  <2>2. CASE b = RF
    <3>1. NextStatus(s, b) = 4
      BY <1>11, <2>2, <1>7 DEF NextStatus, HEADER_TERM_STATUS
    <3>2. F(4)
      BY <1>1, <2>1, <2>2
    <3> QED
      BY <3>1, <3>2
  <2>3. CASE b = CL
    <3>1. NextStatus(s, b) = 1
      BY <1>11, <2>3, <1>7 DEF NextStatus
    <3>2. F(1) /\ ~F(2) /\ ~F(3) /\ ~F(4)
      BY <1>1, <1>2, <2>1, <2>3, <1>7
    <3> QED
      BY <3>1, <3>2
  <2>4. CASE b # CL /\ b # RF
    <3>1. NextStatus(s, b) = 0
      BY <1>11, <2>4 DEF NextStatus
    <3>2. ~F(1) /\ ~F(2) /\ ~F(3) /\ ~F(4)
      BY <1>1, <2>4
    <3> QED
      BY <3>1, <3>2, <1>3
  <2> QED
    BY <2>2, <2>3, <2>4
<1> QED
  BY <1>6, <1>8, <1>9, <1>10, <1>11
-----------------------------------------------------------------------------
\* The inductive invariant: the type, what is collected before the parser
\* runs and when it runs, and what the state of the parser says.
StateIsMatch == pc = "parse" => EndsWith(parse_buf, i, state)

RoomToRead == pc \in {"wait", "read"} => Len(parse_buf) < BUF_DATA_MAXSIZE

IInv ==
  /\ TypeOK
  /\ RoomToRead
  /\ NoByteLost
  /\ StatusIsLongestMatch
  /\ StopsAtTerminator
  /\ StateIsMatch

\* Nothing is collected: the invariant holds for what depends on parse_buf.
LEMMA EmptyMatches ==
  /\ Longest(<<>>, 0)
  /\ \A n \in 1 .. Len(<<>>) : ~EndsWith(<<>>, n, 4)
<1>1. Len(<<>>) = 0
  OBVIOUS
<1> QED
  BY <1>1 DEF Longest, EndsWith

LEMMA InitIInv == Init => IInv
<1> SUFFICES ASSUME Init PROVE IInv
  OBVIOUS
<1> USE DEF Init
<1>1. TypeOK /\ RoomToRead
  BY ReaderAssumption DEF TypeOK, RoomToRead
<1>2. NoByteLost
  BY DEF NoByteLost
<1>3. StatusIsLongestMatch /\ StopsAtTerminator
  BY EmptyMatches DEF StatusIsLongestMatch, StopsAtTerminator, Longest
<1>4. StateIsMatch
  BY DEF StateIsMatch
<1> QED
  BY <1>1, <1>2, <1>3, <1>4 DEF IInv

\* One turn of read_header_data.
LEMMA ReadKeeps == IInv /\ ReadByte => IInv'
<1> SUFFICES ASSUME IInv, ReadByte PROVE IInv'
  OBVIOUS
<1> USE DEF IInv
<1> DEFINE data == Head(receiving_buffer)
<1> DEFINE s == NextStatus(header_term_token_status, data)
<1>1. /\ pc = "read" /\ receiving_buffer # <<>>
      /\ receiving_buffer' = Tail(receiving_buffer)
      /\ parse_buf' = Append(parse_buf, data)
      /\ header_term_token_status' = IF s = HEADER_TERM_STATUS THEN 0 ELSE s
      /\ pc' = IF s = HEADER_TERM_STATUS THEN "parse"
               ELSE IF Len(parse_buf) + 1 = BUF_DATA_MAXSIZE THEN "overflow"
               ELSE "read"
      /\ i' = 0 /\ state' = 0
      /\ done' = done /\ received' = received
  BY DEF ReadByte
<1>2. data \in Byte /\ receiving_buffer' \in Seq(Byte)
  BY <1>1 DEF TypeOK
<1>3. parse_buf \in Seq(Byte) /\ header_term_token_status \in 0 .. 3
  BY DEF TypeOK
<1>4. Longest(parse_buf, header_term_token_status)
  BY <1>1 DEF StatusIsLongestMatch, Longest
<1>5. s \in 0 .. 4 /\ Longest(parse_buf', s)
  BY <1>1, <1>2, <1>3, <1>4, StatusStep
<1>6. parse_buf' \in Seq(Byte) /\ Len(parse_buf') = Len(parse_buf) + 1
  BY <1>1, <1>2, <1>3
<1>7. EndsWith(parse_buf', Len(parse_buf'), 4) <=> s = 4
  BY <1>5 DEF Longest
<1>8. \A n \in 1 .. Len(parse_buf) : ~EndsWith(parse_buf', n, 4)
  <2>1. \A n \in 1 .. Len(parse_buf) : ~EndsWith(parse_buf, n, 4)
    BY <1>1 DEF StopsAtTerminator
  <2> QED
    BY <2>1, <1>1, <1>2, <1>3, KeepMatch
<1> HIDE DEF s, data
<1>9. TypeOK'
  <2>1. Len(parse_buf) < BUF_DATA_MAXSIZE
    BY <1>1 DEF RoomToRead
  <2>2. Len(parse_buf') <= BUF_DATA_MAXSIZE
    BY <2>1, <1>6, <1>3, ReaderAssumption
  <2>3. header_term_token_status' \in 0 .. 3
    BY <1>1, <1>5 DEF HEADER_TERM_STATUS
  <2>4. i' \in 0 .. Len(parse_buf')
    BY <1>1, <1>6, <1>3
  <2> QED
    BY <1>1, <1>2, <1>6, <2>2, <2>3, <2>4 DEF TypeOK
<1>10. RoomToRead'
  <2>1. Len(parse_buf) < BUF_DATA_MAXSIZE
    BY <1>1 DEF RoomToRead
  <2> QED
    BY <2>1, <1>1, <1>6, <1>3, ReaderAssumption DEF RoomToRead
<1>11. NoByteLost'
  <2>1. receiving_buffer \in Seq(Byte) /\ done \in Seq(Byte)
    BY DEF TypeOK
  <2>2. parse_buf' \o receiving_buffer' = parse_buf \o receiving_buffer
    BY <2>1, <1>1, <1>3 DEF data
  <2>3. done \o parse_buf' \o receiving_buffer' = done \o (parse_buf' \o receiving_buffer')
    BY <2>1, <1>2, <1>6
  <2>4. done \o parse_buf \o receiving_buffer = done \o (parse_buf \o receiving_buffer)
    BY <2>1, <1>3
  <2> QED
    BY <2>2, <2>3, <2>4, <1>1 DEF NoByteLost
<1>12. StatusIsLongestMatch'
  BY <1>1, <1>5 DEF StatusIsLongestMatch, Longest, HEADER_TERM_STATUS
<1>13. StopsAtTerminator'
  <2>1. \A n \in 1 .. Len(parse_buf') : EndsWith(parse_buf', n, 4) => n = Len(parse_buf')
    <3>1. \A n \in 1 .. Len(parse_buf') : n \in 1 .. Len(parse_buf) \/ n = Len(parse_buf')
      BY <1>6, <1>3
    <3> QED
      BY <3>1, <1>8
  <2>2. pc' = "parse" <=> s = 4
    BY <1>1 DEF HEADER_TERM_STATUS
  <2>3. pc' # "refused"
    BY <1>1
  <2> QED
    BY <2>1, <2>2, <2>3, <1>7 DEF StopsAtTerminator
<1>14. StateIsMatch'
  BY <1>1 DEF StateIsMatch, EndsWith
<1> QED
  BY <1>9, <1>10, <1>11, <1>12, <1>13, <1>14

\* One turn of the loop of parse.
LEMMA ParseKeeps == IInv /\ ParseByte => IInv'
<1> SUFFICES ASSUME IInv, ParseByte PROVE IInv'
  OBVIOUS
<1> USE DEF IInv
<1>1. /\ pc = "parse" /\ state # 4 /\ i < Len(parse_buf)
      /\ i' = i + 1 /\ state' = NextState(state, parse_buf[i + 1])
      /\ UNCHANGED <<pc, receiving_buffer, parse_buf, header_term_token_status,
                     done, received>>
  BY DEF ParseByte, HEADER_TERM_STATUS
<1>2. i \in Nat /\ state \in 0 .. 3 /\ parse_buf \in Seq(Byte)
  BY <1>1 DEF TypeOK
<1>3. TypeOK'
  <2>1. i' \in 0 .. Len(parse_buf)
    BY <1>1, <1>2
  <2>2. state' \in 0 .. 4
    BY <1>1, <1>2 DEF NextState
  <2> QED
    BY <2>1, <2>2, <1>1 DEF TypeOK
<1>4. EndsWith(parse_buf, i, state)
  BY <1>1 DEF StateIsMatch
<1>5. EndsWith(parse_buf, i', state')
  <2>1. CASE parse_buf[i + 1] = Expected(state)
    <3>1. state' = state + 1
      BY <2>1, <1>1 DEF NextState
    <3>2. Expected(state) = Terminator[state + 1]
      BY <1>2 DEF Expected, Terminator
    <3>3. i >= state /\ \A j \in 1 .. state : parse_buf[i - state + j] = Terminator[j]
      BY <1>4 DEF EndsWith
    <3>4. \A j \in 1 .. state + 1 : parse_buf[i - state + j] = Terminator[j]
      <4> SUFFICES ASSUME NEW j \in 1 .. state + 1
                   PROVE parse_buf[i - state + j] = Terminator[j]
        OBVIOUS
      <4>1. CASE j = state + 1
        <5>1. i - state + j = i + 1
          BY <4>1, <1>2
        <5> QED
          BY <5>1, <4>1, <2>1, <3>2
      <4>2. CASE j # state + 1
        <5>1. j \in 1 .. state
          BY <4>2, <1>2
        <5> QED
          BY <5>1, <3>3
      <4> QED
        BY <4>1, <4>2
    <3>5. \A j \in 1 .. state + 1 : (i + 1) - (state + 1) + j = i - state + j
      BY <1>2
    <3>6. i + 1 >= state + 1
      BY <3>3, <1>2
    <3> QED
      BY <3>1, <3>4, <3>5, <3>6, <1>1 DEF EndsWith
  <2>2. CASE parse_buf[i + 1] # Expected(state)
    BY <2>2, <1>1, <1>2 DEF NextState, EndsWith
  <2> QED
    BY <2>1, <2>2
<1>6. StateIsMatch'
  BY <1>1, <1>5 DEF StateIsMatch
<1>7. RoomToRead' /\ NoByteLost' /\ StatusIsLongestMatch' /\ StopsAtTerminator'
  BY <1>1 DEF RoomToRead, NoByteLost, StatusIsLongestMatch, StopsAtTerminator
<1> QED
  BY <1>3, <1>6, <1>7

\* A step that empties parse_buf and goes back to waiting.
LEMMA ResetKeeps ==
  ASSUME pc' = "wait", parse_buf' = <<>>, header_term_token_status' = 0,
         i' = 0, state' = 0, receiving_buffer' \in Seq(Byte),
         done' \in Seq(Byte), received' \in Seq(Byte), NoByteLost'
  PROVE IInv'
<1>1. TypeOK' /\ RoomToRead'
  BY ReaderAssumption DEF TypeOK, RoomToRead
<1>2. StatusIsLongestMatch' /\ StopsAtTerminator'
  BY EmptyMatches DEF StatusIsLongestMatch, StopsAtTerminator, Longest
<1>3. StateIsMatch'
  BY DEF StateIsMatch
<1> QED
  BY <1>1, <1>2, <1>3 DEF IInv

LEMMA NextIInv == IInv /\ [Next]_vars => IInv'
<1> SUFFICES ASSUME IInv, [Next]_vars PROVE IInv'
  OBVIOUS
<1>1. ASSUME NEW b \in Byte, Receive(b) PROVE IInv'
  <2> USE <1>1 DEF IInv, Receive
  <2>1. TypeOK'
    BY DEF TypeOK
  <2>2. NoByteLost'
    <3>1. /\ received \in Seq(Byte) /\ receiving_buffer \in Seq(Byte)
          /\ done \in Seq(Byte) /\ parse_buf \in Seq(Byte)
      BY DEF TypeOK
    <3>2. (done \o parse_buf) \o Append(receiving_buffer, b) =
            Append((done \o parse_buf) \o receiving_buffer, b)
      BY <3>1
    <3> QED
      BY <3>2 DEF NoByteLost
  <2>3. RoomToRead' /\ StatusIsLongestMatch' /\ StopsAtTerminator' /\ StateIsMatch'
    BY DEF RoomToRead, StatusIsLongestMatch, StopsAtTerminator, StateIsMatch
  <2> QED
    BY <2>1, <2>2, <2>3
<1>2. ASSUME HandleHttp \/ NothingToRead \/ UNCHANGED vars PROVE IInv'
  BY <1>2 DEF HandleHttp, NothingToRead, vars, IInv, TypeOK, RoomToRead, NoByteLost,
              StatusIsLongestMatch, StopsAtTerminator, StateIsMatch
<1>3. CASE ReadByte
  BY <1>3, ReadKeeps
<1>4. CASE ParseByte
  BY <1>4, ParseKeeps
<1>5. CASE ParseAccepts
  <2>1. /\ done \in Seq(Byte) /\ parse_buf \in Seq(Byte)
        /\ receiving_buffer \in Seq(Byte) /\ received \in Seq(Byte)
        /\ received = (done \o parse_buf) \o receiving_buffer
    BY DEF IInv, TypeOK, NoByteLost
  <2>2. /\ done' = done \o parse_buf /\ parse_buf' = <<>>
        /\ receiving_buffer' = receiving_buffer /\ received' = received
        /\ pc' = "wait" /\ header_term_token_status' = 0 /\ i' = 0 /\ state' = 0
    BY <1>5 DEF ParseAccepts
  <2>3. done' \in Seq(Byte) /\ done' \o <<>> = done'
    BY <2>1, <2>2
  <2>4. NoByteLost'
    BY <2>1, <2>2, <2>3 DEF NoByteLost
  <2> QED
    BY <2>1, <2>2, <2>3, <2>4, ResetKeeps
<1>6. CASE ParseRefuses
  BY <1>6 DEF ParseRefuses, IInv, TypeOK, RoomToRead, NoByteLost,
              StatusIsLongestMatch, StopsAtTerminator, StateIsMatch
<1>7. CASE Close
  <2>1. /\ pc' = "wait" /\ parse_buf' = <<>> /\ header_term_token_status' = 0
        /\ i' = 0 /\ state' = 0 /\ receiving_buffer' = <<>>
        /\ done' = <<>> /\ received' = <<>>
    BY <1>7 DEF Close
  <2>2. NoByteLost'
    BY <2>1 DEF NoByteLost
  <2> QED
    BY <2>1, <2>2, ResetKeeps
<1> QED
  BY <1>1, <1>2, <1>3, <1>4, <1>5, <1>6, <1>7 DEF Next

\* Every reachable state satisfies the inductive invariant.
THEOREM InvariantHolds == Spec => []IInv
  BY InitIInv, NextIInv, PTL DEF Spec

\* The types hold and parse_buf never overflows, whatever is received.
THEOREM TypeCorrect == Spec => []TypeOK
<1>1. IInv => TypeOK
  BY DEF IInv
<1> QED
  BY InvariantHolds, <1>1, PTL

\* read_header_data tracks the longest match of the terminator exactly.
THEOREM StatusCorrect == Spec => []StatusIsLongestMatch
<1>1. IInv => StatusIsLongestMatch
  BY DEF IInv
<1> QED
  BY InvariantHolds, <1>1, PTL

\* A header is what comes up to the first terminator, and nothing more.
THEOREM FirstTerminatorCorrect == Spec => []StopsAtTerminator
<1>1. IInv => StopsAtTerminator
  BY DEF IInv
<1> QED
  BY InvariantHolds, <1>1, PTL

\* No byte is lost between the headers of a connection.
THEOREM ConservationCorrect == Spec => []NoByteLost
<1>1. IInv => NoByteLost
  BY DEF IInv
<1> QED
  BY InvariantHolds, <1>1, PTL

\* parse finds the terminator where read_header_data found it or not at all:
\* its state is a match too, and only one terminator ends in parse_buf.
THEOREM ParseAgreement == Spec => []ParseAgrees
<1>1. IInv => ParseAgrees
  <2> SUFFICES ASSUME IInv, pc = "parse", state = 4 PROVE i = Len(parse_buf)
    BY DEF ParseAgrees, HEADER_TERM_STATUS
  <2>1. EndsWith(parse_buf, i, 4)
    BY DEF IInv, StateIsMatch
  <2>2. i \in 1 .. Len(parse_buf)
    BY <2>1 DEF IInv, TypeOK, EndsWith
  <2> QED
    BY <2>1, <2>2 DEF IInv, StopsAtTerminator
<1> QED
  BY InvariantHolds, <1>1, PTL
-----------------------------------------------------------------------------
(* What parse refuses.                                                     *)

Doubled == \E n \in 1 .. Len(parse_buf) - 1 : parse_buf[n] = CL /\ parse_buf[n + 1] = CL

\* Without a doubled CR the state of parse is the longest match, too.
StateIsLongest ==
  pc = "parse" /\ ~Doubled =>
    \A k \in state + 1 .. 4 : ~EndsWith(parse_buf, i, k)

\* ExtendMatch for the beginnings of one sequence.
LEMMA PrefixMatch ==
  ASSUME NEW p \in Seq(Byte), NEW n \in Nat, n < Len(p), NEW k \in 1 .. 4,
         EndsWith(p, n + 1, k)
  PROVE EndsWith(p, n, k - 1) /\ p[n + 1] = Terminator[k]
<1>1. n + 1 >= k /\ \A j \in 1 .. k : p[(n + 1) - k + j] = Terminator[j]
  BY DEF EndsWith
<1>2. n >= k - 1
  BY <1>1
<1>3. ASSUME NEW j \in 1 .. k - 1 PROVE p[n - (k - 1) + j] = Terminator[j]
  <2>1. j \in 1 .. k /\ n - (k - 1) + j = (n + 1) - k + j
    BY <1>3
  <2> QED
    BY <2>1, <1>1
<1>4. k \in 1 .. k /\ (n + 1) - k + k = n + 1
  OBVIOUS
<1>5. p[n + 1] = Terminator[k]
  BY <1>1, <1>4
<1> QED
  BY <1>2, <1>3, <1>5 DEF EndsWith

\* A byte that parse does not expect, and that does not double a CR, begins no
\* match: this is where the two recognisers could differ.
LEMMA UnexpectedByte ==
  ASSUME IInv, StateIsLongest, pc = "parse", ~Doubled, i < Len(parse_buf),
         state \in 0 .. 3, parse_buf[i + 1] # Expected(state),
         NEW k \in 1 .. 4
  PROVE ~EndsWith(parse_buf, i + 1, k)
<1> SUFFICES ASSUME EndsWith(parse_buf, i + 1, k) PROVE FALSE
  OBVIOUS
<1>1. parse_buf \in Seq(Byte) /\ i \in 0 .. Len(parse_buf) /\ i \in Nat
  BY DEF IInv, TypeOK
<1>2. EndsWith(parse_buf, i, k - 1) /\ parse_buf[i + 1] = Terminator[k]
  BY <1>1, PrefixMatch
<1>3. EndsWith(parse_buf, i, state)
  BY DEF IInv, StateIsMatch
<1>4. k - 1 <= state
  <2> SUFFICES ASSUME k - 1 > state PROVE FALSE
    OBVIOUS
  <2>1. k - 1 \in state + 1 .. 4
    OBVIOUS
  <2> QED
    BY <2>1, <1>2 DEF StateIsLongest
<1>5. \A m \in {1, 3} : ~(EndsWith(parse_buf, i, m) /\ parse_buf[i + 1] = CL)
  <2> SUFFICES ASSUME NEW m \in {1, 3}, EndsWith(parse_buf, i, m),
                      parse_buf[i + 1] = CL PROVE FALSE
    OBVIOUS
  <2>1. i >= m /\ m \in 1 .. m /\ i - m + m = i
    BY <1>1 DEF EndsWith
  <2>2. parse_buf[i] = Terminator[m]
    BY <2>1 DEF EndsWith
  <2>3. Terminator[m] = CL
    BY DEF Terminator
  <2>4. i \in 1 .. Len(parse_buf) - 1
    BY <1>1, <2>1
  <2> QED
    BY <2>2, <2>3, <2>4 DEF Doubled
<1>6. /\ EndsWith(parse_buf, i, 2) => ~EndsWith(parse_buf, i, 1)
      /\ EndsWith(parse_buf, i, 3) => ~EndsWith(parse_buf, i, 2)
  BY <1>1, ShorterMatches
<1>7. /\ Terminator[1] = CL /\ Terminator[2] = RF
      /\ Terminator[3] = CL /\ Terminator[4] = RF
  BY DEF Terminator
<1>8. CASE k - 1 = state
  BY <1>8, <1>2, <1>7 DEF Expected
<1>9. CASE state = 1 /\ k = 1
  BY <1>9, <1>2, <1>3, <1>5, <1>7
<1>10. CASE state = 2 /\ k \in {1, 2}
  BY <1>10, <1>2, <1>3, <1>6, <1>7 DEF Expected
<1>11. CASE state = 3 /\ k \in {1, 2, 3}
  BY <1>11, <1>2, <1>3, <1>5, <1>6, <1>7 DEF Expected
<1>12. \/ k - 1 = state
       \/ state = 1 /\ k = 1
       \/ state = 2 /\ k \in {1, 2}
       \/ state = 3 /\ k \in {1, 2, 3}
  BY <1>4
<1> QED
  BY <1>8, <1>9, <1>10, <1>11, <1>12

RefusalInv == StateIsLongest /\ RefusesOnlyDoubledCr

LEMMA RefusalStep == IInv /\ RefusalInv /\ [Next]_vars => RefusalInv'
<1> SUFFICES ASSUME IInv, StateIsLongest, RefusesOnlyDoubledCr, [Next]_vars
             PROVE StateIsLongest' /\ RefusesOnlyDoubledCr'
  BY DEF RefusalInv
<1>1. CASE \E b \in Byte : Receive(b)
  BY <1>1 DEF Receive, StateIsLongest, RefusesOnlyDoubledCr
<1>2. CASE HandleHttp \/ NothingToRead
  BY <1>2 DEF HandleHttp, NothingToRead, StateIsLongest, RefusesOnlyDoubledCr
<1>3. CASE UNCHANGED vars
  BY <1>3 DEF vars, StateIsLongest, RefusesOnlyDoubledCr, Doubled
<1>4. CASE ReadByte
  <2>1. i' = 0 /\ pc' # "refused"
    BY <1>4 DEF ReadByte
  <2>2. state' = 0
    BY <1>4 DEF ReadByte
  <2>3. \A k \in 1 .. 4 : ~(0 >= k)
    OBVIOUS
  <2>4. \A k \in state' + 1 .. 4 : ~EndsWith(parse_buf', i', k)
    BY <2>1, <2>2, <2>3 DEF EndsWith
  <2> QED
    BY <2>1, <2>4 DEF StateIsLongest, RefusesOnlyDoubledCr
<1>5. CASE ParseByte
  <2>1. /\ pc = "parse" /\ state # 4 /\ i < Len(parse_buf)
        /\ i' = i + 1 /\ state' = NextState(state, parse_buf[i + 1])
        /\ pc' = pc /\ parse_buf' = parse_buf
    BY <1>5 DEF ParseByte, HEADER_TERM_STATUS
  <2>2. state \in 0 .. 3 /\ i \in Nat /\ parse_buf \in Seq(Byte)
    BY <2>1 DEF IInv, TypeOK
  <2>3. ASSUME ~Doubled, NEW k \in state' + 1 .. 4
        PROVE ~EndsWith(parse_buf, i + 1, k)
    <3>1. CASE parse_buf[i + 1] = Expected(state)
      <4>1. state' = state + 1
        BY <3>1, <2>1 DEF NextState
      <4>2. k - 1 \in state + 1 .. 4 /\ k \in 1 .. 4
        BY <4>1, <2>2, <2>3
      <4>3. ~EndsWith(parse_buf, i, k - 1)
        BY <4>2, <2>1, <2>3 DEF StateIsLongest
      <4> QED
        BY <4>2, <4>3, <2>1, <2>2, PrefixMatch
    <3>2. CASE parse_buf[i + 1] # Expected(state)
      <4>1. k \in 1 .. 4
        BY <3>2, <2>1, <2>3 DEF NextState
      <4> QED
        BY <4>1, <3>2, <2>1, <2>2, <2>3, UnexpectedByte
    <3> QED
      BY <3>1, <3>2
  <2>4. StateIsLongest'
    BY <2>1, <2>3 DEF StateIsLongest, Doubled
  <2> QED
    BY <2>1, <2>4 DEF RefusesOnlyDoubledCr
<1>6. CASE ParseRefuses
  <2>1. /\ pc = "parse" /\ state # 4 /\ i = Len(parse_buf)
        /\ pc' = "refused" /\ parse_buf' = parse_buf
    BY <1>6 DEF ParseRefuses, HEADER_TERM_STATUS
  <2>2. EndsWith(parse_buf, i, 4)
    BY <2>1 DEF IInv, StopsAtTerminator
  <2>3. 4 \in state + 1 .. 4
    BY <2>1 DEF IInv, TypeOK
  <2>4. Doubled
    BY <2>1, <2>2, <2>3 DEF StateIsLongest
  <2> QED
    BY <2>1, <2>4 DEF StateIsLongest, RefusesOnlyDoubledCr, Doubled
<1>7. CASE ParseAccepts \/ Close
  BY <1>7 DEF ParseAccepts, Close, StateIsLongest, RefusesOnlyDoubledCr
<1> QED
  BY <1>1, <1>2, <1>3, <1>4, <1>5, <1>6, <1>7 DEF Next

\* parse refuses a header that read_header_data has found complete only when
\* the header has a CR directly in front of another CR: on every other header
\* the two recognisers agree to the end.
THEOREM ParseRefusal == Spec => []RefusesOnlyDoubledCr
<1>1. Init => RefusalInv
  BY DEF Init, RefusalInv, StateIsLongest, RefusesOnlyDoubledCr
<1>2. RefusalInv => RefusesOnlyDoubledCr
  BY DEF RefusalInv
<1> QED
  BY InvariantHolds, RefusalStep, <1>1, <1>2, PTL DEF Spec
=============================================================================
