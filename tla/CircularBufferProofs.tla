------------------------ MODULE CircularBufferProofs ------------------------
(***************************************************************************)
(* Machine-checked proofs about CircularBuffer, for every ring size and    *)
(* every bound.  The argument: byte p of the input always lives in cell    *)
(* (p - 1) % BUF_DATA_MAXSIZE, and stays there after buf_get passed it,    *)
(* because fewer than BUF_DATA_MAXSIZE bytes come after it before it is    *)
(* delivered for good (RingInv).                                           *)
(***************************************************************************)
EXTENDS CircularBuffer, Integers, SequenceTheorems, TLAPS

-----------------------------------------------------------------------------
(* Arithmetic modulo s.                                                    *)

\* A remainder is a cell index.
LEMMA ModRange == ASSUME NEW s \in Nat \ {0}, NEW x \in Nat PROVE x % s \in 0 .. s - 1
  OBVIOUS

\* Division with remainder.
LEMMA ModDiv == ASSUME NEW s \in Nat \ {0}, NEW x \in Nat
  PROVE x = s * (x \div s) + (x % s) /\ x \div s \in Nat
  OBVIOUS

\* Multiples of s are at least s apart.
LEMMA MulMono == ASSUME NEW s \in Nat \ {0}, NEW p \in Nat, NEW q \in Nat, p < q
  PROVE s * p + s <= s * q
<1>1. PICK d \in Nat : q = p + d + 1
  BY q - p - 1 \in Nat
<1>2. s * q = s * p + s * d + s
  BY <1>1
<1>3. s * d \in Nat
  OBVIOUS
<1>4. s * p \in Nat /\ s * q \in Nat
  OBVIOUS
<1> QED BY <1>2, <1>3, <1>4

\* Quotient and remainder are unique.
LEMMA DivUnique == ASSUME NEW s \in Nat \ {0}, NEW p \in Nat, NEW q \in Nat,
   NEW r \in 0 .. s - 1, NEW t \in 0 .. s - 1, s * p + r = s * q + t
  PROVE p = q /\ r = t
<1>4. s * p \in Nat /\ s * q \in Nat
  OBVIOUS
<1>1. ~ (p < q)
  <2> SUFFICES ASSUME p < q PROVE FALSE OBVIOUS
  <2>1. s * p + s <= s * q BY MulMono
  <2> QED BY <2>1, <1>4
<1>2. ~ (q < p)
  <2> SUFFICES ASSUME q < p PROVE FALSE OBVIOUS
  <2>1. s * q + s <= s * p BY MulMono
  <2> QED BY <2>1, <1>4
<1> QED BY <1>1, <1>2, <1>4

\* The remainder of the successor: one more, or 0 at the wrap.
LEMMA ModStep == ASSUME NEW s \in Nat \ {0}, NEW x \in Nat
  PROVE (x + 1) % s = (IF (x % s) + 1 = s THEN 0 ELSE (x % s) + 1)
<1> DEFINE q == x \div s
           r == x % s
           u == (x + 1) \div s
           t == (x + 1) % s
<1>1. x = s * q + r /\ q \in Nat /\ r \in 0 .. s - 1
  BY ModDiv, ModRange
<1>2. x + 1 = s * u + t /\ u \in Nat /\ t \in 0 .. s - 1
  BY ModDiv, ModRange, x + 1 \in Nat
<1> HIDE DEF q, r, u, t
<1>5. s * q \in Nat /\ s * u \in Nat /\ s * (q + 1) = s * q + s
  BY <1>1, <1>2
<1>3. CASE r + 1 = s
  <2>1. s * (q + 1) + 0 = s * u + t
    BY <1>1, <1>2, <1>3, <1>5
  <2>2. t = 0
    BY <2>1, <1>1, <1>2, DivUnique, q + 1 \in Nat, 0 \in 0 .. s - 1
  <2> QED BY <2>2, <1>3 DEF r, t
<1>4. CASE r + 1 # s
  <2>1. s * q + (r + 1) = s * u + t /\ r + 1 \in 0 .. s - 1
    BY <1>1, <1>2, <1>4, <1>5
  <2>2. t = r + 1
    BY <2>1, <1>1, <1>2, DivUnique
  <2> QED BY <2>2, <1>4 DEF r, t
<1> QED BY <1>3, <1>4

\* The index update of buf_put and buf_get moves to the next cell.
LEMMA ModNext == ASSUME NEW s \in Nat \ {0}, NEW x \in Nat
  PROVE (x + 1) % s = ((x % s) + 1) % s
<1> DEFINE r == x % s
<1>1. r \in 0 .. s - 1 BY ModRange
<1> HIDE DEF r
<1>2. (r + 1) % s = IF r + 1 = s THEN 0 ELSE r + 1
  BY <1>1
<1> QED BY <1>2, ModStep DEF r

\* Two positions less than s apart live in different cells.
LEMMA ModDistinct == ASSUME NEW s \in Nat \ {0}, NEW x \in Nat, NEW y \in Nat, x < y, y - x < s
  PROVE x % s # y % s
<1> SUFFICES ASSUME x % s = y % s PROVE FALSE OBVIOUS
<1> DEFINE q == x \div s
           r == x % s
           u == y \div s
<1>1. x = s * q + r /\ q \in Nat /\ r \in 0 .. s - 1
  BY ModDiv, ModRange
<1>2. y = s * u + r /\ u \in Nat
  BY ModDiv, ModRange
<1> HIDE DEF q, r, u
<1>5. s * q \in Nat /\ s * u \in Nat
  BY <1>1, <1>2
<1>3. q < u
  <2> SUFFICES ASSUME u < q \/ u = q PROVE FALSE BY <1>1, <1>2
  <2>1. CASE u < q
    <3>1. s * u + s <= s * q BY <1>1, <1>2, <2>1, MulMono
    <3> QED BY <3>1, <1>1, <1>2, <1>5
  <2>2. CASE u = q BY <2>2, <1>1, <1>2, <1>5
  <2> QED BY <2>1, <2>2
<1>4. s * q + s <= s * u BY <1>1, <1>2, <1>3, MulMono
<1> QED BY <1>1, <1>2, <1>4, <1>5

\* Moving forward from a cell is moving forward from its position.
LEMMA ModShift == ASSUME NEW s \in Nat \ {0}, NEW x \in Nat, NEW y \in Nat
  PROVE ((x % s) + y) % s = (x + y) % s
<1> DEFINE q == x \div s
           r == x % s
           u == (r + y) \div s
           t == (r + y) % s
           v == (x + y) \div s
           w == (x + y) % s
<1>1. x = s * q + r /\ q \in Nat /\ r \in 0 .. s - 1
  BY ModDiv, ModRange
<1>2. r + y = s * u + t /\ u \in Nat /\ t \in 0 .. s - 1
  BY <1>1, ModDiv, ModRange, r + y \in Nat
<1>3. x + y = s * v + w /\ v \in Nat /\ w \in 0 .. s - 1
  BY ModDiv, ModRange, x + y \in Nat
<1> HIDE DEF q, r, u, t, v, w
<1>4. s * (q + u) = s * q + s * u
  BY <1>1, <1>2
<1>5. s * q \in Nat /\ s * u \in Nat /\ s * v \in Nat
  BY <1>1, <1>2, <1>3
<1>6. s * (q + u) + t = s * v + w
  BY <1>1, <1>2, <1>3, <1>4, <1>5
<1>7. PICK p \in Nat : p = q + u
  BY <1>1, <1>2
<1>8. s * p + t = s * v + w
  BY <1>6, <1>7
<1>9. t = w
  BY <1>2, <1>3, <1>7, <1>8, DivUnique
<1> QED BY <1>9 DEF r, t, w
-----------------------------------------------------------------------------
(* The invariant holds initially and every step keeps it.                  *)

\* The ring starts empty, with both indices on cell 0.
LEMMA InitIInv == Init => IInv
<1> SUFFICES ASSUME Init PROVE IInv
  OBVIOUS
<1> USE BufferAssumption DEF Init, Cells
<1>1. Len(<<>>) = 0
  OBVIOUS
<1>2. 0 % BUF_DATA_MAXSIZE = 0
  OBVIOUS
<1>3. TypeOK
  BY DEF TypeOK, Phases
<1>4. FifoOrder
  BY <1>1 DEF FifoOrder
<1>5. RingInv
  BY <1>1, <1>2 DEF RingInv, Pending
<1> QED BY <1>3, <1>4, <1>5 DEF IInv

\* Storing a byte in the ring, whoever stores it: the cell it overwrites
\* holds no byte that is still needed.
LEMMA PutKeeps ==
  ASSUME IInv, NEW b \in Byte, buf_put(b), input' = Append(input, b),
         UNCHANGED output, Pending = 0
  PROVE  /\ data' \in [Cells -> Byte]
         /\ head' \in Cells
         /\ tail' \in Cells
         /\ num_byte' \in 0 .. BUF_DATA_MAXSIZE
         /\ head' = Len(input') % BUF_DATA_MAXSIZE
         /\ tail' = (Len(input') - num_byte') % BUF_DATA_MAXSIZE
         /\ num_byte' <= Len(input')
         /\ Len(input') = Len(output') + num_byte'
         /\ \A p \in Len(output') + 1 .. Len(input') :
              data'[(p - 1) % BUF_DATA_MAXSIZE] = input'[p]
<1> USE BufferAssumption
<1> DEFINE S == BUF_DATA_MAXSIZE
<1>1. /\ input \in Seq(Byte) /\ output \in Seq(Byte)
      /\ data \in [Cells -> Byte] /\ head \in Cells /\ tail \in Cells
      /\ num_byte \in 0 .. S
  BY DEF IInv, TypeOK
<1>2. /\ head = Len(input) % S
      /\ tail = (Len(input) - num_byte) % S
      /\ num_byte <= Len(input)
      /\ Len(input) = Len(output) + num_byte
      /\ \A p \in Len(output) + 1 .. Len(input) : data[(p - 1) % S] = input[p]
  BY <1>1 DEF IInv, RingInv
<1>3. num_byte < S
  BY <1>1 DEF buf_put, buf_full, buf_available
<1>4. /\ Len(input) \in Nat /\ Len(output) \in Nat
      /\ Len(input') = Len(input) + 1
      /\ \A p \in 1 .. Len(input) : input'[p] = input[p]
      /\ input'[Len(input) + 1] = b
  BY <1>1
<1>5. head' = Len(input') % S
  BY <1>2, <1>4, ModNext DEF buf_put
<1>6. head' \in Cells
  BY <1>4, <1>5, ModRange, Len(input) + 1 \in Nat DEF Cells
<1>7. data' = [data EXCEPT ![head] = b] /\ num_byte' = num_byte + 1 /\ tail' = tail
  BY DEF buf_put
<1>8. ASSUME NEW p \in Len(output') + 1 .. Len(input')
      PROVE  data'[(p - 1) % S] = input'[p]
  <2>1. CASE p = Len(input) + 1
    <3>1. (p - 1) % S = head
      BY <1>2, <1>4, <2>1
    <3> QED BY <3>1, <2>1, <1>1, <1>4, <1>7
  <2>2. CASE p # Len(input) + 1
    <3>1. p \in Len(output) + 1 .. Len(input)
      BY <2>2, <1>4
    <3>2. (p - 1) % S # Len(input) % S
      BY <3>1, <1>2, <1>3, <1>1, <1>4, ModDistinct,
         p - 1 \in Nat, p - 1 < Len(input), Len(input) - (p - 1) < S
    <3>3. (p - 1) % S \in Cells
      BY <3>1, <1>4, ModRange, p - 1 \in Nat DEF Cells
    <3>4. data'[(p - 1) % S] = data[(p - 1) % S]
      BY <3>2, <3>3, <1>1, <1>2, <1>7
    <3>5. input'[p] = input[p]
      BY <3>1, <1>4
    <3> QED BY <3>1, <3>4, <3>5, <1>2
  <2> QED BY <2>1, <2>2
<1>9. Len(input') - num_byte' = Len(input) - num_byte
  BY <1>4, <1>7, <1>1
<1>10. /\ num_byte' \in 0 .. S /\ num_byte' <= Len(input')
       /\ Len(input') = Len(output') + num_byte' /\ tail' \in Cells
  BY <1>1, <1>2, <1>3, <1>4, <1>7
<1>11. tail' = (Len(input') - num_byte') % S
  BY <1>2, <1>7, <1>9
<1>12. data' \in [Cells -> Byte]
  BY <1>1, <1>7
<1> HIDE BufferAssumption
<1> QED BY <1>5, <1>6, <1>7, <1>8, <1>10, <1>11, <1>12

\* Reading one byte: it is the oldest byte of the ring.
LEMMA GetKeeps ==
  ASSUME IInv, buf_get
  PROVE  /\ data' = data /\ head' = head
         /\ tail' \in Cells
         /\ num_byte' = num_byte - 1
         /\ num_byte' \in 0 .. BUF_DATA_MAXSIZE
         /\ tail' = (Len(input) - num_byte') % BUF_DATA_MAXSIZE
         /\ data[tail] \in Byte
         /\ Len(input) - num_byte + 1 \in Len(output) + 1 .. Len(input)
         /\ data[tail] = input[Len(input) - num_byte + 1]
<1> USE BufferAssumption
<1> DEFINE S == BUF_DATA_MAXSIZE
           x == Len(input) - num_byte
<1>1. /\ input \in Seq(Byte) /\ output \in Seq(Byte) /\ tmp \in Seq(Byte)
      /\ data \in [Cells -> Byte] /\ tail \in Cells
      /\ num_byte \in 0 .. S /\ cnt \in 0 .. Len(tmp)
  BY DEF IInv, TypeOK
<1>2. /\ tail = x % S
      /\ num_byte <= Len(input)
      /\ Len(input) = Len(output) + Pending + num_byte
      /\ \A p \in Len(output) + 1 .. Len(input) : data[(p - 1) % S] = input[p]
  BY <1>1 DEF IInv, RingInv
<1>3. Pending \in Nat /\ Len(input) \in Nat /\ Len(output) \in Nat
  BY <1>1 DEF Pending
<1>4. data' = data /\ head' = head /\ num_byte' = num_byte - 1 /\ tail' = (tail + 1) % S
  BY DEF buf_get
<1>5. num_byte > 0
  BY <1>1 DEF buf_get, buf_empty, buf_available
<1>6. x \in Nat
  BY <1>1, <1>2, <1>3
<1>7. tail' = (x + 1) % S
  BY <1>2, <1>4, <1>6, ModNext
<1>8. tail' \in Cells
  BY <1>1, <1>3, <1>6, <1>7, ModRange, x + 1 \in Nat DEF Cells
<1>9. x + 1 \in Len(output) + 1 .. Len(input)
  BY <1>1, <1>2, <1>3, <1>5
<1>10. (x + 1) - 1 = x
  BY <1>6
<1>11. data[tail] = input[x + 1]
  BY <1>2, <1>9, <1>10
<1>12. x + 1 = Len(input) - num_byte'
  BY <1>1, <1>3, <1>4
<1>13. num_byte' \in 0 .. S
  BY <1>1, <1>4, <1>5
<1>14. data[tail] \in Byte
  BY <1>1
<1> QED BY <1>4, <1>7, <1>8, <1>9, <1>11, <1>12, <1>13, <1>14

\* Moving tail back over a byte that is read but not delivered: its cell
\* still holds it.
LEMMA PutbackKeeps ==
  ASSUME IInv, phase = "putback", cnt < Len(tmp), buf_putback
  PROVE  /\ data' = data /\ head' = head
         /\ tail' \in Cells
         /\ num_byte' = num_byte + 1
         /\ num_byte' \in 0 .. BUF_DATA_MAXSIZE
         /\ num_byte' <= Len(input)
         /\ tail' = (Len(input) - num_byte') % BUF_DATA_MAXSIZE
<1> USE BufferAssumption
<1> DEFINE S == BUF_DATA_MAXSIZE
           x == Len(input) - num_byte - 1
<1>1. /\ input \in Seq(Byte) /\ output \in Seq(Byte) /\ tmp \in Seq(Byte)
      /\ tail \in Cells /\ num_byte \in 0 .. S /\ cnt \in 0 .. Len(tmp)
  BY DEF IInv, TypeOK
<1>2. /\ tail = (Len(input) - num_byte) % S
      /\ Len(input) = Len(output) + (Len(tmp) - cnt) + num_byte
      /\ (Len(tmp) - cnt) + num_byte <= S
  BY <1>1 DEF IInv, RingInv, Pending
<1>3. x \in Nat /\ Len(input) - num_byte = x + 1 /\ num_byte + 1 <= S
  BY <1>1, <1>2
<1>4. tail = IF (x % S) + 1 = S THEN 0 ELSE (x % S) + 1
  BY <1>2, <1>3, ModStep
<1>5. x % S \in 0 .. S - 1
  BY <1>3, ModRange
<1>6. /\ data' = data /\ head' = head /\ num_byte' = num_byte + 1
      /\ tail' = (IF tail = 0 THEN S ELSE tail) - 1
  BY DEF buf_putback
<1>7. tail' = x % S
  BY <1>4, <1>5, <1>6
<1>8. Len(input) - num_byte' = x
  BY <1>1, <1>3, <1>6
<1>9. tail' \in Cells
  BY <1>5, <1>7 DEF Cells
<1>10. num_byte' \in 0 .. S /\ num_byte' <= Len(input)
  BY <1>1, <1>3, <1>6
<1> QED BY <1>6, <1>7, <1>8, <1>9, <1>10

\* Every step of the ring and of the loops around it keeps the invariant.
LEMMA NextIInv == IInv /\ [Next]_vars => IInv'
<1> SUFFICES ASSUME IInv, [Next]_vars PROVE IInv'
  OBVIOUS
<1> USE BufferAssumption
<1>0. TypeOK /\ FifoOrder /\ RingInv
  BY DEF IInv
<1>t. /\ data \in [Cells -> Byte] /\ head \in Cells /\ tail \in Cells
      /\ num_byte \in 0 .. BUF_DATA_MAXSIZE /\ phase \in Phases
      /\ tmp \in Seq(Byte) /\ cnt \in 0 .. Len(tmp) /\ nsent \in 0 .. Len(tmp)
      /\ input \in Seq(Byte) /\ output \in Seq(Byte)
  BY <1>0 DEF TypeOK
<1>f. /\ Len(output) <= Len(input)
      /\ \A p \in 1 .. Len(output) : output[p] = input[p]
  BY <1>0 DEF FifoOrder
<1>1. ASSUME NEW b \in Byte, Put(b) PROVE IInv'
  <2>1. buf_put(b) /\ input' = Append(input, b) /\ output' = output /\ Pending = 0
    BY <1>1 DEF Put, Pending
  <2>2. /\ phase' = phase /\ phase = "idle" /\ tmp' = tmp /\ cnt' = cnt /\ nsent' = nsent
    BY <1>1 DEF Put
  <2>3. /\ Len(input') = Len(input) + 1
        /\ \A p \in 1 .. Len(input) : input'[p] = input[p]
        /\ input' \in Seq(Byte)
    BY <2>1, <1>t
  <2>4. TypeOK'
    BY <1>t, <2>1, <2>2, <2>3, PutKeeps DEF TypeOK
  <2>5. FifoOrder'
    BY <1>t, <1>f, <2>1, <2>3 DEF FifoOrder
  <2>6. /\ head' = Len(input') % BUF_DATA_MAXSIZE
        /\ tail' = (Len(input') - num_byte') % BUF_DATA_MAXSIZE
        /\ num_byte' <= Len(input') /\ num_byte' \in 0 .. BUF_DATA_MAXSIZE
        /\ Len(input') = Len(output') + num_byte'
        /\ \A p \in Len(output') + 1 .. Len(input') :
             data'[(p - 1) % BUF_DATA_MAXSIZE] = input'[p]
    BY <2>1, PutKeeps
  <2>7. Pending' = 0 /\ phase' = "idle"
    BY <2>2 DEF Pending
  <2>8. /\ Len(input') = Len(output') + Pending' + num_byte'
        /\ Pending' + num_byte' <= BUF_DATA_MAXSIZE
    <3>1. Len(output') \in Nat
      BY <1>t, <2>1
    <3>2. Len(input') = Len(output') + num_byte' /\ num_byte' \in 0 .. BUF_DATA_MAXSIZE
      BY <2>6
    <3>3. num_byte' \in Nat /\ num_byte' <= BUF_DATA_MAXSIZE /\ Len(input') = Len(output') + num_byte'
      BY <3>2
    <3> HIDE BufferAssumption
    <3> QED BY <3>1, <3>3, <2>7
  <2>9. RingInv'
    BY <2>6, <2>7, <2>8 DEF RingInv
  <2> QED BY <2>4, <2>5, <2>9 DEF IInv
<1>2. CASE Get
  <2>1. /\ buf_get /\ phase = "idle" /\ output' = Append(output, data[tail])
        /\ phase' = phase /\ tmp' = tmp /\ cnt' = cnt /\ nsent' = nsent
        /\ input' = input /\ Pending = 0
    BY <1>2 DEF Get, Pending
  <2>2. /\ Len(input) = Len(output) + num_byte
        /\ head = Len(input) % BUF_DATA_MAXSIZE
        /\ \A p \in Len(output) + 1 .. Len(input) :
             data[(p - 1) % BUF_DATA_MAXSIZE] = input[p]
    BY <1>0, <1>t, <2>1 DEF RingInv
  <2>3. /\ data[tail] \in Byte /\ data[tail] = input[Len(output) + 1]
        /\ num_byte' = num_byte - 1 /\ num_byte' \in 0 .. BUF_DATA_MAXSIZE
    BY <1>t, <2>1, <2>2, GetKeeps
  <2>4. /\ Len(output') = Len(output) + 1
        /\ \A p \in 1 .. Len(output) : output'[p] = output[p]
        /\ output'[Len(output) + 1] = data[tail]
        /\ output' \in Seq(Byte)
    <3> DEFINE x == data[tail]
    <3>1. output \in Seq(Byte) /\ x \in Byte /\ output' = Append(output, x)
      BY <1>t, <2>1, <2>3
    <3> HIDE DEF x
    <3>2. /\ Append(output, x) \in Seq(Byte) /\ Len(Append(output, x)) = Len(output) + 1
          /\ \A p \in 1 .. Len(output) : Append(output, x)[p] = output[p]
          /\ Append(output, x)[Len(output) + 1] = x
      BY ONLY <3>1, AppendProperties
    <3> QED BY <3>1, <3>2 DEF x
  <2>5. TypeOK'
    BY <1>t, <2>1, <2>3, <2>4, GetKeeps DEF TypeOK
  <2>6. FifoOrder'
    BY <1>t, <1>f, <2>1, <2>2, <2>3, <2>4 DEF FifoOrder
  <2>7. data' = data /\ head' = head /\ tail' = (Len(input) - num_byte') % BUF_DATA_MAXSIZE
    BY <2>1, GetKeeps
  <2>8. Pending' = 0 /\ phase' = "idle"
    BY <2>1 DEF Pending
  <2>9. RingInv'
    <3>1. Len(output) \in Nat /\ Len(input) \in Nat /\ num_byte \in Nat
      BY <1>t
    <3>2. /\ Len(input) = Len(output') + 0 + num_byte'
          /\ num_byte' <= Len(input) /\ 0 + num_byte' <= BUF_DATA_MAXSIZE
          /\ \A p \in Len(output') + 1 .. Len(input) : p \in Len(output) + 1 .. Len(input)
      BY <2>2, <2>3, <2>4, <3>1
    <3>3. \A p \in Len(output') + 1 .. Len(input) : data[(p - 1) % BUF_DATA_MAXSIZE] = input[p]
      BY <2>2, <3>2
    <3> QED BY ONLY <2>1, <2>2, <2>7, <2>8, <3>2, <3>3 DEF RingInv
  <2> QED BY <2>5, <2>6, <2>9 DEF IInv
<1>3. ASSUME NEW n \in 0 .. BUF_DATA_MAXSIZE, NEW msg \in [1 .. n -> Byte], WriteBegin(msg)
      PROVE  IInv'
  <2>1. msg \in Seq(Byte) /\ Len(msg) = n
    OBVIOUS
  <2>2. TypeOK'
    BY <1>t, <1>3, <2>1 DEF TypeOK, WriteBegin, Phases
  <2>3. FifoOrder'
    BY <1>f, <1>3 DEF FifoOrder, WriteBegin
  <2>4. RingInv'
    <3>1. /\ phase = "idle" /\ phase' = "write" /\ tmp' = msg /\ cnt' = 0
          /\ Len(msg) <= BUF_DATA_MAXSIZE - num_byte
          /\ UNCHANGED <<data, head, tail, num_byte, input, output>>
      BY <1>3 DEF WriteBegin, buf_available
    <3>2. Pending = 0 /\ Pending' = 0
      BY <3>1 DEF Pending
    <3>3. Len(tmp') - cnt' + num_byte' <= BUF_DATA_MAXSIZE
      BY <1>t, <2>1, <3>1
    <3> HIDE BufferAssumption
    <3> QED BY <1>0, <3>1, <3>2, <3>3 DEF RingInv
  <2> QED BY <2>2, <2>3, <2>4 DEF IInv
<1>4. CASE WriteByte
  <2> DEFINE b == tmp[cnt + 1]
  <2>1. b \in Byte
    BY <1>t, <1>4 DEF WriteByte
  <2>2. buf_put(b) /\ input' = Append(input, b) /\ output' = output /\ Pending = 0
    BY <1>4 DEF WriteByte, Pending
  <2>3. /\ phase' = phase /\ phase = "write" /\ tmp' = tmp /\ cnt' = cnt + 1
        /\ nsent' = nsent /\ cnt < Len(tmp) /\ num_byte' = num_byte + 1
    BY <1>4 DEF WriteByte, buf_put
  <2> HIDE DEF b
  <2>4. /\ Len(input') = Len(input) + 1
        /\ \A p \in 1 .. Len(input) : input'[p] = input[p]
        /\ input' \in Seq(Byte)
    BY <2>1, <2>2, <1>t
  <2>5. TypeOK'
    BY <1>t, <2>1, <2>2, <2>3, <2>4, PutKeeps DEF TypeOK
  <2>6. FifoOrder'
    BY <1>t, <1>f, <2>2, <2>4 DEF FifoOrder
  <2>7. Len(tmp) - cnt + num_byte <= BUF_DATA_MAXSIZE
    BY <1>0, <2>3 DEF RingInv
  <2>8. /\ head' = Len(input') % BUF_DATA_MAXSIZE
        /\ tail' = (Len(input') - num_byte') % BUF_DATA_MAXSIZE
        /\ num_byte' <= Len(input') /\ num_byte' \in 0 .. BUF_DATA_MAXSIZE
        /\ Len(input') = Len(output') + num_byte'
        /\ \A p \in Len(output') + 1 .. Len(input') :
             data'[(p - 1) % BUF_DATA_MAXSIZE] = input'[p]
    BY <2>1, <2>2, PutKeeps
  <2>9. Pending' = 0 /\ phase' = "write"
    BY <2>3 DEF Pending
  <2>10. Len(tmp') - cnt' + num_byte' <= BUF_DATA_MAXSIZE
    BY <1>t, <2>3, <2>7
  <2>11. /\ Len(input') = Len(output') + Pending' + num_byte'
         /\ Pending' + num_byte' <= BUF_DATA_MAXSIZE
    <3>1. Len(output') \in Nat
      BY <1>t, <2>2
    <3>2. Len(input') = Len(output') + num_byte' /\ num_byte' \in 0 .. BUF_DATA_MAXSIZE
      BY <2>8
    <3>3. num_byte' \in Nat /\ num_byte' <= BUF_DATA_MAXSIZE /\ Len(input') = Len(output') + num_byte'
      BY <3>2
    <3> HIDE BufferAssumption
    <3> QED BY <3>1, <3>3, <2>9
  <2>12. RingInv'
    BY <2>8, <2>9, <2>10, <2>11 DEF RingInv
  <2> QED BY <2>5, <2>6, <2>12 DEF IInv
<1>5. CASE SendBegin
  <2>1. TypeOK'
    BY <1>t, <1>5 DEF TypeOK, SendBegin, Phases
  <2>2. FifoOrder'
    BY <1>f, <1>5 DEF FifoOrder, SendBegin
  <2>3. RingInv'
    BY <1>0, <1>t, <1>5 DEF RingInv, Pending, SendBegin
  <2> QED BY <2>1, <2>2, <2>3 DEF IInv
<1>6. CASE ReadByte
  <2>1. /\ buf_get /\ phase = "read" /\ tmp' = Append(tmp, data[tail])
        /\ phase' = phase /\ cnt' = cnt /\ nsent' = nsent
        /\ input' = input /\ output' = output /\ Pending = Len(tmp)
    BY <1>6 DEF ReadByte, Pending
  <2>2. /\ Len(input) = Len(output) + Len(tmp) + num_byte
        /\ Len(tmp) + num_byte <= BUF_DATA_MAXSIZE
        /\ head = Len(input) % BUF_DATA_MAXSIZE
        /\ \A p \in Len(output) + 1 .. Len(input) :
             data[(p - 1) % BUF_DATA_MAXSIZE] = input[p]
        /\ \A k \in 1 .. Len(tmp) : tmp[k] = input[Len(output) + k]
    BY <1>0, <1>t, <2>1 DEF RingInv
  <2>3. /\ data[tail] \in Byte /\ data[tail] = input[Len(output) + Len(tmp) + 1]
        /\ num_byte' = num_byte - 1 /\ num_byte' \in 0 .. BUF_DATA_MAXSIZE
    BY <1>t, <2>1, <2>2, GetKeeps
  <2>4. /\ Len(tmp') = Len(tmp) + 1
        /\ \A p \in 1 .. Len(tmp) : tmp'[p] = tmp[p]
        /\ tmp'[Len(tmp) + 1] = data[tail]
        /\ tmp' \in Seq(Byte)
    BY <1>t, <2>1, <2>3
  <2>5. TypeOK'
    BY <1>t, <2>1, <2>3, <2>4, GetKeeps DEF TypeOK
  <2>6. FifoOrder'
    BY <1>f, <2>1 DEF FifoOrder
  <2>7. \A k \in 1 .. Len(tmp') : tmp'[k] = input[Len(output) + k]
    <3> TAKE k \in 1 .. Len(tmp')
    <3>1. CASE k = Len(tmp) + 1
      BY <1>t, <2>3, <2>4, <3>1, Len(output) + (Len(tmp) + 1) = Len(output) + Len(tmp) + 1
    <3>2. CASE k # Len(tmp) + 1
      BY <1>t, <2>2, <2>4, <3>2, k \in 1 .. Len(tmp)
    <3> QED BY <3>1, <3>2
  <2>8. data' = data /\ head' = head /\ tail' = (Len(input) - num_byte') % BUF_DATA_MAXSIZE
    BY <2>1, GetKeeps
  <2>9. Pending' = Len(tmp) + 1 /\ phase' = "read"
    BY <2>1, <2>4 DEF Pending
  <2>10. /\ num_byte' <= Len(input')
         /\ Len(input') = Len(output') + Pending' + num_byte'
         /\ Pending' + num_byte' <= BUF_DATA_MAXSIZE
    BY <1>t, <2>1, <2>2, <2>3, <2>9
  <2>11. RingInv'
    BY <2>1, <2>2, <2>7, <2>8, <2>9, <2>10 DEF RingInv
  <2> QED BY <2>5, <2>6, <2>11 DEF IInv
<1>7. ASSUME NEW n \in 0 .. Len(tmp), Sent(n) PROVE IInv'
  <2>1. /\ phase = "read" /\ num_byte = 0 /\ phase' = "putback" /\ nsent' = n /\ cnt' = n
        /\ output' = output \o SubSeq(tmp, 1, n)
        /\ UNCHANGED <<data, head, tail, num_byte, tmp, input>>
    BY <1>t, <1>7 DEF Sent, buf_empty, buf_available
  <2>2. /\ Len(input) = Len(output) + Len(tmp)
        /\ Len(tmp) <= BUF_DATA_MAXSIZE
        /\ \A k \in 1 .. Len(tmp) : tmp[k] = input[Len(output) + k]
        /\ head = Len(input) % BUF_DATA_MAXSIZE
        /\ tail = (Len(input) - num_byte) % BUF_DATA_MAXSIZE
        /\ \A p \in Len(output) + 1 .. Len(input) :
             data[(p - 1) % BUF_DATA_MAXSIZE] = input[p]
    BY <1>0, <1>t, <2>1 DEF RingInv, Pending
  <2> DEFINE sent == SubSeq(tmp, 1, n)
  <2>3. sent \in Seq(Byte) /\ Len(sent) = n /\ \A k \in 1 .. n : sent[k] = tmp[k]
    BY <1>t, SubSeqProperties, n \in Nat, Len(tmp) \in Nat
  <2> HIDE DEF sent
  <2>4. /\ output' \in Seq(Byte)
        /\ Len(output') = Len(output) + n
        /\ \A p \in 1 .. Len(output) : output'[p] = output[p]
        /\ \A p \in Len(output) + 1 .. Len(output) + n : output'[p] = sent[p - Len(output)]
    BY <1>t, <2>1, <2>3, ConcatProperties DEF sent
  <2>5. TypeOK'
    BY <1>t, <2>1, <2>4 DEF TypeOK, Phases
  <2>6. \A p \in Len(output) + 1 .. Len(output) + n : output'[p] = input[p]
    <3> TAKE p \in Len(output) + 1 .. Len(output) + n
    <3>1. p - Len(output) \in 1 .. n /\ Len(output) + (p - Len(output)) = p
      BY <1>t
    <3>2. output'[p] = tmp[p - Len(output)]
      BY <2>3, <2>4, <3>1
    <3>3. tmp[p - Len(output)] = input[p]
      BY <1>t, <2>2, <3>1, p - Len(output) \in 1 .. Len(tmp)
    <3> QED BY <3>2, <3>3
  <2>7. FifoOrder'
    <3>1. Len(output') <= Len(input')
      BY <1>t, <2>1, <2>2, <2>4
    <3>2. ASSUME NEW p \in 1 .. Len(output') PROVE output'[p] = input'[p]
      <4>1. CASE p \in 1 .. Len(output)
        BY <4>1, <1>f, <2>1, <2>4
      <4>2. CASE p \notin 1 .. Len(output)
        <5>1. p \in Len(output) + 1 .. Len(output) + n
          BY <4>2, <1>t, <2>4
        <5> QED BY <5>1, <2>1, <2>6
      <4> QED BY <4>1, <4>2
    <3> QED BY <3>1, <3>2 DEF FifoOrder
  <2>8. Pending' = Len(tmp) - n /\ phase' = "putback"
    BY <2>1 DEF Pending
  <2>9. /\ num_byte' <= Len(input')
        /\ Len(input') = Len(output') + Pending' + num_byte'
        /\ Pending' + num_byte' <= BUF_DATA_MAXSIZE
    <3>1. num_byte' = 0 /\ input' = input
      BY <2>1
    <3>2. Len(tmp) \in Nat /\ Len(output) \in Nat
      BY <1>t
    <3> QED BY <3>1, <3>2, <2>2, <2>4, <2>8
  <2>10. \A p \in Len(output') + 1 .. Len(input') :
           data'[(p - 1) % BUF_DATA_MAXSIZE] = input'[p]
    <3> TAKE p \in Len(output') + 1 .. Len(input')
    <3>1. p \in Len(output) + 1 .. Len(input)
      BY <1>t, <2>1, <2>4
    <3> QED BY <3>1, <2>1, <2>2
  <2>11. RingInv'
    BY <2>1, <2>2, <2>8, <2>9, <2>10 DEF RingInv
  <2> QED BY <2>5, <2>7, <2>11 DEF IInv
<1>8. CASE Putback
  <2>1. /\ phase = "putback" /\ cnt < Len(tmp) /\ buf_putback /\ cnt' = cnt + 1
        /\ UNCHANGED <<phase, tmp, nsent, input, output>>
    BY <1>8 DEF Putback
  <2>2. /\ data' = data /\ head' = head /\ tail' \in Cells
        /\ num_byte' = num_byte + 1 /\ num_byte' \in 0 .. BUF_DATA_MAXSIZE
        /\ num_byte' <= Len(input)
        /\ tail' = (Len(input) - num_byte') % BUF_DATA_MAXSIZE
    BY <2>1, PutbackKeeps
  <2>3. TypeOK'
    BY <1>t, <2>1, <2>2 DEF TypeOK
  <2>4. FifoOrder'
    BY <1>f, <2>1 DEF FifoOrder
  <2>5. /\ head = Len(input) % BUF_DATA_MAXSIZE
        /\ Len(input) = Len(output) + (Len(tmp) - cnt) + num_byte
        /\ (Len(tmp) - cnt) + num_byte <= BUF_DATA_MAXSIZE
        /\ \A p \in Len(output) + 1 .. Len(input) :
             data[(p - 1) % BUF_DATA_MAXSIZE] = input[p]
    BY <1>0, <2>1 DEF RingInv, Pending
  <2>6. Pending' = Len(tmp) - (cnt + 1) /\ phase' = "putback"
    BY <2>1 DEF Pending
  <2>7. /\ Len(input') = Len(output') + Pending' + num_byte'
        /\ Pending' + num_byte' <= BUF_DATA_MAXSIZE
    BY <1>t, <2>1, <2>2, <2>5, <2>6
  <2>8. RingInv'
    BY <2>1, <2>2, <2>5, <2>6, <2>7 DEF RingInv
  <2> QED BY <2>3, <2>4, <2>8 DEF IInv
<1>9. CASE LoopEnd
  <2>1. TypeOK'
    BY <1>t, <1>9 DEF TypeOK, LoopEnd, Phases
  <2>2. FifoOrder'
    BY <1>f, <1>9 DEF FifoOrder, LoopEnd
  <2>3. RingInv'
    BY <1>0, <1>t, <1>9 DEF RingInv, Pending, LoopEnd
  <2> QED BY <2>1, <2>2, <2>3 DEF IInv
<1>10. CASE Reset
  <2>1. /\ data' = data /\ head' = 0 /\ tail' = 0 /\ num_byte' = 0 /\ phase' = "idle"
        /\ input' = <<>> /\ output' = <<>> /\ UNCHANGED <<tmp, cnt, nsent>>
    BY <1>10 DEF Reset, buf_reset
  <2>2. Len(<<>>) = 0 /\ 0 % BUF_DATA_MAXSIZE = 0
    OBVIOUS
  <2>3. TypeOK'
    BY <1>t, <2>1 DEF TypeOK, Phases, Cells
  <2>4. FifoOrder'
    BY <2>1, <2>2 DEF FifoOrder
  <2>5. RingInv'
    BY <2>1, <2>2 DEF RingInv, Pending
  <2> QED BY <2>3, <2>4, <2>5 DEF IInv
<1>11. CASE UNCHANGED vars
  BY <1>11 DEF IInv, TypeOK, FifoOrder, RingInv, Pending, vars
<1> QED BY <1>1, <1>2, <1>3, <1>4, <1>5, <1>6, <1>7, <1>8, <1>9, <1>10, <1>11 DEF Next

-----------------------------------------------------------------------------
(* The theorems.                                                           *)

\* The ring and its loops keep the inductive invariant for ever.
THEOREM InvariantHolds == Spec => []IInv
<1>1. Init => IInv
  BY InitIInv
<1>2. IInv /\ [Next]_vars => IInv'
  BY NextIInv
<1> QED BY <1>1, <1>2, PTL DEF Spec

\* The fields of cbuf_t stay in range: head and tail always index a cell
\* (buf_put and buf_get never write or read outside data).
THEOREM TypeCorrect == Spec => []TypeOK
<1>1. IInv => TypeOK
  BY DEF IInv
<1> QED BY <1>1, InvariantHolds, PTL

\* Bytes leave the ring in the order in which they came, also when senders
\* put back what the kernel did not take.
THEOREM FifoCorrect == Spec => []FifoOrder
<1>1. IInv => FifoOrder
  BY DEF IInv
<1> QED BY <1>1, InvariantHolds, PTL

\* The cells between tail and head are the bytes that were put and not taken,
\* and those that a send loop holds are still in the cells behind tail, also
\* when head and tail have gone around the ring.
THEOREM RingCorrect == Spec => []RingInv
<1>1. IInv => RingInv
  BY DEF IInv
<1> QED BY <1>1, InvariantHolds, PTL

\* No loop meets a full ring, so the asserts on buf_putback never fail.
THEOREM LoopsNeverFailHolds == Spec => []LoopsNeverFail
<1>1. IInv => LoopsNeverFail
  <2> SUFFICES ASSUME IInv PROVE LoopsNeverFail
    OBVIOUS
  <2>1. num_byte \in 0 .. BUF_DATA_MAXSIZE /\ cnt \in 0 .. Len(tmp) /\ tmp \in Seq(Byte)
    BY DEF IInv, TypeOK
  <2>2. /\ phase = "write" => Len(tmp) - cnt + num_byte <= BUF_DATA_MAXSIZE
        /\ phase = "putback" => Len(tmp) - cnt + num_byte <= BUF_DATA_MAXSIZE
    BY DEF IInv, RingInv, Pending
  <2> QED BY <2>1, <2>2, BufferAssumption DEF LoopsNeverFail, buf_full, buf_available
<1> QED BY <1>1, InvariantHolds, PTL

\* Between two loops no byte is missing and none is there twice.
THEOREM ConservationHolds == Spec => []Conservation
<1>1. IInv => Conservation
  <2> SUFFICES ASSUME IInv, phase = "idle" PROVE
        /\ Len(input) = Len(output) + num_byte
        /\ \A k \in 1 .. num_byte :
             data[(tail + k - 1) % BUF_DATA_MAXSIZE] = input[Len(output) + k]
    BY DEF Conservation
  <2> USE BufferAssumption
  <2>1. /\ input \in Seq(Byte) /\ output \in Seq(Byte)
        /\ num_byte \in 0 .. BUF_DATA_MAXSIZE
    BY DEF IInv, TypeOK
  <2>2. Pending = 0
    BY DEF Pending
  <2>3. /\ Len(input) = Len(output) + num_byte
        /\ tail = (Len(input) - num_byte) % BUF_DATA_MAXSIZE
        /\ \A p \in Len(output) + 1 .. Len(input) :
             data[(p - 1) % BUF_DATA_MAXSIZE] = input[p]
    BY <2>1, <2>2 DEF IInv, RingInv
  <2>4. Len(output) \in Nat /\ tail = Len(output) % BUF_DATA_MAXSIZE
    BY <2>1, <2>3
  <2>5. ASSUME NEW k \in 1 .. num_byte
        PROVE  data[(tail + k - 1) % BUF_DATA_MAXSIZE] = input[Len(output) + k]
    <3>1. k - 1 \in Nat /\ k \in Nat
      BY <2>1
    <3>2. tail + k - 1 = tail + (k - 1)
      BY <2>4, <3>1, ModRange
    <3>3. (tail + (k - 1)) % BUF_DATA_MAXSIZE = (Len(output) + (k - 1)) % BUF_DATA_MAXSIZE
      BY <2>4, <3>1, ModShift
    <3>4. Len(output) + (k - 1) = (Len(output) + k) - 1
      BY <2>4, <3>1
    <3>5. Len(output) + k \in Len(output) + 1 .. Len(input)
      BY <2>1, <2>3, <2>4
    <3> QED BY <2>3, <3>2, <3>3, <3>4, <3>5
  <2> QED BY <2>3, <2>5
<1> QED BY <1>1, InvariantHolds, PTL

-----------------------------------------------------------------------------
(* The ring implements the bounded queue.                                  *)

\* What has left is a prefix of what came in.
LEMMA OutputIsPrefix == IInv => output = SubSeq(input, 1, Len(output))
<1> SUFFICES ASSUME IInv PROVE output = SubSeq(input, 1, Len(output))
  OBVIOUS
<1>1. input \in Seq(Byte) /\ output \in Seq(Byte) /\ Len(output) <= Len(input)
  BY DEF IInv, TypeOK, FifoOrder
<1>2. \A p \in 1 .. Len(output) : output[p] = input[p]
  BY DEF IInv, FifoOrder
<1> DEFINE prefix == SubSeq(input, 1, Len(output))
<1>3. /\ prefix \in Seq(Byte) /\ Len(prefix) = Len(output)
      /\ \A p \in 1 .. Len(output) : prefix[p] = input[p]
  BY <1>1, SubSeqProperties, Len(output) \in Nat, Len(input) \in Nat
<1> HIDE DEF prefix
<1>4. \A p \in 1 .. Len(output) : output[p] = prefix[p]
  BY <1>2, <1>3
<1>5. output = prefix
  BY <1>1, <1>3, <1>4, SeqEqual
<1> QED BY <1>5 DEF prefix

\* With no byte in a loop's hands, the queue holds num_byte bytes.
LEMMA QueueLength ==
  IInv /\ Pending = 0 => Len(input) - Len(output) = num_byte
<1> SUFFICES ASSUME IInv, Pending = 0 PROVE Len(input) - Len(output) = num_byte
  OBVIOUS
<1>1. Len(input) \in Nat /\ Len(output) \in Nat /\ num_byte \in Int
  BY BufferAssumption DEF IInv, TypeOK
<1>2. Len(input) = Len(output) + Pending + num_byte
  BY DEF IInv, RingInv
<1> QED BY <1>1, <1>2

\* Each step of the ring is a step of the queue or changes neither history.
LEMMA NextRefines == IInv /\ IInv' /\ [Next]_vars => [Queue!Next]_(Queue!vars)
<1> SUFFICES ASSUME IInv, IInv', [Next]_vars PROVE [Queue!Next]_(Queue!vars)
  OBVIOUS
<1> USE BufferAssumption
<1>t. /\ num_byte \in 0 .. BUF_DATA_MAXSIZE
      /\ input \in Seq(Byte) /\ output \in Seq(Byte) /\ tmp \in Seq(Byte)
      /\ Len(input) \in Nat /\ Len(output) \in Nat
  BY DEF IInv, TypeOK
<1>p. output' = SubSeq(input', 1, Len(output')) /\ Len(output') <= Len(input')
  <2>1. (IInv => output = SubSeq(input, 1, Len(output)))'
    BY OutputIsPrefix, PTL
  <2>2. Len(output') <= Len(input')
    BY DEF IInv, FifoOrder
  <2> QED BY <2>1, <2>2
<1>1. ASSUME NEW b \in Byte, buf_put(b), Pending = 0,
             input' = Append(input, b), output' = output
      PROVE  Queue!Next
  <2>1. num_byte # BUF_DATA_MAXSIZE
    BY <1>1, <1>t DEF buf_put, buf_full, buf_available
  <2>2. Len(input) - Len(output) < BUF_DATA_MAXSIZE
    BY <1>1, <1>t, <2>1, QueueLength
  <2>3. Queue!Accept(b)
    BY <1>1, <2>2 DEF Queue!Accept
  <2> QED BY <2>3 DEF Queue!Next
<1>2. ASSUME NEW n \in 0 .. BUF_DATA_MAXSIZE, input' = input,
             Len(output') = Len(output) + n
      PROVE  Queue!Next
  <2>1. Queue!Deliver(n)
    BY <1>2, <1>p, <1>t DEF Queue!Deliver
  <2> QED BY <2>1 DEF Queue!Next
<1>3. ASSUME NEW b \in Byte, Put(b) PROVE Queue!Next
  <2>1. buf_put(b) /\ input' = Append(input, b) /\ output' = output /\ Pending = 0
    BY <1>3 DEF Put, Pending
  <2> QED BY <1>1, <2>1
<1>4. CASE Get
  <2>1. input' = input /\ output' = Append(output, data[tail])
    BY <1>4 DEF Get
  <2>2. Len(output') = Len(output) + 1
    BY <1>t, <2>1
  <2>3. 1 \in 0 .. BUF_DATA_MAXSIZE
    OBVIOUS
  <2> QED BY <1>2, <2>1, <2>2, <2>3
<1>5. CASE WriteByte
  <2>1. /\ buf_put(tmp[cnt + 1]) /\ input' = Append(input, tmp[cnt + 1])
        /\ output' = output /\ Pending = 0
    BY <1>5 DEF WriteByte, Pending
  <2>2. cnt + 1 \in 1 .. Len(tmp)
    BY <1>5 DEF WriteByte, IInv, TypeOK
  <2>3. tmp[cnt + 1] \in Byte
    BY <1>t, <2>2
  <2> QED BY <1>1, <2>1, <2>3
<1>6. ASSUME NEW n \in 0 .. Len(tmp), Sent(n) PROVE Queue!Next
  <2>1. /\ input' = input /\ output' = output \o SubSeq(tmp, 1, n) /\ phase = "read"
    BY <1>6 DEF Sent
  <2>2. Len(tmp) \in Nat /\ Len(tmp) <= BUF_DATA_MAXSIZE
    <3>1. Pending = Len(tmp)
      BY <2>1 DEF Pending
    <3>2. Pending + num_byte <= BUF_DATA_MAXSIZE
      BY DEF IInv, RingInv
    <3> QED BY <1>t, <3>1, <3>2
  <2>3. SubSeq(tmp, 1, n) \in Seq(Byte) /\ Len(SubSeq(tmp, 1, n)) = n
    BY <1>t, <2>2, SubSeqProperties
  <2>4. Len(output') = Len(output) + n
    BY <1>t, <2>1, <2>3, ConcatProperties
  <2>5. n \in 0 .. BUF_DATA_MAXSIZE
    BY <2>2
  <2> QED BY <1>2, <2>1, <2>4, <2>5
<1>7. CASE Reset
  BY <1>7 DEF Reset, Queue!Next, Queue!Clear
<1>8. ASSUME UNCHANGED <<input, output>> PROVE UNCHANGED Queue!vars
  BY <1>8 DEF Queue!vars
<1>9. ASSUME NEW n \in 0 .. BUF_DATA_MAXSIZE, NEW msg \in [1 .. n -> Byte], WriteBegin(msg)
      PROVE  UNCHANGED <<input, output>>
  BY <1>9 DEF WriteBegin
<1>10. CASE SendBegin \/ ReadByte \/ Putback \/ LoopEnd \/ UNCHANGED vars
  <2>1. UNCHANGED <<input, output>>
    BY <1>10 DEF SendBegin, ReadByte, Putback, LoopEnd, vars
  <2> QED BY <1>8, <2>1
<1> QED BY <1>3, <1>4, <1>5, <1>6, <1>7, <1>8, <1>9, <1>10 DEF Next

\* Seen from outside, cbuf_t with its send loops is a bounded byte queue:
\* the putback never shows.
THEOREM ImplementsQueue == Spec => QueueSpec
<1>1. Init => Queue!Init
  BY DEF Init, Queue!Init
<1>2. IInv /\ IInv' /\ [Next]_vars => [Queue!Next]_(Queue!vars)
  BY NextRefines
<1> QED BY <1>1, <1>2, InvariantHolds, PTL DEF Spec, QueueSpec, Queue!Spec
=============================================================================
