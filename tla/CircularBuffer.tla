--------------------------- MODULE CircularBuffer ---------------------------
(***************************************************************************)
(* The byte ring buffer cbuf_t of message.c, together with the only way    *)
(* its users ever give bytes back: send_to_peer and send_to_CGI_process    *)
(* read every byte out (buf_read), offer the bytes to the kernel, and put  *)
(* back the suffix the kernel did not take (buf_putback, which moves tail  *)
(* backwards and trusts that the cell still holds the byte).               *)
(*                                                                         *)
(* The C loops are modelled one byte per step; `phase' says which loop the *)
(* single thread is in.  `input' and `output' are histories: the bytes the *)
(* buffer accepted since its last buf_reset, and those that left for good. *)
(***************************************************************************)
EXTENDS Naturals, Sequences

CONSTANTS
  Byte,             \* the byte values told apart
  BUF_DATA_MAXSIZE, \* capacity of the ring
  MaxBytes          \* bound of the model: bytes accepted between two resets

ASSUME BufferAssumption ==
  /\ BUF_DATA_MAXSIZE \in Nat \ {0}
  /\ MaxBytes \in Nat

VARIABLES
  data,      \* the cells
  head,      \* where the next byte is written
  tail,      \* where the next byte is read
  num_byte,  \* number of bytes stored
  phase,     \* the loop being run
  tmp,       \* the loop's temporary array
  cnt,       \* the loop's counter
  nsent,     \* what the write(2)/send(2) of the current loop returned
  input,     \* history of accepted bytes
  output     \* history of delivered bytes

cbuf == <<data, head, tail, num_byte>>
loop == <<phase, tmp, cnt, nsent>>
vars == <<data, head, tail, num_byte, phase, tmp, cnt, nsent, input, output>>

Cells == 0 .. BUF_DATA_MAXSIZE - 1

Phases == {"idle", "write", "read", "putback"}
-----------------------------------------------------------------------------
(* The operations of cbuf_t, each a conjunct on the four fields.           *)

buf_available == BUF_DATA_MAXSIZE - num_byte
buf_empty == buf_available = BUF_DATA_MAXSIZE
buf_full == buf_available = 0

buf_reset ==
  /\ head' = 0
  /\ tail' = 0
  /\ num_byte' = 0
  /\ UNCHANGED data

\* Slip: the byte is stored in the cell after head.
buf_put_after_head(b) ==
  /\ ~buf_full
  /\ data' = [data EXCEPT ![(head + 1) % BUF_DATA_MAXSIZE] = b]
  /\ head' = (head + 1) % BUF_DATA_MAXSIZE
  /\ num_byte' = num_byte + 1
  /\ UNCHANGED tail

buf_put(b) ==
  /\ ~buf_full
  /\ data' = [data EXCEPT ![head] = b]
  /\ head' = (head + 1) % BUF_DATA_MAXSIZE
  /\ num_byte' = num_byte + 1
  /\ UNCHANGED tail

\* The byte handed to the caller is data[tail].
buf_get ==
  /\ ~buf_empty
  /\ tail' = (tail + 1) % BUF_DATA_MAXSIZE
  /\ num_byte' = num_byte - 1
  /\ UNCHANGED <<data, head>>

\* Slip: tail is not taken around the ring.
buf_putback_no_wrap ==
  /\ ~buf_full
  /\ tail' = tail - 1
  /\ num_byte' = num_byte + 1
  /\ UNCHANGED <<data, head>>

\* Slip: the byte is counted again, but tail stays behind it.
buf_putback_count_only ==
  /\ ~buf_full
  /\ num_byte' = num_byte + 1
  /\ UNCHANGED <<data, head, tail>>

buf_putback ==
  /\ ~buf_full
  /\ tail' = (IF tail = 0 THEN BUF_DATA_MAXSIZE ELSE tail) - 1
  /\ num_byte' = num_byte + 1
  /\ UNCHANGED <<data, head>>
-----------------------------------------------------------------------------
Init ==
  /\ data \in [Cells -> Byte]          \* malloc does not clear the cells
  /\ head = 0
  /\ tail = 0
  /\ num_byte = 0
  /\ phase = "idle"
  /\ tmp = <<>>
  /\ cnt = 0
  /\ nsent = 0
  /\ input = <<>>
  /\ output = <<>>

\* A caller stores one byte.
Put(b) ==
  /\ phase = "idle"
  /\ Len(input) < MaxBytes
  /\ buf_put(b)
  /\ input' = Append(input, b)
  /\ UNCHANGED <<phase, tmp, cnt, nsent, output>>

\* A caller consumes one byte.
Get ==
  /\ phase = "idle"
  /\ buf_get
  /\ output' = Append(output, data[tail])
  /\ UNCHANGED <<phase, tmp, cnt, nsent, input>>

\* Slip: a message is not compared with the room that is left.
WriteBeginUnchecked(msg) ==
  /\ phase = "idle"
  /\ Len(input) + Len(msg) <= MaxBytes
  /\ phase' = "write"
  /\ tmp' = msg
  /\ cnt' = 0
  /\ nsent' = 0
  /\ UNCHANGED <<data, head, tail, num_byte, input, output>>

\* buf_write accepts a message only as a whole; otherwise it returns -1
\* and stores nothing.
WriteBegin(msg) ==
  /\ phase = "idle"
  /\ Len(input) + Len(msg) <= MaxBytes
  /\ Len(msg) <= buf_available
  /\ phase' = "write"
  /\ tmp' = msg
  /\ cnt' = 0
  /\ nsent' = 0
  /\ UNCHANGED <<data, head, tail, num_byte, input, output>>

WriteByte ==
  /\ phase = "write"
  /\ cnt < Len(tmp)
  /\ buf_put(tmp[cnt + 1])
  /\ input' = Append(input, tmp[cnt + 1])
  /\ cnt' = cnt + 1
  /\ UNCHANGED <<phase, tmp, nsent, output>>

\* A sender empties the buffer into its temporary array.
SendBegin ==
  /\ phase = "idle"
  /\ ~buf_empty
  /\ phase' = "read"
  /\ tmp' = <<>>
  /\ cnt' = 0
  /\ nsent' = 0
  /\ UNCHANGED <<data, head, tail, num_byte, input, output>>

ReadByte ==
  /\ phase = "read"
  /\ buf_get
  /\ tmp' = Append(tmp, data[tail])
  /\ UNCHANGED <<phase, cnt, nsent, input, output>>

\* Slip: everything offered counts as sent.
SentAll(n) ==
  /\ phase = "read"
  /\ buf_empty
  /\ phase' = "putback"
  /\ nsent' = n
  /\ cnt' = n
  /\ output' = output \o tmp
  /\ UNCHANGED <<data, head, tail, num_byte, tmp, input>>

\* The kernel takes the first n bytes (0 stands for EAGAIN as well).
Sent(n) ==
  /\ phase = "read"
  /\ buf_empty
  /\ phase' = "putback"
  /\ nsent' = n
  /\ cnt' = n
  /\ output' = output \o SubSeq(tmp, 1, n)
  /\ UNCHANGED <<data, head, tail, num_byte, tmp, input>>

\* Slip: the counter of the loop is forgotten.
PutbackUncounted ==
  /\ phase = "putback"
  /\ cnt < Len(tmp)
  /\ buf_putback
  /\ UNCHANGED <<phase, tmp, cnt, nsent, input, output>>

Putback ==
  /\ phase = "putback"
  /\ cnt < Len(tmp)
  /\ buf_putback
  /\ cnt' = cnt + 1
  /\ UNCHANGED <<phase, tmp, nsent, input, output>>

\* Slip: the loop stops one byte too early.
LoopEndEarly ==
  /\ phase \in {"write", "putback"}
  /\ cnt + 1 >= Len(tmp)
  /\ phase' = "idle"
  /\ UNCHANGED <<data, head, tail, num_byte, tmp, cnt, nsent, input, output>>

\* The write loop or the putback loop has run to its end.
LoopEnd ==
  /\ phase \in {"write", "putback"}
  /\ cnt = Len(tmp)
  /\ phase' = "idle"
  /\ UNCHANGED <<data, head, tail, num_byte, tmp, cnt, nsent, input, output>>

\* The send failed, or the connection is closed for another reason: the
\* buffers of the slot are reset and a new history begins.
Reset ==
  /\ \/ phase = "idle"
     \/ phase = "read" /\ buf_empty
  /\ buf_reset
  /\ phase' = "idle"
  /\ input' = <<>>
  /\ output' = <<>>
  /\ UNCHANGED <<tmp, cnt, nsent>>

Next ==
  \/ \E b \in Byte : Put(b)
  \/ Get
  \/ \E n \in 0 .. BUF_DATA_MAXSIZE : \E msg \in [1 .. n -> Byte] : WriteBegin(msg)
  \/ WriteByte
  \/ SendBegin
  \/ ReadByte
  \/ \E n \in 0 .. Len(tmp) : Sent(n)
  \/ Putback
  \/ LoopEnd
  \/ Reset

Spec == Init /\ [][Next]_vars

\* Every loop of the C code runs to its end; what the callers do next is
\* theirs to choose.
LoopStep ==
  \/ WriteByte
  \/ ReadByte
  \/ \E n \in 0 .. Len(tmp) : Sent(n)
  \/ Putback
  \/ LoopEnd

FairSpec == Spec /\ WF_vars(LoopStep)
-----------------------------------------------------------------------------
(* Properties.                                                             *)

TypeOK ==
  /\ data \in [Cells -> Byte]
  /\ head \in Cells
  /\ tail \in Cells
  /\ num_byte \in 0 .. BUF_DATA_MAXSIZE
  /\ phase \in Phases
  /\ tmp \in Seq(Byte)
  /\ cnt \in 0 .. Len(tmp)
  /\ nsent \in 0 .. Len(tmp)
  /\ input \in Seq(Byte)
  /\ output \in Seq(Byte)

\* Number of bytes read out of the ring that are neither delivered nor put
\* back yet.
Pending ==
  CASE phase = "read"    -> Len(tmp)
    [] phase = "putback" -> Len(tmp) - cnt
    [] OTHER             -> 0

\* Bytes leave in the order in which they came, unchanged, whatever mix of
\* single gets, partial sends and putbacks took them out (send_to_peer,
\* send_to_CGI_process).
FifoOrder ==
  /\ Len(output) <= Len(input)
  /\ \A p \in 1 .. Len(output) : output[p] = input[p]

\* Between the loops every accepted byte is either delivered or still in the
\* ring, in order, so a putback has restored exactly the bytes that the
\* kernel did not take.
Conservation ==
  phase = "idle" =>
    /\ Len(input) = Len(output) + num_byte
    /\ \A k \in 1 .. num_byte :
         data[(tail + k - 1) % BUF_DATA_MAXSIZE] = input[Len(output) + k]

\* The loops of buf_write, buf_read and the putback loop never meet a
\* failing buf_put, buf_get or buf_putback (the assert of message.c:323 and
\* message.c:460).
LoopsNeverFail ==
  /\ phase = "write" /\ cnt < Len(tmp) => ~buf_full
  /\ phase = "putback" /\ cnt < Len(tmp) => ~buf_full

\* Every cell between the first undelivered byte and the last accepted one
\* still holds its byte, also those that buf_get has passed: byte p lives in
\* cell (p - 1) % BUF_DATA_MAXSIZE.  This is what buf_putback relies on.
RingInv ==
  /\ head = Len(input) % BUF_DATA_MAXSIZE
  /\ num_byte <= Len(input)
  /\ tail = (Len(input) - num_byte) % BUF_DATA_MAXSIZE
  /\ Len(input) = Len(output) + Pending + num_byte
  /\ Pending + num_byte <= BUF_DATA_MAXSIZE
  /\ \A p \in Len(output) + 1 .. Len(input) :
       data[(p - 1) % BUF_DATA_MAXSIZE] = input[p]
  /\ phase = "read" =>
       \A k \in 1 .. Len(tmp) : tmp[k] = input[Len(output) + k]
  /\ phase = "write" => Len(tmp) - cnt + num_byte <= BUF_DATA_MAXSIZE

IInv == TypeOK /\ FifoOrder /\ RingInv

\* A loop that was entered is left: the thread gets back to its caller.
LoopsEnd == phase # "idle" ~> phase = "idle"

\* The ring implements the bounded queue.
Queue == INSTANCE ByteQueue WITH
           accepted <- input, delivered <- output,
           Capacity <- BUF_DATA_MAXSIZE

QueueSpec == Queue!Spec
=============================================================================
