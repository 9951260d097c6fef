---------------------------- MODULE HeaderReader ----------------------------
(***************************************************************************)
(* How one connection cuts the bytes it receives into request headers.     *)
(* read_header_data (http.c) looks for CR LF CR LF with one recogniser;    *)
(* parse (parser/parse.c) looks for it again in what was collected, with   *)
(* another.  Requests have no body here, and what yyparse thinks of the    *)
(* lines is left out: a header that parse finds terminated is accepted.    *)
(***************************************************************************)
EXTENDS Naturals, Sequences

CONSTANTS
  Byte,             \* the byte values told apart
  CL, RF,           \* '\r' and '\n'
  BUF_DATA_MAXSIZE, \* size of parse_buf
  MaxBytes          \* how many bytes a connection receives (bound of the model)

ASSUME ReaderAssumption ==
  /\ CL \in Byte /\ RF \in Byte /\ CL # RF
  /\ BUF_DATA_MAXSIZE \in Nat \ {0}
  /\ MaxBytes \in Nat

VARIABLES
  pc,                       \* where the connection is in handle_http
  receiving_buffer,
  parse_buf,                \* parse_buf[0 .. parse_buf_idx - 1]
  header_term_token_status,
  i, state,                 \* locals of parse
  done,                     \* history: the headers accepted so far, in a row
  received                  \* history: all the bytes of the connection

vars == <<pc, receiving_buffer, parse_buf, header_term_token_status, i, state,
          done, received>>

HEADER_TERM_STATUS == 4

Init ==
  /\ pc = "wait"
  /\ receiving_buffer = <<>> /\ parse_buf = <<>>
  /\ header_term_token_status = 0
  /\ i = 0 /\ state = 0
  /\ done = <<>> /\ received = <<>>

\* receive_from_peer, between two calls of handle_http.
Receive(b) ==
  /\ pc = "wait"
  /\ Len(received) < MaxBytes
  /\ receiving_buffer' = Append(receiving_buffer, b)
  /\ received' = Append(received, b)
  /\ UNCHANGED <<pc, parse_buf, header_term_token_status, i, state, done>>

HandleHttp ==
  /\ pc = "wait"
  /\ receiving_buffer # <<>>
  /\ pc' = "read"
  /\ UNCHANGED <<receiving_buffer, parse_buf, header_term_token_status, i, state,
                 done, received>>
-----------------------------------------------------------------------------
\* Slip: after CR LF CR, another CR starts over from nothing.
NextStatusDropsCr(s, data) ==
  CASE s \in {0, 1} /\ data = CL -> 1
    [] s = 1 /\ data = RF -> 2
    [] s = 2 /\ data = CL -> 3
    [] s = 3 /\ data = RF -> HEADER_TERM_STATUS
    [] OTHER -> 0

\* Slip: after CR, another CR starts over from nothing.
NextStatusMissesCr(s, data) ==
  CASE s = 0 /\ data = CL -> 1
    [] s = 1 /\ data = RF -> 2
    [] s = 2 /\ data = CL -> 3
    [] s = 3 /\ data = RF -> HEADER_TERM_STATUS
    [] s = 3 /\ data = CL -> 1
    [] OTHER -> 0

\* The recogniser of read_header_data.
NextStatus(s, data) ==
  CASE s = 0 /\ data = CL -> 1
    [] s = 1 /\ data = RF -> 2
    [] s = 1 /\ data = CL -> 1
    [] s = 2 /\ data = CL -> 3
    [] s = 3 /\ data = RF -> HEADER_TERM_STATUS
    [] s = 3 /\ data = CL -> 1
    [] OTHER -> 0

\* Slip: the length of parse_buf is never looked at.
ReadByteUnbounded ==
  /\ pc = "read"
  /\ receiving_buffer # <<>>
  /\ LET data == Head(receiving_buffer)
         s == NextStatus(header_term_token_status, data)
     IN /\ receiving_buffer' = Tail(receiving_buffer)
        /\ parse_buf' = Append(parse_buf, data)
        /\ header_term_token_status' = IF s = HEADER_TERM_STATUS THEN 0 ELSE s
        /\ pc' = IF s = HEADER_TERM_STATUS THEN "parse" ELSE "read"
  /\ i' = 0 /\ state' = 0
  /\ UNCHANGED <<done, received>>

\* One turn of the loop of read_header_data; the last one also resets the
\* status and enters parse.
ReadByte ==
  /\ pc = "read"
  /\ receiving_buffer # <<>>
  /\ LET data == Head(receiving_buffer)
         s == NextStatus(header_term_token_status, data)
     IN /\ receiving_buffer' = Tail(receiving_buffer)
        /\ parse_buf' = Append(parse_buf, data)
        /\ header_term_token_status' = IF s = HEADER_TERM_STATUS THEN 0 ELSE s
        /\ pc' = IF s = HEADER_TERM_STATUS THEN "parse"
                 ELSE IF Len(parse_buf) + 1 = BUF_DATA_MAXSIZE THEN "overflow"
                 ELSE "read"
  /\ i' = 0 /\ state' = 0
  /\ UNCHANGED <<done, received>>

\* EMPTY_RECV_BUF
NothingToRead ==
  /\ pc = "read"
  /\ receiving_buffer = <<>>
  /\ pc' = "wait"
  /\ UNCHANGED <<receiving_buffer, parse_buf, header_term_token_status, i, state,
                 done, received>>
-----------------------------------------------------------------------------
\* Slip: the second CR is not expected.
ExpectedOneCr(s) == IF s = 0 THEN CL ELSE RF

\* The recogniser of parse: a byte that is not the expected one sends it back
\* to the start, and is not looked at again.
Expected(s) == IF s \in {0, 2} THEN CL ELSE RF
\* Slip: an unexpected byte is skipped.
NextStateSkips(s, ch) == IF ch = Expected(s) THEN s + 1 ELSE s

NextState(s, ch) == IF ch = Expected(s) THEN s + 1 ELSE 0

ParseByte ==
  /\ pc = "parse"
  /\ state # HEADER_TERM_STATUS
  /\ i < Len(parse_buf)
  /\ i' = i + 1
  /\ state' = NextState(state, parse_buf[i + 1])
  /\ UNCHANGED <<pc, receiving_buffer, parse_buf, header_term_token_status, done,
                 received>>

\* Slip: what was received behind the header is dropped with it.
ParseAcceptsDropsRest ==
  /\ pc = "parse"
  /\ state = HEADER_TERM_STATUS
  /\ done' = done \o parse_buf
  /\ parse_buf' = <<>> /\ receiving_buffer' = <<>>
  /\ header_term_token_status' = 0
  /\ pc' = "wait"
  /\ i' = 0 /\ state' = 0
  /\ UNCHANGED received

\* The request is answered; reset_http_task empties parse_buf and the task
\* waits for the next header, which may have been received already.
ParseAccepts ==
  /\ pc = "parse"
  /\ state = HEADER_TERM_STATUS
  /\ done' = done \o parse_buf
  /\ parse_buf' = <<>>
  /\ header_term_token_status' = 0
  /\ pc' = "wait"
  /\ i' = 0 /\ state' = 0
  /\ UNCHANGED <<receiving_buffer, received>>

ParseRefuses ==
  /\ pc = "parse"
  /\ state # HEADER_TERM_STATUS
  /\ i = Len(parse_buf)
  /\ pc' = "refused"
  /\ UNCHANGED <<receiving_buffer, parse_buf, header_term_token_status, i, state,
                 done, received>>

\* CLOSE_CONN_IMMEDIATELY, and another connection in the same slot.
Close ==
  /\ pc \in {"overflow", "refused"}
  /\ pc' = "wait"
  /\ receiving_buffer' = <<>> /\ parse_buf' = <<>>
  /\ header_term_token_status' = 0
  /\ i' = 0 /\ state' = 0
  /\ done' = <<>> /\ received' = <<>>

Next ==
  \/ \E b \in Byte : Receive(b)
  \/ HandleHttp \/ ReadByte \/ NothingToRead
  \/ ParseByte \/ ParseAccepts \/ ParseRefuses \/ Close

Spec == Init /\ [][Next]_vars
=============================================================================
