----------------------- MODULE HeaderReaderProperties -----------------------
(***************************************************************************)
(* What cutting a stream into headers must mean, stated with substrings    *)
(* and without any automaton.                                              *)
(***************************************************************************)
EXTENDS HeaderReader

Terminator == <<CL, RF, CL, RF>>

\* The first k bytes of the terminator are the last k of the first n of p.
EndsWith(p, n, k) ==
  n >= k /\ \A j \in 1 .. k : p[n - k + j] = Terminator[j]

\* Every variable has the type the code gives it, and parse_buf never
\* overflows.
TypeOK ==
  /\ pc \in {"wait", "read", "parse", "overflow", "refused"}
  /\ receiving_buffer \in Seq(Byte)
  /\ parse_buf \in Seq(Byte) /\ Len(parse_buf) <= BUF_DATA_MAXSIZE
  /\ header_term_token_status \in 0 .. 3
  /\ i \in 0 .. Len(parse_buf) /\ state \in 0 .. 4
  /\ done \in Seq(Byte) /\ received \in Seq(Byte)

\* While a header is being collected, header_term_token_status is the length
\* of the longest beginning of CR LF CR LF that the bytes collected end with,
\* wherever the pieces received were cut (message.h:46: "when it is 4, it
\* means \r\n\r\n is matched, 3 means \r\n\r is matched and etc").
StatusIsLongestMatch ==
  pc \in {"wait", "read"} =>
    /\ EndsWith(parse_buf, Len(parse_buf), header_term_token_status)
    /\ \A k \in header_term_token_status + 1 .. 4 :
         ~EndsWith(parse_buf, Len(parse_buf), k)

\* No header is collected beyond its first terminator: no terminator ends
\* before the last byte of parse_buf, and one ends there when it is parsed.
StopsAtTerminator ==
  /\ \A n \in 1 .. Len(parse_buf) : EndsWith(parse_buf, n, 4) =>
       n = Len(parse_buf) /\ pc \in {"parse", "refused"}
  /\ pc \in {"parse", "refused"} => EndsWith(parse_buf, Len(parse_buf), 4)

\* The two recognisers never cut the stream at different places: parse finds
\* the terminator after the last byte collected or not at all.
ParseAgrees ==
  pc = "parse" /\ state = HEADER_TERM_STATUS => i = Len(parse_buf)

\* parse only fails to find the terminator that read_header_data found when
\* some CR in front of it is followed by another CR.
RefusesOnlyDoubledCr ==
  pc = "refused" =>
    \E n \in 1 .. Len(parse_buf) - 1 : parse_buf[n] = CL /\ parse_buf[n + 1] = CL

\* No byte is lost, doubled or moved between the headers of a connection,
\* however many of them arrive together.
NoByteLost == received = done \o parse_buf \o receiving_buffer
=============================================================================
