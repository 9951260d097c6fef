-------------------------------- MODULE Http --------------------------------
(***************************************************************************)
(* http.c: handle_http, one action for each state of its while loop (with  *)
(* every function the state calls), on the task of the current slot.       *)
(* The request being answered is not in the task: it is the object that    *)
(* the global variable `request' points to.                                *)
(***************************************************************************)
EXTENDS Message

ErrorCodes == {400, 404, 411, 500, 501, 505}

\* What generate_nonbody_response writes into response_buf: an answer about
\* request r.  The 200 of a static POST has no blank line after it.
NonBodyResponse(r, code) ==
  IF code = 200 THEN <<Token(r, "head", 200)>>
  ELSE <<Token(r, "head", code), Token(r, "end", code)>>

\* A file as fgetc delivers it: its bytes, then the EOF that is put into the
\* buffer like a byte.
FileStream(r) ==
  [i \in 1 .. FileLen + 1 |->
     IF i <= FileLen THEN Token(r, "body", i) ELSE Token(r, "eof", 0)]

InHandler(state) == pc = "http" /\ Task.state = state

\* handle_http goes on with its while loop.
Continue(t) ==
  /\ connection_list' = [connection_list EXCEPT ![cur].http_task = t]
  /\ UNCHANGED <<loop, world>>

\* handle_http returns KEEP_CONN or CLOSE_CONN, the peer being p by then.
Return(p, ret) ==
  /\ connection_list' =
       [connection_list EXCEPT
          ![cur] = IF ret = "CLOSE_CONN" THEN [p EXCEPT !.close_conn = TRUE] ELSE p]
  /\ NextSlot

\* handle_http returns CLOSE_CONN_IMMEDIATELY.
ReturnCloseNow ==
  /\ close_client_connection(cur, net)
  /\ NextSlot
  /\ UNCHANGED <<script, backlog, proc>>
-----------------------------------------------------------------------------
(* RECV_HEADER_STATE: read_header_data moves tokens into parse_buf until   *)
(* the header is complete, the receiving buffer is empty, or parse_buf is  *)
(* full.                                                                   *)

Incoming == Take(Me.receiving_buffer,
                 Least(Len(Me.receiving_buffer), Room(Task.parse_buf)))

EndsHeader == {i \in 1 .. Len(Incoming) : Incoming[i].part = "end"}

\* EMPTY_RECV_BUF
HeaderIncomplete ==
  /\ InHandler("RECV_HEADER_STATE")
  /\ EndsHeader = {}
  /\ Len(Incoming) < Room(Task.parse_buf)
  /\ Return([Me EXCEPT !.receiving_buffer = <<>>,
                       !.http_task.parse_buf = @ \o Incoming], "KEEP_CONN")
  /\ UNCHANGED <<request, execs, world>>

\* PARSER_BUF_OVERFLOW
HeaderTooLong ==
  /\ InHandler("RECV_HEADER_STATE")
  /\ EndsHeader = {}
  /\ Len(Incoming) = Room(Task.parse_buf)
  /\ ReturnCloseNow
  /\ UNCHANGED <<request, streams>>

HeaderSize == CHOOSE i \in EndsHeader : \A j \in EndsHeader : i <= j

HeaderComplete == InHandler("RECV_HEADER_STATE") /\ EndsHeader # {}

Header == Task.parse_buf \o Take(Incoming, HeaderSize)

\* parse accepts what is exactly one header of a well-formed request.
Parses ==
  /\ Len(Header) = 2
  /\ Header[1].part = "head"
  /\ Header[1].req = Header[2].req
  /\ RequestOf(Header[1].req).method # "MALFORMED"

\* parse returns NULL, and so request becomes NULL.
HeaderRefused ==
  /\ HeaderComplete
  /\ ~Parses
  /\ request' = NULL
  /\ ReturnCloseNow
  /\ UNCHANGED streams

\* Slip: a POST does not wait for its body.
DispatchSkipsBody(t, q) ==
  IF q.method = "OTHER" \/ (q.method = "POST" /\ ~HasLength(q))
    THEN [t EXCEPT !.response_code = IF q.method = "OTHER" THEN 501 ELSE 411,
                   !.state = "GENERATE_HEADER_STATE"]
    ELSE [t EXCEPT !.method_type = q.method, !.state = "CHECK_CGI"]

\* The task after the method and the header fields are looked at.
Dispatch(t, q) ==
  CASE q.method \in {"GET", "HEAD"} ->
         [t EXCEPT !.method_type = q.method, !.state = "CHECK_CGI"]
    [] q.method = "POST" /\ HasLength(q) ->
         [t EXCEPT !.method_type = "POST", !.body_bytes_num = q.length,
                   !.state = "RECV_BODY_STATE"]
    [] q.method = "POST" /\ ~HasLength(q) ->
         [t EXCEPT !.method_type = "POST", !.response_code = 411,
                   !.state = "GENERATE_HEADER_STATE"]
    [] OTHER ->
         [t EXCEPT !.response_code = 501, !.state = "GENERATE_HEADER_STATE"]

HeaderParsed ==
  /\ HeaderComplete
  /\ Parses
  /\ LET r == Header[1].req
         t == [Task EXCEPT !.parse_buf = Header, !.own = r,
                           !.last_request = RequestOf(r).close]
     IN /\ request' = [of |-> r, freed |-> FALSE]
        /\ connection_list' =
             [connection_list EXCEPT
                ![cur] = [Me EXCEPT !.http_task = Dispatch(t, RequestOf(r)),
                                    !.receiving_buffer = Drop(@, HeaderSize)]]
  /\ UNCHANGED <<execs, loop, world>>
-----------------------------------------------------------------------------
\* RECV_BODY_STATE
ReceiveBody ==
  /\ InHandler("RECV_BODY_STATE")
  /\ LET n == Least(Len(Me.receiving_buffer),
                    Task.body_bytes_num - Len(Task.post_body))
         p == [Me EXCEPT !.receiving_buffer = Drop(@, n),
                         !.http_task.post_body =
                            @ \o Take(Me.receiving_buffer, n)]
     IN IF Len(p.http_task.post_body) < Task.body_bytes_num
          THEN Return(p, "KEEP_CONN")
          ELSE /\ connection_list' = [connection_list EXCEPT
                    ![cur] = [p EXCEPT !.http_task.state = "CHECK_CGI"]]
               /\ UNCHANGED loop
  /\ UNCHANGED <<request, execs, world>>

\* GENERATE_HEADER_STATE.  The answer is about the request of this task.
GenerateHeader ==
  /\ InHandler("GENERATE_HEADER_STATE")
  /\ Continue([Task EXCEPT
       !.response_buf = @ \o NonBodyResponse(Task.own, Task.response_code),
       !.state = "SEND_HEADER_STATE"])
  /\ UNCHANGED <<request, execs>>

\* SEND_HEADER_STATE.  send_nonbody_reponse has already taken a token out of
\* response_buf when it finds the sending buffer full, and then returns
\* SEND_HEADER_STATE; its caller would wait only if it returned
\* SEND_BODY_STATE, so it goes on to the next state.
AfterHeader(t) ==
  IF t.response_code \notin ErrorCodes /\ t.method_type = "GET"
    THEN "SEND_BODY_STATE" ELSE "FINISHED_STATE"

\* Slip: the handler returns once the header is in the sending buffer, and
\* other slots run before the request is finished.
SendHeaderYields ==
  /\ InHandler("SEND_HEADER_STATE")
  /\ LET n == Least(Len(Task.response_buf), Room(Me.sending_buffer))
     IN Return([Me EXCEPT
                  !.sending_buffer = @ \o Take(Task.response_buf, n),
                  !.http_task.response_buf = Drop(@, n),
                  !.http_task.state = AfterHeader(Task)], "KEEP_CONN")
  /\ UNCHANGED <<request, execs, world>>

SendHeader ==
  /\ InHandler("SEND_HEADER_STATE")
  /\ LET n == Least(Len(Task.response_buf), Room(Me.sending_buffer))
     IN connection_list' =
          [connection_list EXCEPT
             ![cur] = [Me EXCEPT
               !.sending_buffer = @ \o Take(Task.response_buf, n),
               !.http_task.response_buf = Drop(@, Least(Len(@), n + 1)),
               !.http_task.state = AfterHeader(Task)]]
  /\ UNCHANGED <<request, execs, loop, world>>
-----------------------------------------------------------------------------
(* CHECK_CGI looks at the object behind the global pointer.                *)

Wanted == RequestOf(request.of)

IsRead == Task.method_type \in {"GET", "HEAD"}

\* fopen succeeds, on a directory too: it needs permission and a descriptor.
FileOpens ==
  IsRead /\ Wanted.target \in {"file", "dir"} /\ OpenCount < OPEN_MAX

\* generate_GET_header: a missing path leaves response_buf empty; when fopen
\* fails the 200 header is there already.
StaticGet ==
  LET r == request.of
      ok == <<Token(r, "head", 200), Token(r, "end", 200)>>
  IN CASE Wanted.target = "missing" ->
            [Task EXCEPT !.response_code = 404, !.state = "GENERATE_HEADER_STATE"]
       [] FileOpens ->
            [Task EXCEPT !.response_buf = @ \o ok, !.response_code = 200,
                         !.fp = [of |-> r, pos |-> 0],
                         !.state = "SEND_HEADER_STATE"]
       [] OTHER ->
            [Task EXCEPT !.response_buf = @ \o ok, !.response_code = 500,
                         !.state = "GENERATE_HEADER_STATE"]

CheckStatic ==
  /\ InHandler("CHECK_CGI")
  /\ request # NULL
  /\ Wanted.target # "cgi"
  /\ connection_list' =
       [connection_list EXCEPT
          ![cur].http_task =
             IF IsRead THEN StaticGet
             ELSE [Task EXCEPT !.response_code = 200,
                               !.state = "GENERATE_HEADER_STATE"]]
  /\ streams' = IF FileOpens THEN streams \cup {Task.own} ELSE streams
  /\ UNCHANGED <<request, execs, loop, script, net, backlog, proc>>

\* The environment of the child is made from the global request.
build_CGI_param == request.of

\* The executor gets address a from malloc.  A body larger than cgi_buffer is
\* not stored at all; the child starts with its two pipes empty, and with a
\* copy of every socket, since nothing closes them in the child or on execve.
start_CGI_script(a, post_body) ==
  /\ execs' =
       [execs EXCEPT
          ![a] = [live |-> TRUE, pid |-> Task.own,
                  cgi_buffer |-> IF Len(post_body) <= BUF_DATA_MAXSIZE
                                   THEN post_body ELSE <<>>]]
  /\ proc' = [proc EXCEPT ![Task.own] =
                 [@ EXCEPT !.st = "run", !.env = build_CGI_param,
                           !.holds = {Peer(s).socket : s \in Connected}]]

\* The two calls of pipe() open four descriptors, two of them for a moment.
PipesOpen == OpenCount + 4 <= OPEN_MAX

CheckCgi ==
  /\ InHandler("CHECK_CGI")
  /\ request # NULL
  /\ Wanted.target = "cgi"
  /\ Me.cgi_executor = NULL
  /\ PipesOpen
  /\ \E a \in {x \in ExecAddr : ~execs[x].live} :
       /\ start_CGI_script(a, IF Wanted.method = "POST" THEN Task.post_body ELSE <<>>)
       /\ Return([Me EXCEPT !.cgi_executor = a,
                            !.http_task.state = "PROCESSING_CGI"],
                 IF Task.last_request THEN "CLOSE_CONN" ELSE "KEEP_CONN")
  /\ UNCHANGED <<request, script, net, backlog, streams>>

\* PROCESSING_CGI: nothing to do until the child is done.
ProcessingCgi ==
  /\ InHandler("PROCESSING_CGI")
  /\ NextSlot
  /\ UNCHANGED <<peers, world>>

\* Slip: the handler waits in its loop for room in the sending buffer.
SendBodyWaits ==
  /\ InHandler("SEND_BODY_STATE")
  /\ RequestOf(Task.fp.of).target # "dir"
  /\ LET file == FileStream(Task.fp.of)
         n == Least(Len(file) - Task.fp.pos, Room(Me.sending_buffer))
         p == [Me EXCEPT
                !.sending_buffer = @ \o SubSeq(file, Task.fp.pos + 1, Task.fp.pos + n),
                !.http_task.fp.pos = @ + n]
     IN connection_list' = [connection_list EXCEPT
          ![cur] = IF p.http_task.fp.pos < Len(file) THEN p
                   ELSE [p EXCEPT !.http_task.state = "FINISHED_STATE"]]
  /\ UNCHANGED <<request, execs, loop, world>>

\* Slip: the stream stays open at the end of the file.
SendBodyLeaks ==
  /\ InHandler("SEND_BODY_STATE")
  /\ RequestOf(Task.fp.of).target # "dir"
  /\ LET file == FileStream(Task.fp.of)
         n == Least(Len(file) - Task.fp.pos, Room(Me.sending_buffer))
         p == [Me EXCEPT
                !.sending_buffer = @ \o SubSeq(file, Task.fp.pos + 1, Task.fp.pos + n),
                !.http_task.fp.pos = @ + n]
     IN IF p.http_task.fp.pos < Len(file)
          THEN Return(p, "KEEP_CONN")
          ELSE /\ connection_list' = [connection_list EXCEPT
                    ![cur] = [p EXCEPT !.http_task.state = "FINISHED_STATE"]]
               /\ UNCHANGED loop
  /\ UNCHANGED <<request, execs, world>>

\* SEND_BODY_STATE.  The stream is closed at the end of the file.
SendBody ==
  /\ InHandler("SEND_BODY_STATE")
  /\ RequestOf(Task.fp.of).target # "dir"
  /\ LET file == FileStream(Task.fp.of)
         n == Least(Len(file) - Task.fp.pos, Room(Me.sending_buffer))
         p == [Me EXCEPT
                !.sending_buffer = @ \o SubSeq(file, Task.fp.pos + 1, Task.fp.pos + n),
                !.http_task.fp.pos = @ + n]
     IN IF p.http_task.fp.pos < Len(file)
          THEN Return(p, "KEEP_CONN") /\ UNCHANGED streams
          ELSE /\ connection_list' = [connection_list EXCEPT
                    ![cur] = [p EXCEPT !.http_task.state = "FINISHED_STATE"]]
               /\ streams' = streams \ {Task.own}
               /\ UNCHANGED loop
  /\ UNCHANGED <<request, execs, script, net, backlog, proc>>

\* fopen opens a directory, fgetc cannot read it: STREAM_FILE_ERROR.
SendBodyFails ==
  /\ InHandler("SEND_BODY_STATE")
  /\ RequestOf(Task.fp.of).target = "dir"
  /\ IF Room(Me.sending_buffer) = 0
       THEN NextSlot /\ UNCHANGED <<peers, world>>
       ELSE ReturnCloseNow /\ streams' = streams \ {Task.own} /\ UNCHANGED request

\* FINISHED_STATE.  last_request is looked at after reset_http_task.
Finish ==
  /\ InHandler("FINISHED_STATE")
  /\ request' = IF request = NULL THEN NULL ELSE [request EXCEPT !.freed = TRUE]
  /\ LET t == reset_http_task(Task)
     IN Return([Me EXCEPT !.http_task = t],
               IF t.last_request THEN "CLOSE_CONN" ELSE "KEEP_CONN")
  /\ UNCHANGED <<execs, world>>

\* The ways in which the handler can end the process: request is NULL or
\* freed when it is read, freed when it is freed again, or an assert of
\* start_CGI_script fails, on cgi_executor or on a pipe.
HandlerDies ==
  /\ \/ InHandler("CHECK_CGI") /\ request = NULL
     \/ InHandler("CHECK_CGI") /\ request # NULL /\ request.freed
     \/ InHandler("FINISHED_STATE") /\ request # NULL /\ request.freed
     \/ /\ InHandler("CHECK_CGI") /\ request # NULL
        /\ Wanted.target = "cgi" /\ (Me.cgi_executor # NULL \/ ~PipesOpen)
  /\ Die

Handler ==
  \/ HeaderIncomplete \/ HeaderTooLong \/ HeaderRefused \/ HeaderParsed
  \/ ReceiveBody \/ GenerateHeader \/ SendHeader
  \/ CheckStatic \/ CheckCgi \/ ProcessingCgi
  \/ SendBody \/ SendBodyFails \/ Finish \/ HandlerDies
=============================================================================
