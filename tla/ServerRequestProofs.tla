------------------------- MODULE ServerRequestProofs -------------------------
(***************************************************************************)
(* The global variable `request' is shared by all slots, and so is a slot  *)
(* by the clients that get it one after the other.  What is kept of them   *)
(* when what the clients ask leaves no room for two: the handler works on  *)
(* the request of its own slot, a CGI child gets the body of its own       *)
(* request, and a free slot holds nothing.  For any number of clients and  *)
(* slots and any faults.                                                   *)
(***************************************************************************)
EXTENDS ServerInputProofs

-----------------------------------------------------------------------------
(* What the clients may ask, sc being their script.                        *)

\* One client at most ever connects.
Alone(sc) == \E c \in Client : \A d \in Client \ {c} : sc[d] = <<>>

\* One connection at most is open at a time.
Single(sc) == MAX_CLIENTS = 1 \/ Alone(sc)

\* No request has a body to wait for, so that none spans two turns of the handler.
NoBody(sc) ==
  \A r \in Asked(sc) : sc[r[1]][r[2]].method = "POST" => sc[r[1]][r[2]].length <= 0

Unshared(sc) == Single(sc) \/ NoBody(sc)

NoScripts(sc) == \A r \in Asked(sc) : sc[r[1]][r[2]].target # "cgi"

\* No client gets a slot in which a script of another one may still run, and
\* none shares the global request.
NeverInherits(sc) == Alone(sc) \/ (MAX_CLIENTS = 1 /\ NoScripts(sc))

-----------------------------------------------------------------------------
(* The kinds of steps, as far as tasks, executors and the global request   *)
(* are concerned.                                                          *)

OnlyCurrent == \A s \in Slot : s # cur => connection_list'[s] = connection_list[s]

\* The current slot stays with its client.
StaysConnected ==
  /\ OnlyCurrent
  /\ Me.socket # NULL /\ connection_list'[cur].socket = Me.socket

Emptied(p) == p.sending_buffer = <<>> /\ p.receiving_buffer = <<>> /\ ~p.close_conn

TaskThen == connection_list'[cur].http_task
ExecutorThen == connection_list'[cur].cgi_executor

\* Tasks, executors and request stay; slots may be given up.
Calm ==
  /\ request' = request
  /\ \A s \in Slot :
       LET p == connection_list[s]
           q == connection_list'[s]
       IN /\ q.http_task = p.http_task /\ q.cgi_executor = p.cgi_executor
          /\ q.socket \in {p.socket, NULL}
          /\ q.socket = NULL => q = p \/ Emptied(q) \/ p.cgi_executor # NULL
  /\ \/ pc \notin {"http", "dead"}
     \/ pc' \in {"http", "dead"} /\ cur' = cur
     \/ pc = "http" /\ Task.state \notin TakesBody
     \/ pc = "http" /\ connection_list'[cur].socket = NULL
     \/ \A s \in Slot : connection_list'[s].socket = NULL

\* A client that waited gets a free slot with a fresh task.
Accepts ==
  /\ request' = request /\ pc = "accept"
  /\ \E s \in Slot, c \in Client :
       LET p == connection_list[s]
           q == connection_list'[s]
       IN /\ p.socket = NULL /\ net[c].conn = "none" /\ net[c].st # "off"
          /\ q.socket = c /\ q.http_task = FreshTask /\ q.cgi_executor = p.cgi_executor
          /\ \A t \in Slot : t # s => connection_list'[t] = connection_list[t]

\* The end of a script's output.
Ends ==
  /\ request' = request /\ pc = "cgi_read" /\ OnlyCurrent
  /\ connection_list'[cur].socket = Me.socket
  /\ Me.cgi_executor # NULL /\ ExecutorThen = NULL
  /\ TaskThen.state = "FINISHED_STATE" /\ TaskThen.own = Task.own

\* The handler goes on with the same request.
Works ==
  /\ request' = request /\ pc = "http" /\ StaysConnected
  /\ ExecutorThen = Me.cgi_executor /\ TaskThen.own = Task.own
  /\ TaskThen.state = "RECV_HEADER_STATE" <=> Task.state = "RECV_HEADER_STATE"
  /\ TaskThen.state # "PROCESSING_CGI" /\ Task.state # "PROCESSING_CGI"
  /\ TaskThen.state \in TakesBody => Task.state = "RECV_BODY_STATE"
  /\ TaskThen.state = "RECV_BODY_STATE" => Task.body_bytes_num > 0
  /\ TaskThen.state = "CHECK_CGI" => pc' = "http" /\ cur' = cur

Begins ==
  /\ pc = "http" /\ StaysConnected
  /\ pc' = "http" /\ cur' = cur
  /\ ExecutorThen = Me.cgi_executor
  /\ Task.state = "RECV_HEADER_STATE"
  /\ TaskThen.state \in Parsed
  /\ request' = [of |-> TaskThen.own, freed |-> FALSE]

Refuses ==
  /\ request' = NULL /\ pc = "http" /\ OnlyCurrent
  /\ connection_list'[cur].socket = NULL /\ Emptied(connection_list'[cur])
  /\ TaskThen = Task /\ ExecutorThen = Me.cgi_executor

Starts ==
  /\ request' = request /\ pc = "http" /\ StaysConnected
  /\ request # NULL /\ Wanted.target = "cgi"
  /\ Task.state = "CHECK_CGI" /\ TaskThen.state = "PROCESSING_CGI"
  /\ TaskThen.own = Task.own
  /\ Me.cgi_executor = NULL

Finishes ==
  /\ pc = "http" /\ StaysConnected
  /\ TaskThen.state = "RECV_HEADER_STATE" /\ ExecutorThen = Me.cgi_executor
  /\ Task.state = "FINISHED_STATE"

Kind == Calm \/ Accepts \/ Ends \/ Works \/ Begins \/ Refuses \/ Starts \/ Finishes

\* A client connects only to ask something, and once.
Connects ==
  \A c \in Client :
    /\ net'[c].conn = "none" => net[c].conn = "none"
    /\ net'[c].st # "off" => net[c].st # "off" \/ script[c] # <<>>

LEMMA StuckCalm ==
  ASSUME UNCHANGED <<connection_list, request>>, pc = "http" => Task.state \notin TakesBody,
         pc # "dead"
  PROVE  Calm
  BY DEF Calm

\* The current slot becomes p.
LEMMA CurrentBecomes ==
  ASSUME Full, NEW p, connection_list' = [connection_list EXCEPT ![cur] = p]
  PROVE  /\ OnlyCurrent /\ connection_list'[cur] = p
         /\ p.socket = Me.socket /\ pc = "http" => StaysConnected
  BY CurrentTyped DEF OnlyCurrent, StaysConnected

\* The slot is given up in a step that leaves the request.
LEMMA CloseCalm ==
  ASSUME Full, NEW k, close_client_connection(cur, k), request' = request, pc # "dead"
  PROVE  Calm
<1>1. /\ cur \in Slot /\ DOMAIN connection_list = Slot /\ DOMAIN Me = PeerFields
      /\ Me = connection_list[cur]
  BY CurrentTyped
<1>2. connection_list' = [connection_list EXCEPT ![cur] = Vacated(Me)]
  BY <1>1 DEF close_client_connection
<1>3. /\ Vacated(Me).socket = NULL /\ Emptied(Vacated(Me))
      /\ Vacated(Me).http_task = Me.http_task /\ Vacated(Me).cgi_executor = Me.cgi_executor
  BY <1>1 DEF Vacated, PeerFields, NO_SOCKET, Emptied
<1>4. \A s \in Slot : connection_list'[s] = IF s = cur THEN Vacated(Me) ELSE connection_list[s]
  BY <1>1, <1>2
<1>5. pc # "http" => pc \notin {"http", "dead"}
  OBVIOUS
<1>6. connection_list'[cur].socket = NULL
  BY <1>1, <1>3, <1>4
<1>7. \A s \in Slot :
       LET p == connection_list[s]
           q == connection_list'[s]
       IN /\ q.http_task = p.http_task /\ q.cgi_executor = p.cgi_executor
          /\ q.socket \in {p.socket, NULL}
          /\ q.socket = NULL => q = p \/ Emptied(q) \/ p.cgi_executor # NULL
  BY <1>1, <1>3, <1>4
<1> QED
  BY <1>5, <1>6, <1>7 DEF Calm

LEMMA HeaderIncompleteKind == ASSUME Full, HeaderIncomplete PROVE Works
<1> DEFINE p == [Me EXCEPT !.receiving_buffer = <<>>, !.http_task.parse_buf = @ \o Incoming]
           new == [Task EXCEPT !.parse_buf = @ \o Incoming]
<1>1. /\ pc = "http" /\ Task.state = "RECV_HEADER_STATE" /\ request' = request
      /\ connection_list' = [connection_list EXCEPT ![cur] = p]
  BY DEF HeaderIncomplete, InHandler, Return
<1>2. DOMAIN Me = PeerFields /\ DOMAIN Task = TaskFields /\ Task = Me.http_task
  BY CurrentTyped
<1>3. p.socket = Me.socket /\ p.cgi_executor = Me.cgi_executor /\ p.http_task = new
  BY <1>2 DEF PeerFields
<1>4. new.state = Task.state /\ new.own = Task.own
  BY <1>2 DEF TaskFields
<1> HIDE DEF p, new
<1> QED
  BY <1>1, <1>3, <1>4, CurrentBecomes DEF Works, TakesBody, TaskThen, ExecutorThen

LEMMA HeaderParsedKind == ASSUME Full, HeaderParsed PROVE Begins
<1> DEFINE r == Header[1].req
           t == [Task EXCEPT !.parse_buf = Header, !.own = r,
                             !.last_request = RequestOf(r).close]
           d == Dispatch(t, RequestOf(r))
           p == [Me EXCEPT !.http_task = d, !.receiving_buffer = Drop(@, HeaderSize)]
<1>1. /\ pc = "http" /\ Task.state = "RECV_HEADER_STATE" /\ UNCHANGED loop
      /\ request' = [of |-> r, freed |-> FALSE]
      /\ connection_list' = [connection_list EXCEPT ![cur] = p]
  BY DEF HeaderParsed, HeaderComplete, InHandler
<1>2. DOMAIN Me = PeerFields /\ DOMAIN Task = TaskFields /\ Task = Me.http_task
  BY CurrentTyped
<1>3. DOMAIN t = TaskFields /\ t.own = r
  BY <1>2 DEF TaskFields
<1> HIDE DEF t, r
<1>4. d.own = r /\ d.state \in Parsed
  <2>1. d \in {[t EXCEPT !.method_type = RequestOf(r).method, !.state = "CHECK_CGI"],
               [t EXCEPT !.method_type = "POST", !.body_bytes_num = RequestOf(r).length,
                         !.state = "RECV_BODY_STATE"],
               [t EXCEPT !.method_type = "POST", !.response_code = 411,
                         !.state = "GENERATE_HEADER_STATE"],
               [t EXCEPT !.response_code = 501, !.state = "GENERATE_HEADER_STATE"]}
    BY DEF Dispatch
  <2> DEFINE m == RequestOf(r).method
             l == RequestOf(r).length
  <2> HIDE DEF d, m, l
  <2>2. CASE d = [t EXCEPT !.method_type = m, !.state = "CHECK_CGI"]
    BY <1>3, <2>2 DEF TaskFields, Parsed
  <2>3. CASE d = [t EXCEPT !.method_type = "POST", !.body_bytes_num = l,
                           !.state = "RECV_BODY_STATE"]
    BY <1>3, <2>3 DEF TaskFields, Parsed
  <2>4. CASE d = [t EXCEPT !.method_type = "POST", !.response_code = 411,
                           !.state = "GENERATE_HEADER_STATE"]
    BY <1>3, <2>4 DEF TaskFields, Parsed
  <2>5. CASE d = [t EXCEPT !.response_code = 501, !.state = "GENERATE_HEADER_STATE"]
    BY <1>3, <2>5 DEF TaskFields, Parsed
  <2> QED
    BY <2>1, <2>2, <2>3, <2>4, <2>5 DEF m, l
<1> HIDE DEF d
<1>5. p.socket = Me.socket /\ p.cgi_executor = Me.cgi_executor /\ p.http_task = d
  BY <1>2 DEF PeerFields
<1> HIDE DEF p
<1> QED
  BY <1>1, <1>4, <1>5, CurrentBecomes DEF Begins, TaskThen, ExecutorThen, loop

LEMMA ReceiveBodyKind == ASSUME Full, ReceiveBody PROVE Works
<1> DEFINE n == Least(Len(Me.receiving_buffer), Task.body_bytes_num - Len(Task.post_body))
           body == Task.post_body \o Take(Me.receiving_buffer, n)
           more == [Task EXCEPT !.post_body = body]
           done == [more EXCEPT !.state = "CHECK_CGI"]
           p == [Me EXCEPT !.receiving_buffer = Drop(@, n),
                           !.http_task.post_body = @ \o Take(Me.receiving_buffer, n)]
           q == [p EXCEPT !.http_task.state = "CHECK_CGI"]
<1>1. /\ pc = "http" /\ Task.state = "RECV_BODY_STATE" /\ request' = request
      /\ \/ /\ connection_list' = [connection_list EXCEPT ![cur] = p]
            /\ Len(p.http_task.post_body) < Task.body_bytes_num
         \/ connection_list' = [connection_list EXCEPT ![cur] = q] /\ UNCHANGED loop
  BY DEF ReceiveBody, InHandler, Return
<1>2. /\ DOMAIN Me = PeerFields /\ Task = Me.http_task /\ DOMAIN Task = TaskFields
      /\ SlotTyped(script, Me) /\ TaskTyped(script, Task)
  BY CurrentTyped
<1> HIDE DEF n
<1>3. /\ p.http_task = more /\ p.socket = Me.socket /\ p.cgi_executor = Me.cgi_executor
      /\ DOMAIN p = PeerFields
  BY <1>2 DEF PeerFields
<1>4. Task.body_bytes_num \in Nat /\ (Task.body_bytes_num = 0 => Len(Task.post_body) = 0)
  BY <1>1, <1>2, LenProperties DEF TaskTyped
<1>5. Len(body) \in Nat
  <2>1. n \in 0 .. Len(Me.receiving_buffer)
    BY <1>1, <1>2, FitType DEF SlotTyped, TaskTyped, n
  <2>2. Take(Me.receiving_buffer, n) \in Seq(PieceOf(script, Me.socket))
    BY <1>2, <2>1, TakeType DEF SlotTyped
  <2>3. Take(Me.receiving_buffer, n) \in Seq(Piece(script))
    BY <2>2, ClientPieces
  <2> QED
    BY <1>2, <2>3, ConcatProperties, LenProperties DEF TaskTyped
<1> HIDE DEF p, body
<1>6. /\ more.state = "RECV_BODY_STATE" /\ more.own = Task.own /\ DOMAIN more = TaskFields
      /\ more.post_body = body
  BY <1>1, <1>2 DEF TaskFields
<1> HIDE DEF more
<1>7. done.state = "CHECK_CGI" /\ done.own = Task.own
  BY <1>6 DEF TaskFields
<1>8. q.http_task = done /\ q.socket = Me.socket /\ q.cgi_executor = Me.cgi_executor
  BY <1>3 DEF PeerFields
<1> HIDE DEF q, done
<1>9. CASE /\ connection_list' = [connection_list EXCEPT ![cur] = p]
           /\ Len(p.http_task.post_body) < Task.body_bytes_num
  <2>1. Task.body_bytes_num > 0
    BY <1>3, <1>4, <1>5, <1>6, <1>9
  <2> QED
    BY <1>1, <1>3, <1>6, <1>9, <2>1, CurrentBecomes
    DEF Works, TakesBody, TaskThen, ExecutorThen
<1>10. CASE connection_list' = [connection_list EXCEPT ![cur] = q] /\ UNCHANGED loop
  BY <1>1, <1>7, <1>8, <1>10, CurrentBecomes DEF Works, TakesBody, TaskThen, ExecutorThen, loop
<1> QED
  BY <1>1, <1>9, <1>10

LEMMA GenerateHeaderKind == ASSUME Full, GenerateHeader PROVE Works
<1> DEFINE new == [Task EXCEPT
             !.response_buf = @ \o NonBodyResponse(Task.own, Task.response_code),
             !.state = "SEND_HEADER_STATE"]
           p == [Me EXCEPT !.http_task = new]
<1>1. /\ pc = "http" /\ Task.state = "GENERATE_HEADER_STATE" /\ request' = request
      /\ connection_list' = [connection_list EXCEPT ![cur].http_task = new]
  BY DEF GenerateHeader, InHandler, Continue
<1>2. DOMAIN Me = PeerFields /\ DOMAIN Task = TaskFields
  BY CurrentTyped
<1>3. new.state = "SEND_HEADER_STATE" /\ new.own = Task.own
  BY <1>2 DEF TaskFields
<1> HIDE DEF new
<1>4. p.socket = Me.socket /\ p.cgi_executor = Me.cgi_executor /\ p.http_task = new
  BY <1>2 DEF PeerFields
<1>5. connection_list' = [connection_list EXCEPT ![cur] = p]
  BY <1>1 DEF Me
<1> HIDE DEF p
<1> QED
  BY <1>1, <1>3, <1>4, <1>5, CurrentBecomes DEF Works, TakesBody, TaskThen, ExecutorThen

LEMMA SendHeaderKind == ASSUME Full, SendHeader PROVE Works
<1> DEFINE n == Least(Len(Task.response_buf), Room(Me.sending_buffer))
           rest == Drop(Task.response_buf, Least(Len(Task.response_buf), n + 1))
           new == [Task EXCEPT !.response_buf = rest, !.state = AfterHeader(Task)]
           p == [Me EXCEPT
                   !.sending_buffer = @ \o Take(Task.response_buf, n),
                   !.http_task.response_buf = Drop(@, Least(Len(@), n + 1)),
                   !.http_task.state = AfterHeader(Task)]
<1>1. /\ pc = "http" /\ Task.state = "SEND_HEADER_STATE" /\ request' = request
      /\ connection_list' = [connection_list EXCEPT ![cur] = p]
  BY DEF SendHeader, InHandler
<1>2. DOMAIN Me = PeerFields /\ DOMAIN Task = TaskFields /\ Task = Me.http_task
  BY CurrentTyped
<1> HIDE DEF n
<1>3. p.socket = Me.socket /\ p.cgi_executor = Me.cgi_executor /\ p.http_task = new
  BY <1>2 DEF PeerFields
<1>4. new.state = AfterHeader(Task) /\ new.own = Task.own
  BY <1>2 DEF TaskFields
<1>5. new.state \in {"SEND_BODY_STATE", "FINISHED_STATE"}
  BY <1>4 DEF AfterHeader
<1> HIDE DEF p, new
<1> QED
  BY <1>1, <1>3, <1>4, <1>5, CurrentBecomes DEF Works, TakesBody, TaskThen, ExecutorThen

LEMMA CheckStaticKind == ASSUME Full, CheckStatic PROVE Works
<1> DEFINE new == IF IsRead THEN StaticGet
                  ELSE [Task EXCEPT !.response_code = 200, !.state = "GENERATE_HEADER_STATE"]
           p == [Me EXCEPT !.http_task = new]
<1>1. /\ pc = "http" /\ Task.state = "CHECK_CGI" /\ request' = request
      /\ connection_list' = [connection_list EXCEPT ![cur].http_task = new]
  BY DEF CheckStatic, InHandler
<1>2. DOMAIN Me = PeerFields /\ DOMAIN Task = TaskFields
  BY CurrentTyped
<1>3. new.state \in {"GENERATE_HEADER_STATE", "SEND_HEADER_STATE"} /\ new.own = Task.own
  <2>1. CASE ~IsRead
    <3>1. new = [Task EXCEPT !.response_code = 200, !.state = "GENERATE_HEADER_STATE"]
      BY <2>1
    <3> QED
      BY <1>2, <3>1 DEF TaskFields
  <2>2. CASE IsRead
    <3>1. new = StaticGet
      BY <2>2
    <3> HIDE DEF new
    <3> DEFINE missing(x) == [Task EXCEPT !.response_code = 404, !.state = x]
               opened(x, y, z) == [Task EXCEPT !.response_buf = y, !.response_code = 200,
                                               !.fp = z, !.state = x]
               failed(x, y) == [Task EXCEPT !.response_buf = y, !.response_code = 500,
                                            !.state = x]
    <3>2. \A x, y, z : /\ missing(x).state = x /\ missing(x).own = Task.own
                       /\ opened(x, y, z).state = x /\ opened(x, y, z).own = Task.own
                       /\ failed(x, y).state = x /\ failed(x, y).own = Task.own
      BY <1>2 DEF TaskFields
    <3> QED
      BY <3>1, <3>2 DEF StaticGet
  <2> QED
    BY <2>1, <2>2
<1> HIDE DEF new
<1>4. p.socket = Me.socket /\ p.cgi_executor = Me.cgi_executor /\ p.http_task = new
  BY <1>2 DEF PeerFields
<1>5. connection_list' = [connection_list EXCEPT ![cur] = p]
  BY <1>1 DEF Me
<1> HIDE DEF p
<1> QED
  BY <1>1, <1>3, <1>4, <1>5, CurrentBecomes DEF Works, TakesBody, TaskThen, ExecutorThen

LEMMA SendBodyKind == ASSUME Full, SendBody PROVE Works
<1> DEFINE f == Task.fp
           file == FileStream(f.of)
           n == Least(Len(file) - f.pos, Room(Me.sending_buffer))
           more == [Task EXCEPT !.fp.pos = @ + n]
           done == [more EXCEPT !.state = "FINISHED_STATE"]
           p == [Me EXCEPT !.sending_buffer = @ \o SubSeq(file, f.pos + 1, f.pos + n),
                           !.http_task.fp.pos = @ + n]
           q == [p EXCEPT !.http_task.state = "FINISHED_STATE"]
<1>1. /\ pc = "http" /\ Task.state = "SEND_BODY_STATE" /\ request' = request
      /\ \/ connection_list' = [connection_list EXCEPT ![cur] = p]
         \/ connection_list' = [connection_list EXCEPT ![cur] = q]
  BY DEF SendBody, InHandler, Return
<1>2. DOMAIN Me = PeerFields /\ DOMAIN Task = TaskFields /\ Task = Me.http_task
  BY CurrentTyped
<1> HIDE DEF n, file, f
<1>3. /\ p.socket = Me.socket /\ p.cgi_executor = Me.cgi_executor
      /\ p.http_task = more /\ DOMAIN p = PeerFields
  BY <1>2 DEF PeerFields
<1> HIDE DEF p
<1>4. more.state = "SEND_BODY_STATE" /\ more.own = Task.own /\ DOMAIN more = TaskFields
  BY <1>1, <1>2 DEF TaskFields
<1> HIDE DEF more
<1>5. done.state = "FINISHED_STATE" /\ done.own = Task.own
  BY <1>4 DEF TaskFields
<1>6. q.socket = Me.socket /\ q.cgi_executor = Me.cgi_executor /\ q.http_task = done
  BY <1>3 DEF PeerFields
<1> HIDE DEF q, done
<1> QED
  BY <1>1, <1>3, <1>4, <1>5, <1>6, CurrentBecomes
  DEF Works, TakesBody, TaskThen, ExecutorThen

LEMMA FinishKind == ASSUME Full, Finish PROVE Finishes
<1> DEFINE new == reset_http_task(Task)
           p == [Me EXCEPT !.http_task = new]
<1>1. /\ pc = "http" /\ Task.state = "FINISHED_STATE"
      /\ connection_list' = [connection_list EXCEPT ![cur] = p]
  BY DEF Finish, InHandler, Return, reset_http_task, FreshTask
<1>2. DOMAIN Me = PeerFields
  BY CurrentTyped
<1>3. new.state = "RECV_HEADER_STATE"
  BY DEF reset_http_task, FreshTask
<1> HIDE DEF new
<1>4. p.socket = Me.socket /\ p.cgi_executor = Me.cgi_executor /\ p.http_task = new
  BY <1>2 DEF PeerFields
<1> HIDE DEF p
<1> QED
  BY <1>1, <1>3, <1>4, CurrentBecomes DEF Finishes, TaskThen, ExecutorThen

LEMMA CheckCgiKind == ASSUME Full, CheckCgi PROVE Starts
<1>1. /\ pc = "http" /\ Task.state = "CHECK_CGI" /\ request' = request /\ request # NULL
      /\ Wanted.target = "cgi" /\ Me.cgi_executor = NULL
  BY DEF CheckCgi, InHandler
<1>2. PICK a \in ExecAddr :
        Return([Me EXCEPT !.cgi_executor = a, !.http_task.state = "PROCESSING_CGI"],
               IF Task.last_request THEN "CLOSE_CONN" ELSE "KEEP_CONN")
  BY DEF CheckCgi
<1> DEFINE new == [Task EXCEPT !.state = "PROCESSING_CGI"]
           p == [Me EXCEPT !.cgi_executor = a, !.http_task.state = "PROCESSING_CGI"]
           q == [p EXCEPT !.close_conn = TRUE]
<1>3. \/ connection_list' = [connection_list EXCEPT ![cur] = p]
      \/ connection_list' = [connection_list EXCEPT ![cur] = q]
  BY <1>2 DEF Return
<1>4. DOMAIN Me = PeerFields /\ Task = Me.http_task /\ DOMAIN Task = TaskFields
  BY CurrentTyped
<1>5. p.socket = Me.socket /\ p.http_task = new /\ DOMAIN p = PeerFields
  BY <1>4 DEF PeerFields
<1>6. new.state = "PROCESSING_CGI" /\ new.own = Task.own
  BY <1>4 DEF TaskFields
<1> HIDE DEF new, p
<1>7. q.socket = Me.socket /\ q.http_task = new
  BY <1>5 DEF PeerFields
<1> HIDE DEF q
<1> QED
  BY <1>1, <1>3, <1>5, <1>6, <1>7, CurrentBecomes DEF Starts, TaskThen

LEMMA HeaderRefusedKind == ASSUME Full, HeaderRefused PROVE Refuses
<1>1. pc = "http" /\ request' = NULL /\ close_client_connection(cur, net)
  BY DEF HeaderRefused, HeaderComplete, InHandler, ReturnCloseNow
<1>2. cur \in Slot /\ DOMAIN connection_list = Slot /\ DOMAIN Me = PeerFields
      /\ Task = Me.http_task /\ Me = connection_list[cur]
  BY CurrentTyped
<1>3. connection_list' = [connection_list EXCEPT ![cur] = Vacated(Me)]
  BY <1>1, <1>2 DEF close_client_connection
<1>4. /\ Vacated(Me).socket = NULL /\ Emptied(Vacated(Me))
      /\ Vacated(Me).http_task = Task /\ Vacated(Me).cgi_executor = Me.cgi_executor
  BY <1>2 DEF Vacated, PeerFields, NO_SOCKET, Emptied
<1> QED
  BY <1>1, <1>3, <1>4, CurrentBecomes DEF Refuses, TaskThen, ExecutorThen

\* The bytes in the buffers of the current slot are other ones.
LEMMA TransferCalm ==
  ASSUME Full, NEW p, connection_list' = [connection_list EXCEPT ![cur] = p],
         p.socket = Me.socket, p.http_task = Me.http_task, p.cgi_executor = Me.cgi_executor,
         Me.socket # NULL \/ Me.cgi_executor # NULL,
         request' = request, pc \notin {"http", "dead"}
  PROVE  Calm
<1>1. /\ cur \in Slot /\ DOMAIN connection_list = Slot /\ Me = connection_list[cur]
  BY CurrentTyped
<1>2. \A s \in Slot : connection_list'[s] = IF s = cur THEN p ELSE connection_list[s]
  BY <1>1
<1>3. \A s \in Slot :
       LET a == connection_list[s]
           b == connection_list'[s]
       IN /\ b.http_task = a.http_task /\ b.cgi_executor = a.cgi_executor
          /\ b.socket \in {a.socket, NULL}
          /\ b.socket = NULL => b = a \/ Emptied(b) \/ a.cgi_executor # NULL
  BY <1>1, <1>2
<1> QED
  BY <1>3 DEF Calm

LEMMA DieCalm == ASSUME Die PROVE Calm
  BY DEF Die, Calm

LEMMA HandlerKind == ASSUME Full, Handler PROVE Kind
<1>1. CASE HeaderTooLong
  <2>1. pc = "http" /\ close_client_connection(cur, net) /\ request' = request
    BY <1>1 DEF HeaderTooLong, InHandler, ReturnCloseNow
  <2> QED
    BY <2>1, CloseCalm DEF Kind
<1>2. CASE ProcessingCgi
  <2>1. /\ UNCHANGED <<connection_list, request>> /\ pc = "http"
        /\ Task.state = "PROCESSING_CGI"
    BY <1>2 DEF ProcessingCgi, InHandler, peers
  <2> QED
    BY <2>1, StuckCalm DEF Kind, TakesBody
<1>3. CASE SendBodyFails
  <2>1. pc = "http" /\ Task.state = "SEND_BODY_STATE"
    BY <1>3 DEF SendBodyFails, InHandler
  <2>2. \/ UNCHANGED <<connection_list, request>>
        \/ close_client_connection(cur, net) /\ request' = request
    BY <1>3 DEF SendBodyFails, ReturnCloseNow, peers
  <2> QED
    BY <2>1, <2>2, StuckCalm, CloseCalm DEF Kind, TakesBody
<1>4. CASE HandlerDies
  BY <1>4, DieCalm DEF HandlerDies, Kind
<1> QED
  BY <1>1, <1>2, <1>3, <1>4, HeaderIncompleteKind, HeaderRefusedKind, HeaderParsedKind,
     ReceiveBodyKind, GenerateHeaderKind, SendHeaderKind, CheckStaticKind, CheckCgiKind,
     SendBodyKind, FinishKind
  DEF Handler, Kind
-----------------------------------------------------------------------------
(* The other steps of the server.                                          *)

LEMMA CgiWriteKind == ASSUME Full, CgiWrite PROVE Calm
<1>1. pc = "cgi_write" /\ request' = request
  BY DEF CgiWrite
<1>2. UNCHANGED connection_list \/ close_client_connection(cur, net)
  BY DEF CgiWrite
<1> QED
  BY <1>1, <1>2, StuckCalm, CloseCalm

LEMMA CgiReadKind == ASSUME Full, CgiRead PROVE Calm \/ Ends
<1>1. pc = "cgi_read" /\ request' = request /\ Me.cgi_executor # NULL
  BY DEF CgiRead, Full, Typed, Control, Me
<1>2. /\ cur \in Slot /\ DOMAIN connection_list = Slot /\ Me = connection_list[cur]
      /\ DOMAIN Me = PeerFields /\ Task = Me.http_task /\ DOMAIN Task = TaskFields
  BY CurrentTyped
<1>3. CASE UNCHANGED connection_list
  BY <1>1, <1>3, StuckCalm
<1>4. CASE PipeOutput
  <2> DEFINE out == proc[Executor.pid].stdout
             n == Least(Len(out), Room(Me.sending_buffer))
             p == [Me EXCEPT !.sending_buffer = @ \o Take(out, n)]
  <2>1. connection_list' = [connection_list EXCEPT ![cur] = p]
    BY <1>2, <1>4 DEF PipeOutput
  <2> HIDE DEF n, out
  <2>2. /\ p.socket = Me.socket /\ p.http_task = Me.http_task
        /\ p.cgi_executor = Me.cgi_executor
    BY <1>2 DEF PeerFields
  <2> HIDE DEF p
  <2> QED
    BY <1>1, <2>1, <2>2, TransferCalm
<1>5. CASE PipeEof
  <2> DEFINE new == [Task EXCEPT !.state = "FINISHED_STATE"]
             p == [Me EXCEPT !.cgi_executor = NULL, !.http_task.state = "FINISHED_STATE"]
  <2>1. connection_list' = [connection_list EXCEPT ![cur] = p]
    BY <1>2, <1>5 DEF PipeEof
  <2>2. p.socket = Me.socket /\ p.http_task = new /\ p.cgi_executor = NULL
    BY <1>2 DEF PeerFields
  <2>3. new.state = "FINISHED_STATE" /\ new.own = Task.own
    BY <1>2 DEF TaskFields
  <2> HIDE DEF new, p
  <2> QED
    BY <1>1, <2>1, <2>2, <2>3, CurrentBecomes DEF Ends, TaskThen, ExecutorThen
<1> QED
  BY <1>3, <1>4, <1>5 DEF CgiRead, PipeFull

LEMMA RecvKind == ASSUME Full, Recv PROVE Calm
<1> DEFINE p == [Me EXCEPT !.receiving_buffer = @ \o Received]
<1>1. pc = "recv" /\ request' = request /\ Me.socket # NULL
  BY DEF Recv, NO_SOCKET
<1>2. Me = connection_list[cur] /\ DOMAIN Me = PeerFields
  BY CurrentTyped
<1>3. UNCHANGED connection_list \/ connection_list' = [connection_list EXCEPT ![cur] = p]
  BY <1>2 DEF Recv, ReceiveFromPeer
<1>4. p.socket = Me.socket /\ p.http_task = Me.http_task /\ p.cgi_executor = Me.cgi_executor
  BY <1>2 DEF PeerFields
<1> HIDE DEF p
<1> QED
  BY <1>1, <1>3, <1>4, StuckCalm, TransferCalm

LEMMA SendKind == ASSUME Full, Send PROVE Calm
<1> DEFINE p == [Me EXCEPT !.sending_buffer = Drop(@, Taken)]
<1>1. pc = "send" /\ request' = request /\ Me.socket # NULL
  BY DEF Send, Full, Typed, Control, Me
<1>2. Me = connection_list[cur] /\ DOMAIN Me = PeerFields
  BY CurrentTyped
<1>3. UNCHANGED connection_list \/ connection_list' = [connection_list EXCEPT ![cur] = p]
  BY <1>2 DEF Send, SendToPeer
<1>4. p.socket = Me.socket /\ p.http_task = Me.http_task /\ p.cgi_executor = Me.cgi_executor
  BY <1>2 DEF PeerFields
<1> HIDE DEF p
<1> QED
  BY <1>1, <1>3, <1>4, StuckCalm, TransferCalm

LEMMA AcceptKind == ASSUME Full, Accept PROVE Calm \/ Accepts
<1>1. pc = "accept" /\ request' = request
  BY DEF Accept
<1>2. CASE UNCHANGED connection_list
  BY <1>1, <1>2, StuckCalm
<1> DEFINE c == Head(backlog)
<1>3. ASSUME ListenFd \in rfds, NEW s \in Slot, connection_list[s].socket = NULL,
             connection_list' = [connection_list EXCEPT
               ![s] = [@ EXCEPT !.socket = c, !.close_conn = FALSE, !.http_task = FreshTask]]
      PROVE  Accepts
  <2>1. /\ DOMAIN connection_list = Slot /\ DOMAIN connection_list[s] = PeerFields
        /\ backlog \in Seq(Client) /\ backlog # <<>>
        /\ \A i \in 1 .. Len(backlog) :
             net[backlog[i]].conn = "none" /\ net[backlog[i]].st # "off"
    BY <1>1, <1>3 DEF Full, IInv, SlotInv, Shape, BacklogInv, AcceptInv
  <2>2. Len(backlog) > 0 /\ c = backlog[1]
    BY <2>1, EmptySeq, LenProperties
  <2>3. 1 \in 1 .. Len(backlog)
    BY <2>1, <2>2, LenProperties
  <2>4. c \in Client /\ net[c].conn = "none" /\ net[c].st # "off"
    BY <2>1, <2>2, <2>3, ElementOfSeq
  <2> HIDE DEF c
  <2> DEFINE p == [connection_list[s] EXCEPT !.socket = c, !.close_conn = FALSE,
                                             !.http_task = FreshTask]
  <2>5. /\ p.socket = c /\ p.http_task = FreshTask
        /\ p.cgi_executor = connection_list[s].cgi_executor
    BY <2>1 DEF PeerFields
  <2>6. connection_list' = [connection_list EXCEPT ![s] = p]
    BY <1>3
  <2> HIDE DEF p
  <2>7. \A t \in Slot : connection_list'[t] = IF t = s THEN p ELSE connection_list[t]
    BY <2>1, <2>6
  <2> QED
    BY <1>1, <1>3, <2>4, <2>5, <2>7 DEF Accepts
<1> QED
  BY <1>2, <1>3 DEF Accept, handle_new_connection, Peer, NO_SOCKET

LEMMA ServerStepKind == ASSUME Full, ServerStep PROVE Kind
<1>1. CASE Select \/ NoCgi \/ SkipSlot
  <2>1. UNCHANGED <<connection_list, request>> /\ pc \in {"select", "cgi_write", "recv"}
    BY <1>1 DEF Select, NoCgi, SkipSlot, peers
  <2> QED
    BY <2>1, StuckCalm DEF Kind
<1>2. CASE SelectDies \/ CgiDies
  BY <1>2, DieCalm DEF SelectDies, CgiDies, Kind
<1>3. CASE RecvCloses
  <2>1. pc = "recv" /\ request' = request /\ close_client_connection(cur, net)
    BY <1>3 DEF RecvCloses, CloseSlot
  <2> QED
    BY <2>1, CloseCalm DEF Kind
<1>4. CASE SendCloses
  <2>1. pc = "send" /\ request' = request /\ close_client_connection(cur, SentByKernel)
    BY <1>4 DEF SendCloses, CloseSlot
  <2> QED
    BY <2>1, CloseCalm DEF Kind
<1> QED
  BY <1>1, <1>2, <1>3, <1>4, AcceptKind, CgiWriteKind, CgiReadKind, RecvKind, SendKind,
     HandlerKind DEF ServerStep, Kind

LEMMA ShutdownKind == ASSUME Full, Shutdown PROVE Calm
<1> DEFINE gone == {s \in Slot : Peer(s).socket # NO_SOCKET}
<1>1. /\ connection_list' =
           [s \in Slot |-> IF s \in gone THEN Vacated(Peer(s)) ELSE Peer(s)]
      /\ request' = request
  BY DEF Shutdown, ShutdownOf
<1> HIDE DEF gone
<1>2. ASSUME NEW s \in Slot
      PROVE  LET p == connection_list[s]
                 q == connection_list'[s]
             IN /\ q.http_task = p.http_task /\ q.cgi_executor = p.cgi_executor
                /\ q.socket = NULL /\ (q = p \/ Emptied(q))
  <2>1. DOMAIN Peer(s) = PeerFields /\ Peer(s) = connection_list[s]
    BY DEF Full, IInv, SlotInv, Shape, Peer
  <2>2. /\ Vacated(Peer(s)).socket = NULL /\ Emptied(Vacated(Peer(s)))
        /\ Vacated(Peer(s)).http_task = Peer(s).http_task
        /\ Vacated(Peer(s)).cgi_executor = Peer(s).cgi_executor
    BY <2>1 DEF Vacated, PeerFields, NO_SOCKET, Emptied
  <2>3. CASE s \in gone
    BY <1>1, <2>1, <2>2, <2>3
  <2>4. CASE s \notin gone
    BY <1>1, <2>1, <2>4 DEF gone, NO_SOCKET
  <2> QED
    BY <2>3, <2>4
<1> QED
  BY <1>1, <1>2 DEF Calm

LEMMA EnvironmentStays ==
  ASSUME Environment
  PROVE  /\ UNCHANGED <<connection_list, request, execs, pc, cur, script>>
         /\ pc \notin {"http", "dead"}
<1>1. ASSUME NEW c \in Client, \/ Connect(c) \/ ClientSend(c) \/ ClientRead(c)
                               \/ ClientShutdown(c) \/ ClientVanish(c)
      PROVE  UnchangedServer /\ KernelTurn
  BY <1>1 DEF Connect, ClientSend, ClientRead, ClientShutdown, ClientVanish
<1>2. ASSUME NEW p \in Pids, ChildRead(p) \/ ChildWrite(p) \/ ChildExit(p) \/ ChildFails(p)
      PROVE  UnchangedServer /\ KernelTurn
  BY <1>2 DEF ChildRead, ChildWrite, ChildExit, ChildFails
<1>3. UnchangedServer /\ KernelTurn
  BY <1>1, <1>2 DEF Environment
<1> QED
  BY <1>3 DEF UnchangedServer, KernelTurn, peers, loop

LEMMA NextKind == ASSUME Full, [Next]_vars PROVE Kind
<1>1. CASE Environment
  BY <1>1, EnvironmentStays, StuckCalm DEF Kind
<1>2. CASE UNCHANGED vars
  <2>1. UNCHANGED <<connection_list, request, pc, cur>>
    BY <1>2 DEF vars
  <2>2. pc = "dead" \/ pc = "http" \/ pc \notin {"http", "dead"}
    OBVIOUS
  <2> QED
    BY <2>1, <2>2 DEF Kind, Calm
<1> QED
  BY <1>1, <1>2, ServerStepKind, ShutdownKind DEF Next, Interrupt, SelectFails, Kind
-----------------------------------------------------------------------------
\* The clients ask what they ask from the start.
LEMMA ScriptStays == ASSUME [Next]_vars PROVE script' = script
<1>1. CASE Handler
  BY <1>1
  DEF Handler, HeaderIncomplete, HeaderTooLong, HeaderRefused, HeaderParsed, ReceiveBody,
      GenerateHeader, SendHeader, CheckStatic, CheckCgi, ProcessingCgi, SendBody,
      SendBodyFails, Finish, HandlerDies, Continue, ReturnCloseNow, Die, world
<1>2. CASE ServerStep
  BY <1>1, <1>2
  DEF ServerStep, Select, SelectDies, Accept, NoCgi, CgiWrite, CgiRead, CgiDies, SkipSlot,
      Recv, RecvCloses, Send, SendCloses, CloseSlot, Die, world
<1>3. CASE Interrupt \/ SelectFails
  BY <1>3 DEF Interrupt, SelectFails, Shutdown, ShutdownOf
<1> QED
  BY <1>2, <1>3, EnvironmentStays DEF Next, vars

LEMMA SameConnects == ASSUME SameNet PROVE Connects
  BY DEF SameNet, Connects

LEMMA StaysConnects == ASSUME Full, net' = net PROVE Connects
  BY NetKept, SameConnects DEF Full, IInv

LEMMA CloseConnects ==
  ASSUME Full, close_client_connection(cur, net) \/ close_client_connection(cur, SentByKernel)
  PROVE  Connects
<1>1. Closes
  BY CloseNow, CloseAfterSend DEF Full, IInv
<1> QED
  BY <1>1 DEF Closes, Connects

LEMMA AcceptConnects == ASSUME Full, Accept PROVE Connects
<1> DEFINE c == Head(backlog)
<1>1. \/ net' = net
      \/ net' = [net EXCEPT ![c].conn = "open"]
      \/ net' = [net EXCEPT ![c].conn = "refused", ![c].inq = <<>>]
  BY DEF Accept, handle_new_connection
<1>2. DOMAIN net = Client /\ \A d \in Client : DOMAIN net[d] = NetFields
  BY DEF Full, IInv, SlotInv, Shape
<1> HIDE DEF c
<1>3. CASE net' = [net EXCEPT ![c].conn = "open"]
  BY <1>2, <1>3 DEF Connects, NetFields
<1>4. CASE net' = [net EXCEPT ![c].conn = "refused", ![c].inq = <<>>]
  BY <1>2, <1>4 DEF Connects, NetFields
<1> QED
  BY <1>1, <1>3, <1>4, StaysConnects

LEMMA HandlerConnects == ASSUME Full, Handler PROVE Connects
<1>1. net' = net \/ close_client_connection(cur, net)
  BY DEF Handler, HeaderIncomplete, HeaderTooLong, HeaderRefused, HeaderParsed, ReceiveBody,
      GenerateHeader, SendHeader, CheckStatic, CheckCgi, ProcessingCgi, SendBody,
      SendBodyFails, Finish, HandlerDies, Continue, ReturnCloseNow, Die, world
<1> QED
  BY <1>1, StaysConnects, CloseConnects

LEMMA ServerStepConnects == ASSUME Full, ServerStep PROVE Connects
<1>1. CASE Recv
  <2>1. CASE ReceiveFromPeer
    BY <2>1, SameConnects DEF ReceiveFromPeer, SameNet, Full, IInv, SlotInv, Shape, NetFields
  <2> QED
    BY <1>1, <2>1, StaysConnects DEF Recv
<1>2. CASE Send
  <2>1. CASE SendToPeer
    <3>1. net' = SentByKernel
      BY <2>1 DEF SendToPeer
    <3>2. SameNet
      BY <3>1, SentByKernelSame DEF SameNet, Full, IInv
    <3> QED
      BY <3>2, SameConnects
  <2> QED
    BY <1>2, <2>1, StaysConnects DEF Send
<1>3. CASE CgiWrite
  <2>1. net' = net \/ close_client_connection(cur, net)
    BY <1>3 DEF CgiWrite
  <2> QED
    BY <2>1, StaysConnects, CloseConnects
<1>4. CASE RecvCloses \/ SendCloses
  BY <1>4, CloseConnects DEF RecvCloses, SendCloses, CloseSlot
<1>5. CASE Select \/ SelectDies \/ NoCgi \/ CgiRead \/ CgiDies \/ SkipSlot
  <2>1. net' = net
    BY <1>5 DEF Select, SelectDies, NoCgi, CgiRead, CgiDies, SkipSlot, Die, world
  <2> QED
    BY <2>1, StaysConnects
<1> QED
  BY <1>1, <1>2, <1>3, <1>4, <1>5, AcceptConnects, HandlerConnects DEF ServerStep

LEMMA ShutdownConnects == ASSUME Full, Shutdown PROVE Connects
<1> DEFINE gone == {s \in Slot : Peer(s).socket # NO_SOCKET}
<1>1. net' = [c \in Client |->
                IF \E s \in gone : Peer(s).socket = c
                  THEN [net[c] EXCEPT !.conn = "closed", !.inq = <<>>]
                ELSE IF Waiting(c) THEN [net[c] EXCEPT !.conn = "refused", !.inq = <<>>]
                ELSE net[c]]
  BY DEF Shutdown, ShutdownOf
<1> HIDE DEF gone
<1>2. ASSUME NEW c \in Client
      PROVE  net'[c].st = net[c].st /\ (net'[c].conn = "none" => net[c].conn = "none")
  <2>1. DOMAIN net[c] = NetFields
    BY DEF Full, IInv, SlotInv, Shape
  <2>2. \A v : /\ [net[c] EXCEPT !.conn = v, !.inq = <<>>].conn = v
               /\ [net[c] EXCEPT !.conn = v, !.inq = <<>>].st = net[c].st
    BY <2>1 DEF NetFields
  <2> QED
    BY <1>1, <2>2
<1> QED
  BY <1>2 DEF Connects

LEMMA NextConnects == ASSUME Full, [Next]_vars PROVE Connects
<1>1. CASE Environment
  <2>1. ASSUME NEW c \in Client, Connect(c) PROVE Connects
    BY <2>1 DEF Connect, Connects, Full, IInv, SlotInv, Shape, NetFields
  <2>2. ASSUME NEW c \in Client,
               ClientSend(c) \/ ClientRead(c) \/ ClientShutdown(c) \/ ClientVanish(c)
        PROVE  Connects
    BY <2>2, ClientTouches, SameConnects DEF Full, IInv
  <2>3. ASSUME NEW p \in Pids, ChildRead(p) \/ ChildWrite(p) \/ ChildExit(p) \/ ChildFails(p)
        PROVE  Connects
    BY <2>3, StaysConnects DEF ChildRead, ChildWrite, ChildExit, ChildFails
  <2> QED
    BY <1>1, <2>1, <2>2, <2>3 DEF Environment
<1> QED
  BY <1>1, ServerStepConnects, ShutdownConnects, StaysConnects
  DEF Next, Interrupt, SelectFails, vars
-----------------------------------------------------------------------------
\* Who has connected asks something.
Spoken == \A c \in Client : net[c].st # "off" => script[c] # <<>>

LEMMA InitSpoken == Init => Spoken
  BY DEF Init, Spoken

LEMMA NextSpoken == ASSUME Full, Spoken, [Next]_vars PROVE Spoken'
  BY NextConnects, ScriptStays DEF Spoken, Connects

\* The client of a slot is one that asks something.
LEMMA SlotSpeaks ==
  ASSUME Full, Spoken, NEW s \in Slot, connection_list[s].socket # NULL
  PROVE  /\ connection_list[s].socket \in Client
         /\ script[connection_list[s].socket] # <<>>
         /\ net[connection_list[s].socket].conn = "open"
<1>1. connection_list[s].socket \in Client
  BY DEF Full, IInv, SlotInv, Sockets
<1>2. net[connection_list[s].socket].conn = "open"
  BY <1>1 DEF Full, IInv, SlotInv, SlotsMatchConnections, Peer
<1> QED
  BY <1>1, <1>2 DEF Full, IInv, SlotInv, BacklogInv, Spoken

\* When one client only, or one slot, is there, one slot at most is taken.
LEMMA OneSlot ==
  ASSUME Full, Spoken, Single(script), NEW s \in Slot, NEW t \in Slot,
         connection_list[s].socket # NULL, connection_list[t].socket # NULL
  PROVE  s = t
<1>1. CASE MAX_CLIENTS = 1
  BY <1>1 DEF Slot
<1>2. CASE Alone(script)
  <2>1. connection_list[s].socket = connection_list[t].socket
    BY <1>2, SlotSpeaks DEF Alone
  <2> QED
    BY <2>1, TwoClients
<1> QED
  BY <1>1, <1>2 DEF Single
-----------------------------------------------------------------------------
(* Where no script can be asked for, there is no executor.                 *)

FreeInv ==
  \A s \in Slot :
    LET p == connection_list[s]
    IN /\ p.cgi_executor = NULL /\ p.http_task.state # "PROCESSING_CGI"
       /\ p.socket = NULL => Emptied(p)

LEMMA NextFree ==
  ASSUME Full, NoScripts(script), FreeInv, [Next]_vars PROVE FreeInv'
<1>1. cur \in Slot /\ Me = connection_list[cur] /\ Task = Me.http_task
  BY CurrentTyped
<1>2. CASE Calm
  BY <1>2 DEF Calm, FreeInv, Slot
<1>3. CASE Accepts
  BY <1>3, StateAssumption DEF Accepts, FreeInv, Slot, FreshTask
<1>4. CASE Works \/ Begins \/ Refuses \/ Finishes
  BY <1>1, <1>4
  DEF Works, Begins, Refuses, Finishes, OnlyCurrent, StaysConnected, TaskThen, ExecutorThen,
      FreeInv, Slot, Parsed
<1>5. ~Ends
  BY <1>1 DEF Ends, FreeInv
<1>6. ~Starts
  <2>1. request # NULL => request.of \in Asked(script)
    BY DEF Full, Typed, RequestTyped
  <2> QED
    BY <2>1 DEF Starts, NoScripts, Wanted, RequestOf
<1> QED
  BY <1>2, <1>3, <1>4, <1>5, <1>6, NextKind DEF Kind
-----------------------------------------------------------------------------
(* Where no client inherits a slot or shares the request, the request of a *)
(* task stays until it is finished, and an executor until its script ends. *)

Kept(s) ==
  LET p == connection_list[s]
  IN p.socket # NULL =>
       /\ p.http_task.state # "RECV_HEADER_STATE" =>
            request # NULL /\ request.of = p.http_task.own /\ ~request.freed
       /\ p.cgi_executor # NULL => p.http_task.state = "PROCESSING_CGI"

\* No client that asks something has been accepted yet.
NobodyYet == \A c \in Client : net[c].conn = "none" \/ script[c] = <<>>

NoExecutors == \A s \in Slot : connection_list[s].cgi_executor = NULL

KeepInv == (\A s \in Slot : Kept(s)) /\ (NobodyYet => NoExecutors)

\* A pointer to a request is not NULL.
LEMMA RequestThere ==
  ASSUME NEW r \in Client \X Nat PROVE [of |-> r, freed |-> FALSE] # NULL
<1>1. [of |-> r, freed |-> FALSE] \in [of : Client \X Nat, freed : BOOLEAN]
  OBVIOUS
<1> QED
  BY <1>1, StateAssumption

LEMMA NobodyStays ==
  ASSUME Connects, script' = script, NobodyYet' PROVE NobodyYet
  BY DEF Connects, NobodyYet

LEMMA BegunRequest ==
  ASSUME Full', script' = script, Begins PROVE request' # NULL /\ request'.of = TaskThen.own
<1> DEFINE t == TaskThen
<1>1. cur' = cur /\ t.state \in Parsed /\ request' = [of |-> t.own, freed |-> FALSE]
  BY DEF Begins
<1>2. TaskTyped(script, t) /\ ScriptTyped
  BY <1>1 DEF Full, Typed, IInv, SlotInv, Shape, SlotsTyped, SlotTyped, Slot, TaskThen, ScriptTyped
<1> HIDE DEF t
<1>3. t.own \in Client \X Nat
  BY <1>1, <1>2 DEF TaskTyped, Asked
<1> QED
  BY <1>1, <1>3, RequestThere DEF t

LEMMA NextKeep ==
  ASSUME Full, Full', Spoken, NeverInherits(script), KeepInv, NoScripts(script) => FreeInv,
         [Next]_vars
  PROVE  KeepInv'
<1>1. /\ cur \in Slot /\ Me = connection_list[cur] /\ Task = Me.http_task
      /\ pc = "http" => Me.socket # NULL
  BY CurrentTyped
<1>2. script' = script /\ Connects
  BY ScriptStays, NextConnects
<1>3. Single(script)
  BY DEF NeverInherits, Single
<1>4. ASSUME NEW s \in Slot, s # cur, Me.socket # NULL PROVE connection_list[s].socket = NULL
  BY <1>1, <1>3, <1>4, OneSlot
<1>5. CASE Calm
  <2>1. \A s \in Slot : Kept(s)'
    BY <1>5 DEF Calm, KeepInv, Kept, Slot
  <2>2. NoExecutors => NoExecutors'
    BY <1>5 DEF Calm, NoExecutors, Slot
  <2> QED
    BY <1>2, <2>1, <2>2, NobodyStays DEF KeepInv, Slot
<1>6. CASE Accepts
  <2>1. PICK s \in Slot, c \in Client :
          LET p == connection_list[s]
              q == connection_list'[s]
          IN /\ p.socket = NULL /\ net[c].conn = "none" /\ net[c].st # "off"
             /\ q.socket = c /\ q.http_task = FreshTask /\ q.cgi_executor = p.cgi_executor
             /\ \A t \in Slot : t # s => connection_list'[t] = connection_list[t]
    BY <1>6 DEF Accepts
  <2>2. connection_list[s].cgi_executor = NULL
    <3>1. CASE Alone(script)
      <4>1. script[c] # <<>>
        BY <2>1 DEF Spoken
      <4>2. NobodyYet
        BY <2>1, <3>1, <4>1 DEF Alone, NobodyYet
      <4> QED
        BY <4>2 DEF KeepInv, NoExecutors
    <3>2. CASE NoScripts(script)
      BY <3>2 DEF FreeInv
    <3> QED
      BY <3>1, <3>2 DEF NeverInherits
  <2>3. FreshTask.state = "RECV_HEADER_STATE" /\ request' = request
    BY <1>6 DEF FreshTask, Accepts
  <2>4. \A t \in Slot : Kept(t)'
    BY <2>1, <2>2, <2>3 DEF KeepInv, Kept, Slot
  <2>5. NoExecutors => NoExecutors'
    BY <2>1, <2>2 DEF NoExecutors, Slot
  <2> QED
    BY <1>2, <2>4, <2>5, NobodyStays DEF KeepInv, Slot
<1>7. CASE Ends
  <2>1. Kept(cur)
    BY <1>1 DEF KeepInv
  <2>2. \A s \in Slot : Kept(s)'
    BY <1>1, <1>7, <2>1 DEF Ends, OnlyCurrent, TaskThen, ExecutorThen, KeepInv, Kept, Slot
  <2>3. NoExecutors => NoExecutors'
    BY <1>7 DEF Ends, OnlyCurrent, ExecutorThen, NoExecutors, Slot
  <2> QED
    BY <1>2, <2>2, <2>3, NobodyStays DEF KeepInv, Slot
<1>8. CASE Works
  <2>1. Kept(cur)
    BY <1>1 DEF KeepInv
  <2>2. \A s \in Slot : Kept(s)'
    BY <1>1, <1>8, <2>1
    DEF Works, StaysConnected, OnlyCurrent, TaskThen, ExecutorThen, KeepInv, Kept, Slot
  <2>3. NoExecutors => NoExecutors'
    BY <1>1, <1>8 DEF Works, StaysConnected, OnlyCurrent, ExecutorThen, NoExecutors, Slot
  <2> QED
    BY <1>2, <2>2, <2>3, NobodyStays DEF KeepInv, Slot
<1>9. CASE Begins \/ Refuses \/ Finishes
  <2>1. Kept(cur) /\ Me.socket # NULL
    BY <1>1, <1>9 DEF KeepInv, Begins, Refuses, Finishes
  <2>2. Begins => request' # NULL /\ request'.of = TaskThen.own /\ ~request'.freed
    BY <1>2, BegunRequest DEF Begins
  <2>3. \A s \in Slot : s # cur => connection_list'[s].socket = NULL
    BY <1>4, <1>9, <2>1 DEF Begins, Refuses, Finishes, StaysConnected, OnlyCurrent
  <2>4. \A s \in Slot : Kept(s)'
    BY <1>1, <1>9, <2>1, <2>2, <2>3
    DEF Begins, Refuses, Finishes, StaysConnected, TaskThen, ExecutorThen, Kept, Parsed
  <2>5. NoExecutors => NoExecutors'
    BY <1>1, <1>9
    DEF Begins, Refuses, Finishes, StaysConnected, OnlyCurrent, ExecutorThen, NoExecutors, Slot
  <2> QED
    BY <1>2, <2>4, <2>5, NobodyStays DEF KeepInv, Slot
<1>10. CASE Starts
  <2>1. Kept(cur) /\ Me.socket # NULL
    BY <1>1, <1>10 DEF KeepInv, Starts
  <2>2. \A s \in Slot : Kept(s)'
    BY <1>1, <1>10, <2>1
    DEF Starts, StaysConnected, OnlyCurrent, TaskThen, KeepInv, Kept, Slot
  <2>3. ~NobodyYet
    <3>1. /\ Me.socket \in Client /\ script[Me.socket] # <<>>
          /\ net[Me.socket].conn = "open"
      BY <1>1, <2>1, SlotSpeaks
    <3> QED
      BY <3>1 DEF NobodyYet
  <2> QED
    BY <1>2, <2>2, <2>3, NobodyStays DEF KeepInv, Slot
<1> QED
  BY <1>5, <1>6, <1>7, <1>8, <1>9, <1>10, NextKind DEF Kind
-----------------------------------------------------------------------------
(* Where requests do not share the global pointer, the pointer is the      *)
(* request of the task that takes its body or is about to use it.          *)

OwnRequest(s) ==
  LET p == connection_list[s]
  IN p.socket # NULL /\ p.http_task.state \in TakesBody =>
       /\ request # NULL /\ request.of = p.http_task.own
       /\ NoBody(script) => s = cur /\ pc \in {"http", "dead"}

OwnInv == \A s \in Slot : OwnRequest(s)

\* A task that waits for its body has one to wait for.
LEMMA BodyAwaited ==
  ASSUME Full, InputInv, pc = "http", Task.state = "RECV_BODY_STATE",
         Task.body_bytes_num > 0
  PROVE  ~NoBody(script)
<1> DEFINE own == Task.own
           c == Me.socket
           k == net[c]
<1>1. /\ cur \in Slot /\ Me = connection_list[cur] /\ Task = Me.http_task
      /\ c \in Client /\ c # NULL
  BY CurrentTyped
<1>2. own \in Asked(script) /\ Reads(script, proc, c, Task, Me.receiving_buffer, k)
  BY <1>1, SlotOfClient DEF TakesBody
<1>3. Taking(script, proc, Task, k, Unread(Task, Me.receiving_buffer, k.inq))
  BY <1>2 DEF Reads, TakesBody
<1>4. /\ script[own[1]][own[2]].method = "POST" /\ script[own[1]][own[2]].length \in Nat
      /\ Task.body_bytes_num = script[own[1]][own[2]].length
  BY <1>3 DEF Taking
<1> HIDE DEF own
<1> QED
  BY <1>2, <1>4 DEF NoBody

LEMMA NextOwn ==
  ASSUME Full, Full', Spoken, InputInv, Unshared(script), OwnInv, [Next]_vars
  PROVE  OwnInv'
<1>1. /\ cur \in Slot /\ Me = connection_list[cur] /\ Task = Me.http_task
      /\ pc = "http" => Me.socket # NULL
  BY CurrentTyped
<1>2. script' = script
  BY ScriptStays
<1>3. ASSUME NEW s \in Slot, s # cur, Me.socket # NULL, connection_list[s].socket # NULL
      PROVE  connection_list[s].http_task.state \notin TakesBody
  <2>1. CASE Single(script)
    BY <1>1, <1>3, <2>1, OneSlot
  <2>2. CASE NoBody(script)
    BY <1>3, <2>2 DEF OwnInv, OwnRequest
  <2> QED
    BY <2>1, <2>2 DEF Unshared
<1> DEFINE nobody == NoBody(script)
<1>4. nobody' = nobody
  BY <1>2 DEF NoBody, Asked
<1>5. SUFFICES ASSUME NEW s \in Slot, connection_list'[s].socket # NULL,
                      connection_list'[s].http_task.state \in TakesBody
               PROVE  /\ request' # NULL /\ request'.of = connection_list'[s].http_task.own
                      /\ nobody => s = cur' /\ pc' \in {"http", "dead"}
  BY <1>4 DEF OwnInv, OwnRequest, Slot
<1>6. /\ OwnRequest(s) /\ OwnRequest(cur)
      /\ nobody = NoBody(script)
  BY <1>1 DEF OwnInv
<1> HIDE DEF nobody
<1>7. CASE Calm
  BY <1>5, <1>6, <1>7 DEF Calm, OwnRequest, Task
<1>8. CASE Accepts
  BY <1>5, <1>6, <1>8 DEF Accepts, OwnRequest, FreshTask, TakesBody
<1>9. CASE Ends
  BY <1>1, <1>5, <1>6, <1>9 DEF Ends, OnlyCurrent, TaskThen, OwnRequest, TakesBody
<1>10. CASE Works
  <2>1. ASSUME s # cur PROVE FALSE
    BY <1>3, <1>5, <1>10, <2>1 DEF Works, StaysConnected, OnlyCurrent
  <2>2. s = cur /\ TaskThen.state \in TakesBody /\ Task.state = "RECV_BODY_STATE"
    BY <1>5, <1>10, <2>1 DEF Works, TaskThen
  <2>3. /\ request' = request /\ request # NULL /\ request.of = TaskThen.own
    BY <1>1, <1>6, <1>10, <2>2 DEF Works, OwnRequest, TakesBody
  <2>4. nobody => s = cur' /\ pc' = "http"
    BY <1>6, <1>10, <2>2, BodyAwaited DEF Works, TakesBody
  <2> QED
    BY <2>2, <2>3, <2>4 DEF TaskThen
<1>11. CASE Begins
  <2>1. s = cur
    BY <1>3, <1>5, <1>11 DEF Begins, StaysConnected, OnlyCurrent
  <2> QED
    BY <1>2, <1>11, <2>1, BegunRequest DEF Begins, TaskThen
<1>12. CASE Refuses \/ Starts \/ Finishes
  BY <1>1, <1>3, <1>5, <1>12
  DEF Refuses, Starts, Finishes, StaysConnected, OnlyCurrent, TaskThen, TakesBody
<1> QED
  BY <1>7, <1>8, <1>9, <1>10, <1>11, <1>12, NextKind DEF Kind
-----------------------------------------------------------------------------
(* What the children are given.                                            *)

\* All that the script of request r is given.
Whole(sc, r) ==
  LET q == sc[r[1]][r[2]]
  IN IF q.method = "POST" /\ BodyFits(q) THEN Body(r, BodyLen(q)) ELSE <<>>

\* x is the child of request r.
ChildIn(sc, r, x) ==
  /\ x.stdin \in Seq(Piece(sc)) /\ x.read \in Seq(Piece(sc))
  /\ x.st = "none" => x.stdin = <<>> /\ x.read = <<>>
  /\ x.st # "none" => x.env = r

\* e is an executor, x its child.
BufferIn(sc, e, x) ==
  /\ e.cgi_buffer \in Seq(Piece(sc))
  /\ e.live => /\ x.st # "none"
               /\ Cat(Cat(x.read, x.stdin), e.cgi_buffer) = Whole(sc, e.pid)
  /\ ~e.live => e.cgi_buffer = <<>>

\* Two executors do not feed the same child.
OneFeeds(ex) ==
  \A a, b \in ExecAddr : ex[a].live /\ ex[b].live /\ ex[a].pid = ex[b].pid => a = b

ExecInv ==
  /\ \A r \in Asked(script) : ChildIn(script, r, proc[r])
  /\ \A a \in ExecAddr : BufferIn(script, execs[a], proc[execs[a].pid])
  /\ OneFeeds(execs)

\* Executors are given up at most, and no child gets or takes any input.
Frees ==
  /\ script' = script
  /\ \A r \in Asked(script) :
       /\ proc'[r].stdin = proc[r].stdin /\ proc'[r].read = proc[r].read
       /\ proc'[r].env = proc[r].env /\ (proc'[r].st = "none" <=> proc[r].st = "none")
  /\ \A a \in ExecAddr :
       execs'[a] = execs[a] \/ (~execs'[a].live /\ execs'[a].cgi_buffer = <<>>)

LEMMA FreesInput == ASSUME Full, ExecInv, Frees PROVE ExecInv'
<1>1. \A r \in Asked(script) : ChildIn(script, r, proc'[r])
  BY DEF ExecInv, Frees, ChildIn
<1>2. ASSUME NEW a \in ExecAddr PROVE BufferIn(script, execs'[a], proc'[execs'[a].pid])
  <2>1. CASE execs'[a] = execs[a]
    <3>1. execs[a].live => execs[a].pid \in Asked(script)
      BY DEF Full, Typed, ExecTyped
    <3> QED
      BY <2>1, <3>1 DEF ExecInv, Frees, BufferIn
  <2>2. CASE ~execs'[a].live /\ execs'[a].cgi_buffer = <<>>
    BY <2>2, NoPieces DEF BufferIn
  <2> QED
    BY <2>1, <2>2 DEF Frees
<1>3. OneFeeds(execs')
  BY DEF ExecInv, Frees, OneFeeds
<1> QED
  BY <1>1, <1>2, <1>3 DEF ExecInv, Frees, OneFeeds

\* Neither executors nor the input of children change.
LEMMA StaysFrees ==
  ASSUME UNCHANGED <<execs, proc, script>> PROVE Frees
  BY DEF Frees

LEMMA FreeExecutorFrees ==
  ASSUME Full, NEW a, free_CGI_executor(a), UNCHANGED <<proc, script>> PROVE Frees
<1>1. DOMAIN execs = ExecAddr /\ \A x \in ExecAddr : DOMAIN execs[x] = ExecFields
  BY DEF Full, Typed, ExecTyped
<1> QED
  BY <1>1 DEF free_CGI_executor, Frees, ExecFields

\* What the pipe takes is what the buffer loses, in this order.
LEMMA GivenOn ==
  ASSUME NEW S, NEW r \in Seq(S), NEW i \in Seq(S), NEW b \in Seq(S), NEW n \in 0 .. Len(b)
  PROVE  /\ i \o Take(b, n) \in Seq(S) /\ Drop(b, n) \in Seq(S)
         /\ Cat(Cat(r, i \o Take(b, n)), Drop(b, n)) = Cat(Cat(r, i), b)
<1> DEFINE x == Take(b, n)
           y == Drop(b, n)
<1>1. x \in Seq(S) /\ y \in Seq(S) /\ x \o y = b
  BY TakeType, DropType, TakeDrop
<1> HIDE DEF x, y
<1>2. i \o x \in Seq(S)
  BY <1>1, ConcatProperties
<1>3. Cat(Cat(r, Cat(i, x)), y) = Cat(Cat(r, i), Cat(x, y))
  BY <1>1, Moved
<1>4. Cat(i, x) = i \o x /\ Cat(x, y) = b
  BY <1>1 DEF Cat
<1>5. Cat(Cat(r, i \o x), y) = Cat(Cat(r, i), b)
  BY <1>3, <1>4
<1> QED
  BY <1>1, <1>2, <1>5 DEF x, y

LEMMA SendToCGIInput ==
  ASSUME Full, ExecInv, Me.cgi_executor # NULL, SendToCGI, script' = script
  PROVE  ExecInv'
<1> DEFINE a == Me.cgi_executor
           p == execs[a].pid
           b == execs[a].cgi_buffer
           S == Piece(script)
<1>1. CASE UNCHANGED <<execs, proc>>
  BY <1>1, StaysFrees, FreesInput
<1>2. CASE ~UNCHANGED <<execs, proc>>
  <2>1. PICK n \in 1 .. Len(b) :
          /\ execs' = [execs EXCEPT ![a].cgi_buffer = Drop(@, n)]
          /\ proc' = [proc EXCEPT ![p].stdin = @ \o Take(b, n)]
    BY <1>2 DEF SendToCGI, Executor
  <2>2. /\ a \in ExecAddr /\ p \in Asked(script) /\ DOMAIN proc = Asked(script)
        /\ DOMAIN proc[p] = ProcFields /\ DOMAIN execs = ExecAddr /\ DOMAIN execs[a] = ExecFields
    BY ChildOfSlot DEF Executor, Full, Typed, ExecTyped, ProcTyped
  <2>3. BufferIn(script, execs[a], proc[p]) /\ ChildIn(script, p, proc[p]) /\ OneFeeds(execs)
    BY <2>2 DEF ExecInv
  <2>4. /\ b \in Seq(S) /\ proc[p].read \in Seq(S) /\ proc[p].stdin \in Seq(S)
        /\ n \in 0 .. Len(b)
    <3>1. b \in Seq(S) /\ proc[p].read \in Seq(S) /\ proc[p].stdin \in Seq(S)
      BY <2>3 DEF BufferIn, ChildIn
    <3>2. n \in 0 .. Len(b)
      <4> HIDE DEF b
      <4> QED
        BY <2>1
    <3> QED
      BY <3>1, <3>2
  <2>5. execs[a].live
    <3>1. ASSUME b = <<>> PROVE FALSE
      BY <2>1, <3>1
    <3> QED
      BY <2>3, <3>1 DEF BufferIn
  <2>6. proc[p].st # "none" /\ proc[p].env = p
    BY <2>3, <2>5 DEF BufferIn, ChildIn
  <2> DEFINE i == proc[p].stdin \o Take(b, n)
             d == Drop(b, n)
  <2>7. /\ i \in Seq(S) /\ d \in Seq(S)
        /\ Cat(Cat(proc[p].read, i), d) = Cat(Cat(proc[p].read, proc[p].stdin), b)
    BY <2>4, GivenOn
  <2> HIDE DEF i, d, S
  <2>8. /\ proc' = [proc EXCEPT ![p] = [proc[p] EXCEPT !.stdin = i]]
        /\ execs' = [execs EXCEPT ![a] = [execs[a] EXCEPT !.cgi_buffer = d]]
    BY <2>1, <2>2 DEF i, d
  <2> DEFINE x == [proc[p] EXCEPT !.stdin = i]
             e == [execs[a] EXCEPT !.cgi_buffer = d]
  <2>9. /\ x.stdin = i /\ x.read = proc[p].read /\ x.st = proc[p].st /\ x.env = proc[p].env
        /\ e.cgi_buffer = d /\ e.live = execs[a].live /\ e.pid = p
    BY <2>2 DEF ProcFields, ExecFields
  <2> HIDE DEF x, e
  <2>10. /\ \A r \in Asked(script) : proc'[r] = IF r = p THEN x ELSE proc[r]
         /\ \A y \in ExecAddr : execs'[y] = IF y = a THEN e ELSE execs[y]
    BY <2>2, <2>8 DEF x, e
  <2>11. ChildIn(script, p, x)
    BY <2>3, <2>6, <2>7, <2>9 DEF ChildIn, S
  <2>12. \A r \in Asked(script) : ChildIn(script, r, proc'[r])
    BY <2>10, <2>11 DEF ExecInv
  <2>13. BufferIn(script, e, x)
    BY <2>3, <2>5, <2>6, <2>7, <2>9 DEF BufferIn, S
  <2>14. ASSUME NEW y \in ExecAddr PROVE BufferIn(script, execs'[y], proc'[execs'[y].pid])
    <3>1. CASE y = a
      BY <2>2, <2>9, <2>10, <2>13, <3>1
    <3>2. CASE y # a /\ ~execs[y].live
      BY <2>10, <3>2 DEF ExecInv, BufferIn
    <3>3. CASE y # a /\ execs[y].live
      <4>1. execs[y].pid # p
        BY <2>2, <2>3, <2>5, <3>3 DEF OneFeeds
      <4>2. execs[y].pid \in Asked(script)
        BY <3>3 DEF Full, Typed, ExecTyped
      <4> QED
        BY <2>10, <3>3, <4>1, <4>2 DEF ExecInv
    <3> QED
      BY <3>1, <3>2, <3>3
  <2>15. OneFeeds(execs')
    BY <2>3, <2>9, <2>10 DEF OneFeeds
  <2> QED
    BY <2>12, <2>14, <2>15 DEF ExecInv, OneFeeds
<1> QED
  BY <1>1, <1>2

LEMMA ChildReadInput ==
  ASSUME Full, ExecInv, NEW p \in Asked(script), ChildRead(p) PROVE ExecInv'
<1> DEFINE S == Piece(script)
           r == proc[p].read \o proc[p].stdin
           x == [proc[p] EXCEPT !.read = r, !.stdin = <<>>]
<1>1. UNCHANGED <<execs, script>> /\ proc[p].st = "run"
  BY DEF ChildRead, UnchangedServer, peers
<1>2. DOMAIN proc = Asked(script) /\ DOMAIN proc[p] = ProcFields
  BY DEF Full, Typed, ProcTyped
<1>3. ChildIn(script, p, proc[p])
  BY DEF ExecInv
<1>4. proc[p].read \in Seq(S) /\ proc[p].stdin \in Seq(S) /\ proc[p].env = p
  BY <1>1, <1>3 DEF ChildIn
<1>5. r \in Seq(S) /\ r \o <<>> = r /\ <<>> \in Seq(S)
  BY <1>4, ConcatProperties, ConcatEmptySeq, NoPieces
<1>6. r = Cat(proc[p].read, proc[p].stdin) /\ r = Cat(r, <<>>)
  BY <1>5 DEF Cat
<1>7. proc' = [proc EXCEPT ![p] = x]
  BY <1>2 DEF ChildRead
<1> HIDE DEF r
<1>8. x.read = r /\ x.stdin = <<>> /\ x.st = "run" /\ x.env = p
  BY <1>1, <1>2, <1>4 DEF ProcFields
<1> HIDE DEF x
<1>9. \A y \in Asked(script) : proc'[y] = IF y = p THEN x ELSE proc[y]
  BY <1>2, <1>7
<1>10. \A y \in Asked(script) : ChildIn(script, y, proc'[y])
  <2>1. ChildIn(script, p, x)
    BY <1>5, <1>8 DEF ChildIn
  <2> QED
    BY <1>9, <2>1 DEF ExecInv
<1>11. ASSUME NEW a \in ExecAddr PROVE BufferIn(script, execs[a], proc'[execs[a].pid])
  <2>1. BufferIn(script, execs[a], proc[execs[a].pid])
    BY DEF ExecInv
  <2>2. CASE ~execs[a].live
    BY <2>1, <2>2 DEF BufferIn
  <2>3. CASE execs[a].live /\ execs[a].pid = p
    BY <1>6, <1>8, <1>9, <2>1, <2>3 DEF BufferIn
  <2>4. CASE execs[a].live /\ execs[a].pid # p
    <3>1. execs[a].pid \in Asked(script)
      BY <2>4 DEF Full, Typed, ExecTyped
    <3> QED
      BY <1>9, <2>1, <2>4, <3>1
  <2> QED
    BY <2>2, <2>3, <2>4
<1> QED
  BY <1>1, <1>10, <1>11 DEF ExecInv, OneFeeds

\* The body that a script is started with is the one of its request.
LEMMA StartsWhole ==
  ASSUME Full, InputInv, OwnInv, CheckCgi
  PROVE  LET body == IF Wanted.method = "POST" THEN Task.post_body ELSE <<>>
         IN /\ request.of = Task.own /\ Task.own \in Asked(script)
            /\ proc[Task.own].st = "none"
            /\ body \in Seq(Piece(script))
            /\ (IF Len(body) <= BUF_DATA_MAXSIZE THEN body ELSE <<>>) = Whole(script, Task.own)
<1> DEFINE own == Task.own
           c == Me.socket
           k == net[c]
           q == script[own[1]][own[2]]
           body == IF Wanted.method = "POST" THEN Task.post_body ELSE <<>>
<1>1. pc = "http" /\ Task.state = "CHECK_CGI"
  BY DEF CheckCgi, InHandler
<1>2. /\ cur \in Slot /\ Me = connection_list[cur] /\ Task = Me.http_task
      /\ c \in Client /\ c # NULL /\ TaskTyped(script, Task)
  BY <1>1, CurrentTyped
<1>3. own \in Asked(script) /\ Reads(script, proc, c, Task, Me.receiving_buffer, k)
  BY <1>1, <1>2, SlotOfClient DEF TakesBody
<1>4. Taking(script, proc, Task, k, Unread(Task, Me.receiving_buffer, k.inq))
  BY <1>1, <1>3 DEF Reads, TakesBody
<1>5. /\ proc[own].st = "none"
      /\ q.method = "POST" => q.length \in Nat /\ Task.post_body = Body(own, q.length)
  BY <1>1, <1>4 DEF Taking
<1>6. OwnRequest(cur)
  BY <1>2 DEF OwnInv
<1>7. request.of = own
  BY <1>1, <1>2, <1>6 DEF OwnRequest, TakesBody
<1>8. Wanted = q
  BY <1>7 DEF Wanted, RequestOf
<1>9. body \in Seq(Piece(script))
  BY <1>2, NoPieces DEF TaskTyped
<1>10. (IF Len(body) <= BUF_DATA_MAXSIZE THEN body ELSE <<>>) = Whole(script, own)
  <2>1. CASE q.method = "POST"
    <3>1. BodyLen(q) = q.length /\ body = Body(own, q.length) /\ Len(body) = q.length
      BY <1>5, <1>8, <2>1, BodyType DEF BodyLen, HasLength
    <3> HIDE DEF body
    <3> QED
      BY <2>1, <3>1 DEF Whole, BodyFits
  <2>2. CASE q.method # "POST"
    <3>1. body = <<>>
      BY <1>8, <2>2
    <3> HIDE DEF body
    <3> QED
      BY <2>2, <3>1 DEF Whole
  <2> QED
    BY <2>1, <2>2
<1> QED
  BY <1>3, <1>5, <1>7, <1>9, <1>10

LEMMA CheckCgiInput ==
  ASSUME Full, InputInv, OwnInv, ExecInv, CheckCgi PROVE ExecInv'
<1> DEFINE own == Task.own
           body == IF Wanted.method = "POST" THEN Task.post_body ELSE <<>>
           in == IF Len(body) <= BUF_DATA_MAXSIZE THEN body ELSE <<>>
           holds == {Peer(s).socket : s \in Connected}
           e == [live |-> TRUE, pid |-> own, cgi_buffer |-> in]
           x == [proc[own] EXCEPT !.st = "run", !.env = request.of, !.holds = holds]
<1>1. /\ request.of = own /\ own \in Asked(script) /\ proc[own].st = "none"
      /\ body \in Seq(Piece(script)) /\ in = Whole(script, own)
  BY StartsWhole
<1>2. PICK a \in ExecAddr : ~execs[a].live /\ start_CGI_script(a, body)
  BY DEF CheckCgi
<1>3. script' = script
  BY DEF CheckCgi
<1>4. /\ DOMAIN proc = Asked(script) /\ DOMAIN proc[own] = ProcFields /\ DOMAIN execs = ExecAddr
      /\ ChildIn(script, own, proc[own])
  BY <1>1 DEF Full, Typed, ProcTyped, ExecTyped, ExecInv
<1>5. in \in Seq(Piece(script))
  BY <1>1, NoPieces
<1>6. execs' = [execs EXCEPT ![a] = e] /\ proc' = [proc EXCEPT ![own] = x]
  BY <1>2, <1>4 DEF start_CGI_script, build_CGI_param
<1> HIDE DEF in, holds
<1>7. /\ e.live /\ e.pid = own /\ e.cgi_buffer = in
      /\ x.st = "run" /\ x.env = own /\ x.stdin = <<>> /\ x.read = <<>>
  BY <1>1, <1>4 DEF ProcFields, ChildIn
<1> HIDE DEF e, x
<1>8. /\ \A r \in Asked(script) : proc'[r] = IF r = own THEN x ELSE proc[r]
      /\ \A y \in ExecAddr : execs'[y] = IF y = a THEN e ELSE execs[y]
  BY <1>4, <1>6
<1>9. ChildIn(script, own, x)
  BY <1>7, NoPieces DEF ChildIn
<1>10. \A r \in Asked(script) : ChildIn(script, r, proc'[r])
  BY <1>8, <1>9 DEF ExecInv
<1>11. BufferIn(script, e, x)
  <2>1. <<>> \o <<>> = <<>> /\ <<>> \o in = in
    BY <1>5, ConcatEmptySeq, NoPieces
  <2>2. Cat(Cat(<<>>, <<>>), in) = in
    BY <2>1 DEF Cat
  <2> QED
    BY <1>1, <1>5, <1>7, <2>2 DEF BufferIn
<1>12. ASSUME NEW y \in ExecAddr, y # a, execs[y].live
       PROVE  execs[y].pid # own /\ execs[y].pid \in Asked(script)
  <2>1. BufferIn(script, execs[y], proc[execs[y].pid])
    BY DEF ExecInv
  <2> QED
    BY <1>1, <1>12, <2>1 DEF BufferIn, Full, Typed, ExecTyped
<1>13. ASSUME NEW y \in ExecAddr PROVE BufferIn(script, execs'[y], proc'[execs'[y].pid])
  <2>1. CASE y = a
    BY <1>1, <1>7, <1>8, <1>11, <2>1
  <2>2. CASE y # a /\ execs[y].live
    BY <1>8, <1>12, <2>2 DEF ExecInv
  <2>3. CASE y # a /\ ~execs[y].live
    BY <1>8, <2>3 DEF ExecInv, BufferIn
  <2> QED
    BY <2>1, <2>2, <2>3
<1>14. OneFeeds(execs')
  BY <1>7, <1>8, <1>12 DEF ExecInv, OneFeeds
<1> QED
  BY <1>3, <1>10, <1>13, <1>14 DEF ExecInv, OneFeeds

LEMMA CgiWriteInput == ASSUME Full, ExecInv, CgiWrite PROVE ExecInv'
<1>1. Me.cgi_executor # NULL /\ script' = script
  BY DEF CgiWrite
<1>2. CASE UNCHANGED <<execs, proc>>
  BY <1>1, <1>2, StaysFrees, FreesInput
<1>3. CASE SendToCGI
  BY <1>1, <1>3, SendToCGIInput
<1>4. CASE close_client_connection(cur, net) /\ UNCHANGED proc
  <2>1. Frees
    BY <1>1, <1>4, FreeExecutorFrees DEF close_client_connection
  <2> QED
    BY <2>1, FreesInput
<1> QED
  BY <1>2, <1>3, <1>4 DEF CgiWrite

LEMMA CgiReadFrees == ASSUME Full, CgiRead PROVE Frees
<1>1. Me.cgi_executor # NULL /\ script' = script
  BY DEF CgiRead, Full, Typed, Control, Me
<1>2. CASE UNCHANGED <<execs, proc>>
  BY <1>1, <1>2, StaysFrees
<1>3. CASE PipeEof
  BY <1>1, <1>3, FreeExecutorFrees DEF PipeEof
<1>4. CASE PipeOutput
  <2> DEFINE p == Executor.pid
             n == Least(Len(proc[p].stdout), Room(Me.sending_buffer))
             out == Drop(proc[p].stdout, n)
  <2>1. proc' = [proc EXCEPT ![p].stdout = out] /\ execs' = execs
    BY <1>4 DEF PipeOutput
  <2>2. p \in Asked(script) /\ DOMAIN proc = Asked(script) /\ DOMAIN proc[p] = ProcFields
    BY <1>1, ChildOfSlot DEF Full, Typed, ProcTyped
  <2> HIDE DEF p, n, out
  <2> QED
    BY <1>1, <2>1, <2>2 DEF Frees, ProcFields
<1> QED
  BY <1>2, <1>3, <1>4 DEF CgiRead, PipeFull

LEMMA HandlerInput == ASSUME Full, InputInv, OwnInv, ExecInv, Handler PROVE ExecInv'
<1>1. CASE CheckCgi
  BY <1>1, CheckCgiInput
<1>2. CASE ReturnCloseNow
  <2>1. Frees
    BY <1>2, FreeExecutorFrees DEF ReturnCloseNow, close_client_connection
  <2> QED
    BY <2>1, FreesInput
<1>3. CASE UNCHANGED <<execs, proc, script>>
  BY <1>3, StaysFrees, FreesInput
<1> QED
  BY <1>1, <1>2, <1>3
  DEF Handler, HeaderIncomplete, HeaderTooLong, HeaderRefused, HeaderParsed, ReceiveBody,
      GenerateHeader, SendHeader, CheckStatic, ProcessingCgi, SendBody, SendBodyFails,
      Finish, HandlerDies, Continue, Die, peers, world

LEMMA ServerStepInput == ASSUME Full, InputInv, OwnInv, ExecInv, ServerStep PROVE ExecInv'
<1>1. CASE RecvCloses \/ SendCloses
  <2>1. UNCHANGED <<proc, script>> /\ free_CGI_executor(Peer(cur).cgi_executor)
    BY <1>1 DEF RecvCloses, SendCloses, CloseSlot, close_client_connection
  <2>2. Frees
    BY <2>1, FreeExecutorFrees
  <2> QED
    BY <2>2, FreesInput
<1>2. CASE \/ Select \/ SelectDies \/ Accept \/ NoCgi \/ CgiDies \/ SkipSlot \/ Recv \/ Send
  <2>1. UNCHANGED <<execs, proc, script>>
    BY <1>2 DEF Select, SelectDies, Accept, NoCgi, CgiDies, SkipSlot, Recv, Send, Die, peers, world
  <2> QED
    BY <2>1, StaysFrees, FreesInput
<1>3. CASE CgiRead
  BY <1>3, CgiReadFrees, FreesInput
<1> QED
  BY <1>1, <1>2, <1>3, CgiWriteInput, HandlerInput DEF ServerStep

LEMMA EnvironmentInput == ASSUME Full, ExecInv, Environment PROVE ExecInv'
<1>1. Pids = Asked(script) /\ UNCHANGED <<execs, script>>
  BY EnvironmentStays DEF Pids, Asked
<1>2. CASE proc' = proc
  BY <1>1, <1>2, StaysFrees, FreesInput
<1>3. ASSUME NEW p \in Asked(script), ChildWrite(p) \/ ChildExit(p) \/ ChildFails(p)
      PROVE  Frees
  <2>1. DOMAIN proc = Asked(script) /\ DOMAIN proc[p] = ProcFields
    BY DEF Full, Typed, ProcTyped
  <2>2. CASE ChildWrite(p)
    BY <1>1, <2>1, <2>2 DEF ChildWrite, Frees, ProcFields
  <2>3. CASE ChildExit(p)
    BY <1>1, <2>1, <2>3 DEF ChildExit, Frees, ProcFields
  <2>4. CASE ChildFails(p)
    BY <1>1, <2>1, <2>4 DEF ChildFails, Frees, ProcFields
  <2> QED
    BY <1>3, <2>2, <2>3, <2>4
<1>4. ASSUME NEW c \in Client, \/ Connect(c) \/ ClientSend(c) \/ ClientRead(c)
                               \/ ClientShutdown(c) \/ ClientVanish(c)
      PROVE  proc' = proc
  BY <1>4 DEF Connect, ClientSend, ClientRead, ClientShutdown, ClientVanish
<1> QED
  BY <1>1, <1>2, <1>3, <1>4, ChildReadInput, FreesInput DEF Environment

LEMMA NextExec == ASSUME Full, InputInv, OwnInv, ExecInv, [Next]_vars PROVE ExecInv'
<1>1. CASE Shutdown
  <2>1. DOMAIN execs = ExecAddr /\ \A x \in ExecAddr : DOMAIN execs[x] = ExecFields
    BY DEF Full, Typed, ExecTyped
  <2>2. UNCHANGED <<proc, script>>
    BY <1>1 DEF Shutdown, ShutdownOf
  <2>3. \A a \in ExecAddr :
          execs'[a] = execs[a] \/ execs'[a] = [execs[a] EXCEPT !.live = FALSE, !.cgi_buffer = <<>>]
    BY <1>1, <2>1 DEF Shutdown, ShutdownOf
  <2>4. Frees
    BY <2>1, <2>2, <2>3 DEF Frees, ExecFields
  <2> QED
    BY <2>4, FreesInput
<1>2. CASE UNCHANGED vars
  BY <1>2, StaysFrees, FreesInput DEF vars
<1> QED
  BY <1>1, <1>2, ServerStepInput, EnvironmentInput DEF Next, Interrupt, SelectFails

LEMMA InitExec == ASSUME Init PROVE ExecInv
<1>1. Pids = Asked(script)
  BY DEF Pids, Asked
<1>2. /\ \A a \in ExecAddr : ~execs[a].live /\ execs[a].cgi_buffer = <<>>
      /\ \A r \in Asked(script) : proc[r].st = "none" /\ proc[r].stdin = <<>> /\ proc[r].read = <<>>
  BY <1>1 DEF Init, FreeExecutor
<1> QED
  BY <1>2, NoPieces DEF ExecInv, ChildIn, BufferIn, OneFeeds

LEMMA ExecMeans == ASSUME Full, ExecInv PROVE ChildInputWhole
<1> SUFFICES ASSUME NEW a \in ExecAddr, execs[a].live
             PROVE  LET p == execs[a].pid
                        q == RequestOf(proc[p].env)
                    IN /\ proc[p].env = p
                       /\ proc[p].read \o proc[p].stdin \o execs[a].cgi_buffer =
                            IF q.method = "POST" /\ BodyFits(q)
                              THEN [i \in 1 .. BodyLen(q) |-> Token(p, "body", i)] ELSE <<>>
  BY DEF ChildInputWhole
<1> DEFINE p == execs[a].pid
<1>1. p \in Asked(script)
  BY DEF Full, Typed, ExecTyped
<1>2. BufferIn(script, execs[a], proc[p]) /\ ChildIn(script, p, proc[p])
  BY <1>1 DEF ExecInv
<1>3. proc[p].env = p /\ Cat(Cat(proc[p].read, proc[p].stdin), execs[a].cgi_buffer) = Whole(script, p)
  BY <1>2 DEF BufferIn, ChildIn
<1> QED
  BY <1>3 DEF Cat, Whole, RequestOf, Body
-----------------------------------------------------------------------------
(* The theorems.                                                           *)

\* What clients may ask does not change.
LEMMA AsksStay ==
  ASSUME [Next]_vars
  PROVE  /\ NoScripts(script)' <=> NoScripts(script)
         /\ NeverInherits(script)' <=> NeverInherits(script)
         /\ Unshared(script)' <=> Unshared(script)
  BY ScriptStays DEF NoScripts, NeverInherits, Unshared, Single, Alone, NoBody, Asked

Base == Full /\ InputInv /\ Spoken

LEMMA InitBase == Init => Base
  BY InitFull, InitInput, InitSpoken DEF Base

LEMMA NextBase == Base /\ [Next]_vars => Base'
  BY NextFull, NextInput, NextSpoken DEF Base

Freed == NoScripts(script) => FreeInv
Keeps == NeverInherits(script) => KeepInv
Given == Unshared(script) => OwnInv /\ ExecInv

LEMMA InitFreed == Init => Freed
  BY DEF Init, Freed, FreeInv, FreshPeer, FreshTask, Emptied

LEMMA NextFreed == Base /\ Freed /\ [Next]_vars => Freed'
  BY AsksStay, NextFree DEF Base, Freed

LEMMA InitKeeps == Init => Keeps
  BY DEF Init, Keeps, KeepInv, Kept, NoExecutors, FreshPeer, FreshTask

LEMMA NextKeeps == Base /\ Freed /\ Keeps /\ [Next]_vars => Keeps'
  BY AsksStay, NextFull, NextKeep DEF Base, Freed, Keeps

LEMMA InitGiven == Init => Given
<1> SUFFICES ASSUME Init PROVE OwnInv /\ ExecInv
  BY DEF Given
<1>1. OwnInv
  BY DEF Init, OwnInv, OwnRequest, FreshPeer, NO_SOCKET
<1> QED
  BY <1>1, InitExec

LEMMA NextGiven == Base /\ Given /\ [Next]_vars => Given'
  BY AsksStay, NextFull, NextOwn, NextExec DEF Base, Given

\* As long as no client asks for a script, a slot that close_client_connection gave
\* back (or that was never taken) holds no byte and no close request of its last
\* client, so that the next client starts from nothing.
THEOREM SlotsEmptied == Spec => [](NoScripts(script) => FreeSlotsAreEmpty)
<1>1. Init => Base /\ Freed
  BY InitBase, InitFreed
<1>2. (Base /\ Freed) /\ [Next]_vars => (Base /\ Freed)'
  BY NextBase, NextFreed
<1>3. Base /\ Freed => (NoScripts(script) => FreeSlotsAreEmpty)
  BY DEF Freed, FreeInv, FreeSlotsAreEmpty, Emptied, Peer, NO_SOCKET
<1> QED
  BY <1>1, <1>2, <1>3, PTL DEF Spec

\* Where one client only asks anything, or one slot only is there and no script can be
\* asked for, the global request that handle_http reads and frees is the one of the
\* task it works on, and has not been freed, whatever bodies and scripts the task has
\* to wait for.  (RequestKept in ServerAnswerProofs is about slots that share it.)
LEMMA RequestAlone == Spec => [](NeverInherits(script) => RequestIsOwn)
<1>1. Init => Base /\ Freed /\ Keeps
  BY InitBase, InitFreed, InitKeeps
<1>2. (Base /\ Freed /\ Keeps) /\ [Next]_vars => (Base /\ Freed /\ Keeps)'
  BY NextBase, NextFreed, NextKeeps
<1>3. Base /\ Freed /\ Keeps => (NeverInherits(script) => RequestIsOwn)
  <2> SUFFICES ASSUME Full, KeepInv, pc = "http", Task.state \in {"CHECK_CGI", "FINISHED_STATE"}
               PROVE  request # NULL /\ request.of = Task.own /\ ~request.freed
    BY DEF Base, Keeps, RequestIsOwn
  <2>1. /\ cur \in Slot /\ Me = connection_list[cur] /\ Task = Me.http_task
        /\ Me.socket # NULL
    BY CurrentTyped
  <2>2. Kept(cur)
    BY <2>1 DEF KeepInv
  <2> QED
    BY <2>1, <2>2 DEF Kept
<1> QED
  BY <1>1, <1>2, <1>3, PTL DEF Spec

\* Where one connection at most is open at a time, or no request has a body to wait
\* for, a script is given the body of its own request, whole and in order, or not a
\* byte of it: cgi_buffer, the pipe and the child's input make it up, through partial
\* writes, freed executors and slots that inherit one.
THEOREM BodiesWhole == Spec => [](Unshared(script) => ChildInputWhole)
<1>1. Init => Base /\ Given
  BY InitBase, InitGiven
<1>2. (Base /\ Given) /\ [Next]_vars => (Base /\ Given)'
  BY NextBase, NextGiven
<1>3. Base /\ Given => (Unshared(script) => ChildInputWhole)
  BY ExecMeans DEF Base, Given
<1> QED
  BY <1>1, <1>2, <1>3, PTL DEF Spec
=============================================================================
