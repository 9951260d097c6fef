-------------------------- MODULE ServerInvariants --------------------------
(***************************************************************************)
(* What always holds of the slots, their tasks, their executors and the    *)
(* global request, stated without a word about the bytes that travel.      *)
(***************************************************************************)
EXTENDS Server

States == {"RECV_HEADER_STATE", "RECV_BODY_STATE", "GENERATE_HEADER_STATE",
           "SEND_HEADER_STATE", "SEND_BODY_STATE", "FINISHED_STATE",
           "CHECK_CGI", "PROCESSING_CGI"}

IsPiece(t) == DOMAIN t = {"req", "part", "n"} /\ t.req \in Pids
Pieces(q) == \A i \in 1 .. Len(q) : IsPiece(q[i])

\* Every slot, queue and executor has the shape the code gives it, and no
\* buffer exceeds its capacity.
TypeOK ==
  /\ pc \in {"select", "accept", "cgi_write", "cgi_read", "recv", "send", "http", "dead", "exit"}
  /\ cur \in Slot /\ has_read \in BOOLEAN /\ has_sent \in BOOLEAN
  /\ \A s \in Slot :
       /\ Peer(s).socket \in Client \cup {NO_SOCKET}
       /\ Peer(s).cgi_executor \in ExecAddr \cup {NULL}
       /\ Peer(s).close_conn \in BOOLEAN
       /\ Peer(s).http_task.state \in States
       /\ \A q \in {Peer(s).sending_buffer, Peer(s).receiving_buffer,
                    Peer(s).http_task.parse_buf, Peer(s).http_task.response_buf} :
            Len(q) <= BUF_DATA_MAXSIZE /\ Pieces(q)
  /\ \A a \in ExecAddr : execs[a].live => execs[a].pid \in Pids
  /\ request = NULL \/ request.of \in Pids
  /\ \A c \in Client : /\ Len(net[c].inq) <= NetCap /\ Len(net[c].outq) <= NetCap
                       /\ Pieces(net[c].inq) /\ Pieces(net[c].outq)

\* The asserts of handle_http (http.c:83-85, 149, 272, 406): a task that waits
\* for a header carries nothing over from the request before, a body is only
\* streamed for GET, and an answer has a code.  They hold whatever the
\* clients, the children and the other slots do.
CodeAsserts ==
  pc = "http" =>
    /\ Task.state = "RECV_HEADER_STATE" =>
         /\ Task.response_code = -1 /\ ~Task.last_request
         /\ Task.method_type = "NO_METHOD" /\ Task.body_bytes_num = 0
    /\ Task.state = "SEND_BODY_STATE" => Task.method_type = "GET"
    /\ Task.state = "GENERATE_HEADER_STATE" => Task.response_code \in ErrorCodes \cup {200}

\* A connection the server holds is held by exactly one slot, and a slot holds
\* only connections that the kernel has open.
SlotsMatchConnections ==
  \A c \in Client :
    /\ net[c].conn = "open" <=> \E s \in Slot : Peer(s).socket = c
    /\ \A s, t \in Slot : Peer(s).socket = c /\ Peer(t).socket = c => s = t

\* A connection as the kernel and the slots have it.
Status(c) == IF Waiting(c) THEN "waiting" ELSE net[c].conn
Statuses == [c \in Client |-> Status(c)]

\* The slots are a table of at most MAX_CLIENTS connections, filled from the
\* backlog in its order; a connection is refused only when each slot has one
\* (message.c:515: "There is too much connections"), and none comes back after
\* its end, whatever handlers, faults and signals do.
Table == INSTANCE ConnectionTable WITH
  queue <- backlog,
  status <- Statuses

TableSpec == Table!Spec

\* A free slot keeps no bytes and no close request of its last client, so
\* the next client of the slot does not inherit them.
FreeSlotsAreEmpty ==
  \A s \in Slot : Peer(s).socket = NO_SOCKET =>
    /\ Peer(s).sending_buffer = <<>> /\ Peer(s).receiving_buffer = <<>>
    /\ ~Peer(s).close_conn

\* While a handler works on a request, or is about to free it, the global
\* pointer is that request and not another client's (http.c:65: "This function
\* should not have any state").
RequestIsOwn ==
  pc = "http" /\ Task.state \in {"CHECK_CGI", "FINISHED_STATE"} =>
    /\ request # NULL
    /\ request.of = Task.own
    /\ ~request.freed

\* The task has opened a file and is going to send it.
SendsFile(t) ==
  \/ t.state = "SEND_BODY_STATE"
  \/ /\ t.state = "SEND_HEADER_STATE" /\ t.method_type = "GET"
     /\ t.response_code \notin ErrorCodes

\* A file stream is open only while its task sends the file, or because the
\* code forgets it: fopen for a HEAD request (http.c:625, no body is sent), or
\* a connection that ended before the end of the file.  The end of a script
\* that the slot has inherited from its last client (message.c:533) does not
\* take a task away from its stream either.
StreamsAccounted ==
  \A r \in streams :
    \/ RequestOf(r).method = "HEAD"
    \/ net[r[1]].conn # "open"
    \/ \E s \in Slot : /\ Peer(s).socket = r[1] /\ Peer(s).http_task.own = r
                       /\ SendsFile(Peer(s).http_task)

\* A slot has a cgi_executor exactly while its task waits for a CGI child,
\* and then the executor is live and belongs to the slot's own request.
ExecutorMatchesTask ==
  \A s \in Slot :
    /\ Peer(s).cgi_executor # NULL <=>
         Peer(s).socket # NO_SOCKET /\ Peer(s).http_task.state = "PROCESSING_CGI"
    /\ Peer(s).cgi_executor # NULL =>
         /\ execs[Peer(s).cgi_executor].live
         /\ execs[Peer(s).cgi_executor].pid = Peer(s).http_task.own
         /\ execs[Peer(s).cgi_executor].pid[1] = Peer(s).socket

\* The server closes a connection only when the client has shut down or gone
\* away, or asked for something that ends the connection (message.c:397: "If
\* recv() returns 0, it means that peer gracefully shutdown").
NoUndueClose ==
  \A c \in Client : net[c].conn = "closed" =>
    \/ net[c].st \in {"shut", "gone"}
    \/ \E k \in 1 .. Len(script[c]) :
         LET q == script[c][k]
         IN q.method = "MALFORMED" \/ q.target = "dir" \/ q.close
=============================================================================
