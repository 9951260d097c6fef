---------------------------- MODULE ServerProofs -----------------------------
(***************************************************************************)
(* Proofs about Server for any number of clients and slots, any scripts,   *)
(* any capacities and any faults: slots and connections match, no buffer   *)
(* exceeds its capacity, what a slot has received is its client's, and no  *)
(* file stream is forgotten while its connection lasts.                    *)
(***************************************************************************)
EXTENDS ServerInvariants, FunctionTheorems, FiniteSetTheorems, SequenceTheorems, TLAPS

PeerFields == {"socket", "http_task", "cgi_executor", "sending_buffer",
               "receiving_buffer", "close_conn"}
NetFields == {"st", "conn", "inq", "outq", "got", "next"}

\* The slots and the connections are there, whatever they hold.
Shape ==
  /\ cur \in Slot
  /\ DOMAIN connection_list = Slot
  /\ \A s \in Slot : DOMAIN connection_list[s] = PeerFields
  /\ DOMAIN net = Client
  /\ \A c \in Client : DOMAIN net[c] = NetFields

\* A slot holds a connection or none.
Sockets == \A s \in Slot : connection_list[s].socket \in Client \cup {NULL}

\* What waits for accept is there once, was never accepted, and belongs to a
\* client that has connected; who has not connected was never accepted.
BacklogInv ==
  /\ backlog \in Seq(Client)
  /\ \A i, j \in 1 .. Len(backlog) : backlog[i] = backlog[j] => i = j
  /\ \A i \in 1 .. Len(backlog) :
       net[backlog[i]].conn = "none" /\ net[backlog[i]].st # "off"
  /\ \A c \in Client : net[c].st = "off" => net[c].conn = "none"

\* select said truly that accept would not block.
AcceptInv == pc = "accept" /\ ListenFd \in rfds => backlog # <<>>

SlotInv ==
  /\ Shape
  /\ Sockets
  /\ BacklogInv
  /\ AcceptInv
  /\ SlotsMatchConnections

-----------------------------------------------------------------------------
(* The three ways in which a step can touch slots and connections.         *)

SameSlots ==
  /\ DOMAIN connection_list' = Slot
  /\ \A s \in Slot : /\ DOMAIN connection_list'[s] = PeerFields
                     /\ connection_list'[s].socket = connection_list[s].socket

SameNet ==
  /\ DOMAIN net' = Client
  /\ \A c \in Client : /\ DOMAIN net'[c] = NetFields
                       /\ net'[c].conn = net[c].conn
                       /\ net'[c].st = "off" <=> net[c].st = "off"

\* A step that leaves every slot its connection and every connection open or
\* closed as it was.
LEMMA SameKeeps ==
  ASSUME SlotInv, SameSlots, SameNet, backlog' = backlog, cur' \in Slot,
         pc' = "accept" /\ ListenFd \in rfds' => backlog # <<>>
  PROVE SlotInv'
<1>1. Shape' /\ Sockets'
  BY DEF SlotInv, Shape, Sockets, SameSlots, SameNet, Slot
<1>2. AcceptInv'
  BY DEF AcceptInv, ListenFd, None
<1>3. BacklogInv'
  <2>1. \A k \in 1 .. Len(backlog) : backlog[k] \in Client
    BY DEF SlotInv, BacklogInv
  <2> QED
    BY <2>1 DEF SlotInv, BacklogInv, SameNet
<1>4. SlotsMatchConnections'
  BY DEF SlotInv, SlotsMatchConnections, Peer, Slot, SameSlots, SameNet
<1> QED
  BY <1>1, <1>2, <1>3, <1>4 DEF SlotInv

\* The effect of close_client_connection on the current slot.
Closes ==
  /\ DOMAIN connection_list' = Slot
  /\ \A s \in Slot :
       /\ DOMAIN connection_list'[s] = PeerFields
       /\ connection_list'[s].socket = IF s = cur THEN NULL ELSE connection_list[s].socket
  /\ DOMAIN net' = Client
  /\ \A c \in Client :
       /\ DOMAIN net'[c] = NetFields
       /\ net'[c].conn = IF c = connection_list[cur].socket THEN "closed" ELSE net[c].conn
       /\ net'[c].st = net[c].st

LEMMA ClosesKeeps ==
  ASSUME SlotInv, Closes, backlog' = backlog, cur' \in Slot, pc' # "accept"
  PROVE SlotInv'
<1>1. Shape' /\ Sockets'
  BY DEF SlotInv, Shape, Sockets, Closes, Slot
<1>2. AcceptInv'
  BY DEF AcceptInv
<1>3. \A c \in Client : c = connection_list[cur].socket => net[c].conn = "open"
  BY DEF SlotInv, Shape, SlotsMatchConnections, Peer
<1>4. BacklogInv'
  <2>1. \A k \in 1 .. Len(backlog) : backlog[k] \in Client
    BY DEF SlotInv, BacklogInv
  <2> QED
    BY <1>3, <2>1 DEF SlotInv, BacklogInv, Closes
<1>5. SlotsMatchConnections'
  <2> SUFFICES ASSUME NEW c \in Client
               PROVE /\ net'[c].conn = "open" <=>
                          \E s \in Slot : connection_list'[s].socket = c
                     /\ \A s, t \in Slot :
                          connection_list'[s].socket = c /\ connection_list'[t].socket = c
                            => s = t
    BY DEF SlotsMatchConnections, Peer, Slot
  <2>1. c # NULL
    BY StateAssumption
  <2>2. /\ net[c].conn = "open" <=> \E s \in Slot : connection_list[s].socket = c
        /\ \A s, t \in Slot : connection_list[s].socket = c /\ connection_list[t].socket = c => s = t
    BY DEF SlotInv, SlotsMatchConnections, Peer
  <2>3. \A s \in Slot : connection_list'[s].socket = c <=>
                          s # cur /\ connection_list[s].socket = c
    BY <2>1 DEF Closes
  <2>4. CASE c = connection_list[cur].socket
    BY <2>4, <2>2, <2>3 DEF Closes, SlotInv, Shape
  <2>5. CASE c # connection_list[cur].socket
    BY <2>5, <2>2, <2>3 DEF Closes
  <2> QED
    BY <2>4, <2>5
<1> QED
  BY <1>1, <1>2, <1>4, <1>5 DEF SlotInv

\* close_client_connection does that, called with the kernel as it is or as
\* send left it.
LEMMA CloseNow ==
  ASSUME SlotInv, close_client_connection(cur, net) PROVE Closes
<1>1. cur \in Slot
  BY DEF SlotInv, Shape
<1>2. /\ DOMAIN connection_list' = Slot
      /\ \A s \in Slot :
           /\ DOMAIN connection_list'[s] = PeerFields
           /\ connection_list'[s].socket = IF s = cur THEN NULL ELSE connection_list[s].socket
  BY <1>1 DEF close_client_connection, Vacated, SlotInv, Shape, PeerFields, NO_SOCKET
<1>3. CASE connection_list[cur].socket = NULL
  <2>1. net' = net /\ NULL \notin Client
    BY <1>3, StateAssumption DEF close_client_connection, Peer, NO_SOCKET
  <2> QED
    BY <1>2, <1>3, <2>1 DEF Closes, SlotInv, Shape
<1>4. CASE connection_list[cur].socket # NULL
  <2>1. connection_list[cur].socket \in Client
    BY <1>4, <1>1 DEF SlotInv, Sockets
  <2>2. net' = [net EXCEPT ![connection_list[cur].socket].conn = "closed",
                           ![connection_list[cur].socket].inq = <<>>]
    BY <1>4 DEF close_client_connection, Peer, NO_SOCKET
  <2> QED
    BY <1>2, <2>1, <2>2 DEF Closes, SlotInv, Shape, NetFields
<1> QED
  BY <1>3, <1>4

\* What send(2) changes is not what the slots are compared with.
LEMMA SentByKernelSame ==
  ASSUME SlotInv
  PROVE /\ DOMAIN SentByKernel = Client
        /\ \A c \in Client : /\ DOMAIN SentByKernel[c] = NetFields
                             /\ SentByKernel[c].conn = net[c].conn
                             /\ SentByKernel[c].st = net[c].st
  BY DEF SentByKernel, Me, SlotInv, Shape, NetFields

LEMMA CloseAfterSend ==
  ASSUME SlotInv, close_client_connection(cur, SentByKernel) PROVE Closes
<1>1. cur \in Slot
  BY DEF SlotInv, Shape
<1>2. /\ DOMAIN connection_list' = Slot
      /\ \A s \in Slot :
           /\ DOMAIN connection_list'[s] = PeerFields
           /\ connection_list'[s].socket = IF s = cur THEN NULL ELSE connection_list[s].socket
  BY <1>1 DEF close_client_connection, Vacated, SlotInv, Shape, PeerFields, NO_SOCKET
<1>3. CASE connection_list[cur].socket = NULL
  <2>1. net' = SentByKernel /\ NULL \notin Client
    BY <1>3, StateAssumption DEF close_client_connection, Peer, NO_SOCKET
  <2> QED
    BY <1>2, <1>3, <2>1, SentByKernelSame DEF Closes
<1>4. CASE connection_list[cur].socket # NULL
  <2>1. connection_list[cur].socket \in Client
    BY <1>4, <1>1 DEF SlotInv, Sockets
  <2>2. net' = [SentByKernel EXCEPT ![connection_list[cur].socket].conn = "closed",
                                    ![connection_list[cur].socket].inq = <<>>]
    BY <1>4 DEF close_client_connection, Peer, NO_SOCKET
  <2> HIDE DEF SentByKernel
  <2> QED
    BY <1>2, <2>1, <2>2, SentByKernelSame DEF Closes, NetFields
<1> QED
  BY <1>3, <1>4
-----------------------------------------------------------------------------
(* The task of a slot: what its state says about its other fields.         *)

TaskFields == {"state", "parse_buf", "response_buf", "method_type", "last_request",
               "response_code", "body_bytes_num", "post_body", "fp", "own"}

TaskOK(t) ==
  /\ DOMAIN t = TaskFields
  /\ t.state = "RECV_HEADER_STATE" =>
       /\ t.response_code = -1 /\ ~t.last_request
       /\ t.method_type = "NO_METHOD" /\ t.body_bytes_num = 0
  /\ t.state = "SEND_BODY_STATE" => t.method_type = "GET"
  /\ t.state = "GENERATE_HEADER_STATE" => t.response_code \in ErrorCodes \cup {200}

TaskInv == \A s \in Slot : TaskOK(connection_list[s].http_task)

IInv == SlotInv /\ TaskInv

LEMMA FreshTaskOK == TaskOK(FreshTask)
  BY DEF TaskOK, FreshTask, TaskFields

\* The current slot gets a task that is in order, the others keep theirs.
LEMMA NewTask ==
  ASSUME TaskInv, TaskOK(connection_list'[cur].http_task),
         \A s \in Slot : s # cur => connection_list'[s] = connection_list[s]
  PROVE TaskInv'
  BY DEF TaskInv, Slot

LEMMA SameTasks ==
  ASSUME TaskInv,
         \A s \in Slot : connection_list'[s].http_task = connection_list[s].http_task
  PROVE TaskInv'
  BY DEF TaskInv, Slot

LEMMA NextSlotRange ==
  ASSUME cur \in Slot, NextSlot PROVE cur' \in Slot /\ pc' # "accept"
  BY StateAssumption DEF NextSlot, Slot

LEMMA NetKept == ASSUME SlotInv, net' = net PROVE SameNet
  BY DEF SlotInv, Shape, SameNet

LEMMA SlotsKept == ASSUME SlotInv, connection_list' = connection_list PROVE SameSlots
  BY DEF SlotInv, Shape, SameSlots

\* A step of handle_http that stays in its loop, or leaves it.
LEMMA HandlerStays ==
  ASSUME SlotInv, SameSlots, pc = "http", UNCHANGED loop, net' = net, backlog' = backlog
  PROVE SlotInv'
<1>1. SameNet
  BY NetKept
<1>2. cur' \in Slot /\ pc' # "accept"
  BY DEF loop, SlotInv, Shape
<1> QED
  BY <1>1, <1>2, SameKeeps

LEMMA HandlerLeaves ==
  ASSUME SlotInv, SameSlots, NextSlot, net' = net, backlog' = backlog
  PROVE SlotInv'
<1>1. SameNet
  BY NetKept
<1>2. cur' \in Slot /\ pc' # "accept"
  BY NextSlotRange DEF SlotInv, Shape
<1> QED
  BY <1>1, <1>2, SameKeeps

\* close_client_connection leaves the tasks alone.
LEMMA CloseTasks ==
  ASSUME SlotInv, TaskInv,
         \/ close_client_connection(cur, net)
         \/ close_client_connection(cur, SentByKernel)
  PROVE TaskInv'
<1>1. connection_list' =
        [connection_list EXCEPT
           ![cur] = [@ EXCEPT !.socket = NO_SOCKET, !.close_conn = FALSE,
                              !.sending_buffer = <<>>, !.receiving_buffer = <<>>]]
  BY DEF close_client_connection, Vacated
<1>2. \A s \in Slot : connection_list'[s].http_task = connection_list[s].http_task
  BY <1>1 DEF SlotInv, Shape, PeerFields
<1> QED
  BY <1>2, SameTasks

LEMMA ReturnCloseNowKeeps == ASSUME IInv, ReturnCloseNow PROVE IInv'
<1>1. SlotInv /\ TaskInv /\ close_client_connection(cur, net) /\ backlog' = backlog /\ NextSlot
  BY DEF IInv, ReturnCloseNow
<1>2. cur' \in Slot /\ pc' # "accept"
  BY <1>1, NextSlotRange DEF SlotInv, Shape
<1>3. Closes
  BY <1>1, CloseNow
<1> QED
  BY <1>1, <1>2, <1>3, ClosesKeeps, CloseTasks DEF IInv
-----------------------------------------------------------------------------
(* handle_http.                                                            *)

\* Only the current slot changes, and it keeps its connection.
Touches ==
  /\ DOMAIN connection_list' = Slot
  /\ \A s \in Slot : s # cur => connection_list'[s] = connection_list[s]
  /\ DOMAIN connection_list'[cur] = PeerFields
  /\ connection_list'[cur].socket = connection_list[cur].socket

LEMMA TouchesKeeps ==
  ASSUME IInv, Touches, TaskOK(connection_list'[cur].http_task),
         net' = net, backlog' = backlog,
         (pc = "http" /\ UNCHANGED loop) \/ NextSlot
  PROVE IInv'
<1>1. SlotInv /\ TaskInv
  BY DEF IInv
<1>2. SameSlots
  BY <1>1 DEF Touches, SameSlots, SlotInv, Shape
<1>3. TaskInv'
  BY <1>1, NewTask DEF Touches
<1>4. SlotInv'
  BY <1>1, <1>2, HandlerStays, HandlerLeaves
<1> QED
  BY <1>3, <1>4 DEF IInv

\* What IInv says of the slot that the handler works on.
LEMMA Current ==
  ASSUME IInv
  PROVE /\ cur \in Slot /\ DOMAIN connection_list = Slot
        /\ DOMAIN connection_list[cur] = PeerFields
        /\ TaskOK(connection_list[cur].http_task)
  BY DEF IInv, SlotInv, TaskInv, Shape

LEMMA HeaderIncompleteKeeps == ASSUME IInv, HeaderIncomplete PROVE IInv'
<1> DEFINE t == connection_list[cur].http_task
           new == [t EXCEPT !.parse_buf = @ \o Incoming]
           p == [Me EXCEPT !.receiving_buffer = <<>>,
                           !.http_task.parse_buf = @ \o Incoming]
<1>1. /\ cur \in Slot /\ DOMAIN connection_list = Slot
      /\ DOMAIN connection_list[cur] = PeerFields /\ TaskOK(t)
  BY Current
<1>2. /\ connection_list' = [connection_list EXCEPT ![cur] = p]
      /\ NextSlot /\ net' = net /\ backlog' = backlog
  BY DEF HeaderIncomplete, Return, world
<1>3. DOMAIN p = PeerFields /\ p.socket = connection_list[cur].socket /\ p.http_task = new
  BY <1>1 DEF Me, PeerFields
<1>5. Touches /\ connection_list'[cur].http_task = new
  <2> HIDE DEF p, new
  <2> QED
    BY <1>1, <1>2, <1>3 DEF Touches
<1>4. TaskOK(new)
  BY <1>1 DEF TaskOK, TaskFields
<1> QED
  BY <1>2, <1>4, <1>5, TouchesKeeps

LEMMA HeaderParsedKeeps == ASSUME IInv, HeaderParsed PROVE IInv'
<1> DEFINE t == connection_list[cur].http_task
           r == Header[1].req
           u == [t EXCEPT !.parse_buf = Header, !.own = r,
                          !.last_request = RequestOf(r).close]
           new == Dispatch(u, RequestOf(r))
<1>1. /\ cur \in Slot /\ DOMAIN connection_list = Slot
      /\ DOMAIN connection_list[cur] = PeerFields /\ TaskOK(t)
  BY Current
<1>2. /\ connection_list' = [connection_list EXCEPT
            ![cur] = [Me EXCEPT !.http_task = new,
                                !.receiving_buffer = Drop(@, HeaderSize)]]
      /\ pc = "http" /\ UNCHANGED loop /\ net' = net /\ backlog' = backlog
  BY DEF HeaderParsed, HeaderComplete, InHandler, world, Task
<1>3. Touches /\ connection_list'[cur].http_task = new
  <2> HIDE DEF new
  <2> QED
    BY <1>1, <1>2 DEF Touches, PeerFields, Me
<1>4. DOMAIN u = TaskFields
  BY <1>1 DEF TaskOK, TaskFields
<1>5. TaskOK(new)
  <2> HIDE DEF u
  <2> QED
    BY <1>4 DEF Dispatch, TaskOK, TaskFields, ErrorCodes
<1> QED
  BY <1>2, <1>3, <1>5, TouchesKeeps

LEMMA ReceiveBodyKeeps == ASSUME IInv, ReceiveBody PROVE IInv'
<1> DEFINE t == connection_list[cur].http_task
           n == Least(Len(Me.receiving_buffer),
                      Task.body_bytes_num - Len(Task.post_body))
           p == [Me EXCEPT !.receiving_buffer = Drop(@, n),
                           !.http_task.post_body = @ \o Take(Me.receiving_buffer, n)]
           q == [p EXCEPT !.http_task.state = "CHECK_CGI"]
           new == [t EXCEPT !.post_body = @ \o Take(Me.receiving_buffer, n)]
           last == [new EXCEPT !.state = "CHECK_CGI"]
<1>1. /\ cur \in Slot /\ DOMAIN connection_list = Slot
      /\ DOMAIN connection_list[cur] = PeerFields /\ TaskOK(t)
  BY Current
<1>2. /\ \/ connection_list' = [connection_list EXCEPT ![cur] = p] /\ NextSlot
         \/ connection_list' = [connection_list EXCEPT ![cur] = q] /\ UNCHANGED loop
      /\ pc = "http" /\ net' = net /\ backlog' = backlog
  BY DEF ReceiveBody, Return, InHandler, world
<1>3. DOMAIN p = PeerFields /\ p.socket = connection_list[cur].socket /\ p.http_task = new
  <2> HIDE DEF n
  <2> QED
    BY <1>1 DEF Me, PeerFields
<1>4. DOMAIN q = PeerFields /\ q.socket = connection_list[cur].socket /\ q.http_task = last
  <2> HIDE DEF p, new
  <2> QED
    BY <1>3 DEF PeerFields
<1>5. TaskOK(new) /\ TaskOK(last)
  <2> HIDE DEF n
  <2>1. t.state = "RECV_BODY_STATE"
    BY DEF ReceiveBody, InHandler, Task
  <2>2. TaskOK(new)
    BY <1>1, <2>1 DEF TaskOK, TaskFields
  <2> HIDE DEF new
  <2>3. TaskOK(last)
    BY <2>2 DEF TaskOK, TaskFields
  <2> QED
    BY <2>2, <2>3
<1>6. Touches /\ connection_list'[cur].http_task \in {new, last}
  <2> HIDE DEF p, q, new, last
  <2> QED
    BY <1>1, <1>2, <1>3, <1>4 DEF Touches
<1> HIDE DEF new, last
<1> QED
  BY <1>2, <1>5, <1>6, TouchesKeeps

LEMMA GenerateHeaderKeeps == ASSUME IInv, GenerateHeader PROVE IInv'
<1> DEFINE t == connection_list[cur].http_task
           new == [t EXCEPT !.response_buf = @ \o NonBodyResponse(t.own, t.response_code),
                            !.state = "SEND_HEADER_STATE"]
<1>1. /\ cur \in Slot /\ DOMAIN connection_list = Slot
      /\ DOMAIN connection_list[cur] = PeerFields /\ TaskOK(t)
  BY Current
<1>2. /\ connection_list' = [connection_list EXCEPT ![cur].http_task = new]
      /\ pc = "http" /\ UNCHANGED loop /\ net' = net /\ backlog' = backlog
  BY DEF GenerateHeader, Continue, InHandler, world, Task
<1>3. Touches /\ connection_list'[cur].http_task = new
  <2> HIDE DEF new
  <2> QED
    BY <1>1, <1>2 DEF Touches, PeerFields
<1>4. TaskOK(new)
  BY <1>1 DEF TaskOK, TaskFields
<1> QED
  BY <1>2, <1>3, <1>4, TouchesKeeps

LEMMA SendHeaderKeeps == ASSUME IInv, SendHeader PROVE IInv'
<1> DEFINE t == connection_list[cur].http_task
           n == Least(Len(Task.response_buf), Room(Me.sending_buffer))
           p == [Me EXCEPT
                   !.sending_buffer = @ \o Take(Task.response_buf, n),
                   !.http_task.response_buf = Drop(@, Least(Len(@), n + 1)),
                   !.http_task.state = AfterHeader(Task)]
           new == [t EXCEPT !.response_buf = Drop(@, Least(Len(@), n + 1)),
                            !.state = AfterHeader(t)]
<1>1. /\ cur \in Slot /\ DOMAIN connection_list = Slot
      /\ DOMAIN connection_list[cur] = PeerFields /\ TaskOK(t)
  BY Current
<1>2. connection_list' = [connection_list EXCEPT ![cur] = p]
  BY DEF SendHeader
<1>6. pc = "http" /\ UNCHANGED loop /\ net' = net /\ backlog' = backlog
  BY DEF SendHeader, InHandler, world
<1>3. DOMAIN p = PeerFields /\ p.socket = connection_list[cur].socket /\ p.http_task = new
  <2> HIDE DEF n
  <2> QED
    BY <1>1 DEF Me, PeerFields, Task
<1>4. TaskOK(new)
  <2>1. \/ AfterHeader(t) = "FINISHED_STATE"
        \/ AfterHeader(t) = "SEND_BODY_STATE" /\ t.method_type = "GET"
    BY DEF AfterHeader
  <2> HIDE DEF n
  <2> QED
    BY <1>1, <2>1 DEF TaskOK, TaskFields
<1>5. Touches /\ connection_list'[cur].http_task = new
  <2> HIDE DEF p, new
  <2> QED
    BY <1>1, <1>2, <1>3 DEF Touches
<1> QED
  BY <1>6, <1>4, <1>5, TouchesKeeps

LEMMA CheckStaticKeeps == ASSUME IInv, CheckStatic PROVE IInv'
<1> DEFINE t == connection_list[cur].http_task
           new == IF IsRead THEN StaticGet
                  ELSE [Task EXCEPT !.response_code = 200,
                                    !.state = "GENERATE_HEADER_STATE"]
<1>1. /\ cur \in Slot /\ DOMAIN connection_list = Slot
      /\ DOMAIN connection_list[cur] = PeerFields /\ TaskOK(t)
  BY Current
<1>2. /\ connection_list' = [connection_list EXCEPT ![cur].http_task = new]
      /\ pc = "http" /\ UNCHANGED loop /\ net' = net /\ backlog' = backlog
  BY DEF CheckStatic, InHandler
<1>3. Touches /\ connection_list'[cur].http_task = new
  <2> HIDE DEF new
  <2> QED
    BY <1>1, <1>2 DEF Touches, PeerFields
<1>4. TaskOK(new)
  <2>1. TaskOK(StaticGet)
    BY <1>1 DEF StaticGet, TaskOK, TaskFields, Task, ErrorCodes
  <2>2. TaskOK([Task EXCEPT !.response_code = 200, !.state = "GENERATE_HEADER_STATE"])
    BY <1>1 DEF TaskOK, TaskFields, Task
  <2> QED
    BY <2>1, <2>2
<1> HIDE DEF new
<1> QED
  BY <1>2, <1>3, <1>4, TouchesKeeps

LEMMA CheckCgiKeeps == ASSUME IInv, CheckCgi PROVE IInv'
<1> DEFINE t == connection_list[cur].http_task
           new == [t EXCEPT !.state = "PROCESSING_CGI"]
<1>1. /\ cur \in Slot /\ DOMAIN connection_list = Slot
      /\ DOMAIN connection_list[cur] = PeerFields /\ TaskOK(t)
  BY Current
<1>2. PICK a \in ExecAddr :
        Return([Me EXCEPT !.cgi_executor = a, !.http_task.state = "PROCESSING_CGI"],
               IF Task.last_request THEN "CLOSE_CONN" ELSE "KEEP_CONN")
  BY DEF CheckCgi
<1>3. net' = net /\ backlog' = backlog /\ NextSlot
  BY <1>2 DEF CheckCgi, Return
<1> DEFINE p == [Me EXCEPT !.cgi_executor = a, !.http_task.state = "PROCESSING_CGI"]
           q == [p EXCEPT !.close_conn = TRUE]
<1>4. DOMAIN p = PeerFields /\ p.socket = connection_list[cur].socket /\ p.http_task = new
  BY <1>1 DEF Me, PeerFields
<1>5. DOMAIN q = PeerFields /\ q.socket = connection_list[cur].socket /\ q.http_task = new
  <2> HIDE DEF p, new
  <2> QED
    BY <1>4 DEF PeerFields
<1>6. \/ connection_list' = [connection_list EXCEPT ![cur] = p]
      \/ connection_list' = [connection_list EXCEPT ![cur] = q]
  BY <1>2 DEF Return
<1>7. Touches /\ connection_list'[cur].http_task = new
  <2> HIDE DEF p, q, new
  <2> QED
    BY <1>1, <1>4, <1>5, <1>6 DEF Touches
<1>8. TaskOK(new)
  BY <1>1 DEF TaskOK, TaskFields
<1> QED
  BY <1>3, <1>7, <1>8, TouchesKeeps

LEMMA SendBodyKeeps == ASSUME IInv, SendBody PROVE IInv'
<1> DEFINE t == connection_list[cur].http_task
           file == FileStream(Task.fp.of)
           n == Least(Len(file) - Task.fp.pos, Room(Me.sending_buffer))
           p == [Me EXCEPT
                  !.sending_buffer = @ \o SubSeq(file, Task.fp.pos + 1, Task.fp.pos + n),
                  !.http_task.fp.pos = @ + n]
           q == [p EXCEPT !.http_task.state = "FINISHED_STATE"]
           new == [t EXCEPT !.fp.pos = @ + n]
           last == [new EXCEPT !.state = "FINISHED_STATE"]
<1>1. /\ cur \in Slot /\ DOMAIN connection_list = Slot
      /\ DOMAIN connection_list[cur] = PeerFields /\ TaskOK(t)
  BY Current
<1>2. /\ \/ connection_list' = [connection_list EXCEPT ![cur] = p] /\ NextSlot
         \/ connection_list' = [connection_list EXCEPT ![cur] = q] /\ UNCHANGED loop
      /\ pc = "http" /\ net' = net /\ backlog' = backlog
  BY DEF SendBody, Return, InHandler
<1>3. DOMAIN p = PeerFields /\ p.socket = connection_list[cur].socket /\ p.http_task = new
  <2> HIDE DEF n, file
  <2> QED
    BY <1>1 DEF Me, PeerFields
<1>4. DOMAIN q = PeerFields /\ q.socket = connection_list[cur].socket /\ q.http_task = last
  <2> HIDE DEF p, new
  <2> QED
    BY <1>3 DEF PeerFields
<1>5. TaskOK(new) /\ TaskOK(last)
  <2> HIDE DEF n
  <2>1. TaskOK(new)
    BY <1>1 DEF TaskOK, TaskFields
  <2> HIDE DEF new
  <2>2. TaskOK(last)
    BY <2>1 DEF TaskOK, TaskFields
  <2> QED
    BY <2>1, <2>2
<1>6. Touches /\ connection_list'[cur].http_task \in {new, last}
  <2> HIDE DEF p, q, new, last
  <2> QED
    BY <1>1, <1>2, <1>3, <1>4 DEF Touches
<1> HIDE DEF new, last
<1> QED
  BY <1>2, <1>5, <1>6, TouchesKeeps

\* reset_http_task makes a task that may wait for a header.
LEMMA FinishKeeps == ASSUME IInv, Finish PROVE IInv'
<1> DEFINE t == connection_list[cur].http_task
           new == reset_http_task(t)
           p == [Me EXCEPT !.http_task = new]
           q == [p EXCEPT !.close_conn = TRUE]
<1>1. /\ cur \in Slot /\ DOMAIN connection_list = Slot
      /\ DOMAIN connection_list[cur] = PeerFields /\ TaskOK(t)
  BY Current
<1>2. /\ \/ connection_list' = [connection_list EXCEPT ![cur] = p]
         \/ connection_list' = [connection_list EXCEPT ![cur] = q]
      /\ NextSlot /\ net' = net /\ backlog' = backlog
  BY DEF Finish, Return, world, Task
<1>3. /\ DOMAIN p = PeerFields /\ p.socket = connection_list[cur].socket /\ p.http_task = new
      /\ DOMAIN q = PeerFields /\ q.socket = connection_list[cur].socket /\ q.http_task = new
  <2> HIDE DEF new
  <2> QED
    BY <1>1 DEF Me, PeerFields
<1>4. TaskOK(new)
  BY DEF reset_http_task, FreshTask, TaskOK, TaskFields
<1>5. Touches /\ connection_list'[cur].http_task = new
  <2> HIDE DEF p, q, new
  <2> QED
    BY <1>1, <1>2, <1>3 DEF Touches
<1> HIDE DEF new
<1> QED
  BY <1>2, <1>4, <1>5, TouchesKeeps

\* A step that changes no slot.
LEMMA IdleKeeps ==
  ASSUME IInv, connection_list' = connection_list, net' = net, backlog' = backlog,
         cur' \in Slot, pc' # "accept"
  PROVE IInv'
<1>1. SlotInv /\ TaskInv
  BY DEF IInv
<1>2. SameSlots /\ SameNet
  BY <1>1, SlotsKept, NetKept
<1>3. SlotInv'
  BY <1>1, <1>2, SameKeeps
<1>4. TaskInv'
  BY <1>1, SameTasks
<1> QED
  BY <1>3, <1>4 DEF IInv

LEMMA DieKeeps == ASSUME IInv, Die PROVE IInv'
  BY IdleKeeps, Current DEF Die

LEMMA SkipKeeps ==
  ASSUME IInv, NextSlot, UNCHANGED <<peers, world>> PROVE IInv'
<1>1. cur' \in Slot /\ pc' # "accept"
  BY NextSlotRange, Current
<1> QED
  BY <1>1, IdleKeeps DEF peers, world

LEMMA HandlerKeeps == ASSUME IInv, Handler PROVE IInv'
<1>1. CASE HeaderTooLong \/ HeaderRefused
  BY <1>1, ReturnCloseNowKeeps DEF HeaderTooLong, HeaderRefused
<1>2. CASE SendBodyFails
  BY <1>2, ReturnCloseNowKeeps, SkipKeeps DEF SendBodyFails
<1>3. CASE ProcessingCgi
  BY <1>3, SkipKeeps DEF ProcessingCgi
<1>4. CASE HandlerDies
  BY <1>4, DieKeeps DEF HandlerDies
<1> QED
  BY <1>1, <1>2, <1>3, <1>4, HeaderIncompleteKeeps, HeaderParsedKeeps,
     ReceiveBodyKeeps, GenerateHeaderKeeps, SendHeaderKeeps, CheckStaticKeeps,
     CheckCgiKeeps, SendBodyKeeps, FinishKeeps DEF Handler
-----------------------------------------------------------------------------
(* The rest of a pass.                                                     *)

\* accept gives the first connection of the backlog to a free slot, or refuses
\* it.
LEMMA AcceptKeeps == ASSUME IInv, Accept PROVE IInv'
<1>1. SlotInv /\ TaskInv
  BY DEF IInv
<1>2. cur' \in Slot /\ pc' # "accept" /\ pc = "accept"
  BY <1>1 DEF Accept, GoTo, SlotInv, Shape
<1>3. CASE ListenFd \notin rfds
  BY <1>2, <1>3, IdleKeeps DEF Accept
<1>4. CASE UNCHANGED <<connection_list, net, backlog>>
  BY <1>2, <1>4, IdleKeeps
<1>5. CASE ListenFd \in rfds /\ ~UNCHANGED <<connection_list, net, backlog>>
  <2> DEFINE c == Head(backlog)
  <2>1. handle_new_connection
    BY <1>5 DEF Accept
  <2>2. backlog \in Seq(Client) /\ backlog # <<>>
    BY <1>1, <1>2, <1>5 DEF SlotInv, BacklogInv, AcceptInv
  <2>3. c \in Client /\ backlog' = Tail(backlog) /\ c = backlog[1] /\ Len(backlog) \in Nat \ {0}
    <3>1. backlog' = Tail(backlog)
      BY <1>5, <2>1 DEF handle_new_connection
    <3> QED
      BY <2>2, <3>1
  <2>4. net[c].conn = "none" /\ net[c].st # "off"
    BY <1>1, <2>3 DEF SlotInv, BacklogInv
  <2>5. \A s \in Slot : connection_list[s].socket # c
    BY <1>1, <2>3, <2>4 DEF SlotInv, SlotsMatchConnections, Peer
  <2>6. /\ backlog' \in Seq(Client)
        /\ \A k \in 1 .. Len(backlog') :
             k + 1 \in 1 .. Len(backlog) /\ backlog'[k] = backlog[k + 1]
    BY <2>2, <2>3
  <2>7. \A k \in 1 .. Len(backlog') : backlog'[k] \in Client /\ backlog'[k] # c
    <3> SUFFICES ASSUME NEW k \in 1 .. Len(backlog')
                 PROVE backlog'[k] \in Client /\ backlog'[k] # c
      OBVIOUS
    <3>1. k + 1 # 1 /\ 1 \in 1 .. Len(backlog) /\ k \in Nat
      BY <2>3, <2>6
    <3> QED
      BY <1>1, <2>2, <2>3, <2>6, <3>1 DEF SlotInv, BacklogInv
  <2>8. AcceptInv'
    BY <1>2 DEF AcceptInv
  <2> HIDE DEF c
  <2>9. ASSUME DOMAIN net' = Client,
               \A d \in Client : /\ DOMAIN net'[d] = NetFields
                                 /\ net'[d].st = net[d].st
                                 /\ d # c => net'[d].conn = net[d].conn
        PROVE BacklogInv'
    <3>1. \A x, y \in 1 .. Len(backlog') : backlog'[x] = backlog'[y] => x = y
      <4> SUFFICES ASSUME NEW x \in 1 .. Len(backlog'), NEW y \in 1 .. Len(backlog'),
                          backlog'[x] = backlog'[y]
                   PROVE x = y
        OBVIOUS
      <4>1. x + 1 = y + 1
        BY <1>1, <2>6 DEF SlotInv, BacklogInv
      <4> QED
        BY <4>1, <2>6
    <3>2. \A x \in 1 .. Len(backlog') :
            net'[backlog'[x]].conn = "none" /\ net'[backlog'[x]].st # "off"
      <4> SUFFICES ASSUME NEW x \in 1 .. Len(backlog')
                   PROVE net'[backlog'[x]].conn = "none" /\ net'[backlog'[x]].st # "off"
        OBVIOUS
      <4>1. net[backlog'[x]].conn = "none" /\ net[backlog'[x]].st # "off"
        BY <1>1, <2>6 DEF SlotInv, BacklogInv
      <4>2. backlog'[x] \in Client /\ backlog'[x] # c
        BY <2>7
      <4> QED
        BY <2>9, <4>1, <4>2
    <3>3. \A d \in Client : net'[d].st = "off" => net'[d].conn = "none"
      BY <1>1, <2>4, <2>9 DEF SlotInv, BacklogInv
    <3> QED
      BY <2>6, <3>1, <3>2, <3>3 DEF BacklogInv
  <2>10. CASE \E s \in Slot :
                /\ connection_list[s].socket = NULL
                /\ connection_list' = [connection_list EXCEPT
                     ![s] = [@ EXCEPT !.socket = c, !.close_conn = FALSE,
                                      !.http_task = FreshTask]]
                /\ net' = [net EXCEPT ![c].conn = "open"]
    <3>1. PICK s \in Slot :
                /\ connection_list[s].socket = NULL
                /\ connection_list' = [connection_list EXCEPT
                     ![s] = [@ EXCEPT !.socket = c, !.close_conn = FALSE,
                                      !.http_task = FreshTask]]
                /\ net' = [net EXCEPT ![c].conn = "open"]
      BY <2>10
    <3>2. /\ DOMAIN connection_list' = Slot
          /\ \A t \in Slot :
               /\ DOMAIN connection_list'[t] = PeerFields
               /\ connection_list'[t].socket = IF t = s THEN c ELSE connection_list[t].socket
               /\ connection_list'[t].http_task =
                    IF t = s THEN FreshTask ELSE connection_list[t].http_task
      BY <1>1, <3>1 DEF SlotInv, Shape, PeerFields
    <3>3. /\ DOMAIN net' = Client
          /\ \A d \in Client :
               /\ DOMAIN net'[d] = NetFields
               /\ net'[d].st = net[d].st
               /\ net'[d].conn = IF d = c THEN "open" ELSE net[d].conn
      BY <1>1, <2>3, <3>1 DEF SlotInv, Shape, NetFields
    <3>4. Shape' /\ Sockets'
      BY <1>1, <1>2, <2>3, <3>2, <3>3 DEF SlotInv, Shape, Sockets, Slot
    <3>5. BacklogInv'
      BY <2>9, <3>3
    <3>6. SlotsMatchConnections'
      <4> SUFFICES ASSUME NEW d \in Client
                   PROVE /\ net'[d].conn = "open" <=>
                              \E t \in Slot : connection_list'[t].socket = d
                         /\ \A t, u \in Slot :
                              connection_list'[t].socket = d /\ connection_list'[u].socket = d
                                => t = u
        BY DEF SlotsMatchConnections, Peer, Slot
      <4>1. d # NULL
        BY StateAssumption
      <4> QED
        BY <1>1, <2>5, <3>1, <3>2, <3>3, <4>1 DEF SlotInv, SlotsMatchConnections, Peer
    <3>7. TaskInv'
      BY <1>1, <3>2, FreshTaskOK DEF TaskInv, Slot
    <3> QED
      BY <2>8, <3>4, <3>5, <3>6, <3>7 DEF IInv, SlotInv
  <2>11. CASE /\ net' = [net EXCEPT ![c].conn = "refused", ![c].inq = <<>>]
              /\ connection_list' = connection_list
    <3>1. /\ DOMAIN net' = Client
          /\ \A d \in Client :
               /\ DOMAIN net'[d] = NetFields
               /\ net'[d].st = net[d].st
               /\ net'[d].conn = IF d = c THEN "refused" ELSE net[d].conn
      BY <1>1, <2>3, <2>11 DEF SlotInv, Shape, NetFields
    <3>2. Shape' /\ Sockets'
      BY <1>1, <1>2, <2>11, <3>1 DEF SlotInv, Shape, Sockets, Slot
    <3>3. BacklogInv'
      BY <2>9, <3>1
    <3>4. SlotsMatchConnections'
      BY <1>1, <2>5, <2>11, <3>1 DEF SlotInv, SlotsMatchConnections, Peer, Slot
    <3>5. TaskInv'
      BY <1>1, <2>11, SameTasks
    <3> QED
      BY <2>8, <3>2, <3>3, <3>4, <3>5 DEF IInv, SlotInv
  <2> QED
    BY <1>5, <2>1, <2>10, <2>11 DEF handle_new_connection, Peer, NO_SOCKET, c
<1> QED
  BY <1>3, <1>5, <1>4

\* A step of main that may change buffers, but no connection and no task.
LEMMA TransferKeeps ==
  ASSUME IInv, SameSlots, SameNet, TaskInv', backlog' = backlog,
         cur' \in Slot, pc' # "accept"
  PROVE IInv'
  BY SameKeeps DEF IInv

LEMMA CloseKeeps ==
  ASSUME IInv,
         close_client_connection(cur, net) \/ close_client_connection(cur, SentByKernel),
         backlog' = backlog, cur' \in Slot, pc' # "accept"
  PROVE IInv'
<1>1. SlotInv /\ TaskInv
  BY DEF IInv
<1>2. Closes
  BY <1>1, CloseNow, CloseAfterSend
<1> QED
  BY <1>1, <1>2, ClosesKeeps, CloseTasks DEF IInv

\* The sending buffer of the current slot and the tokens of connections change.
LEMMA CgiReadKeeps == ASSUME IInv, CgiRead PROVE IInv'
<1> DEFINE t == connection_list[cur].http_task
           new == [t EXCEPT !.state = "FINISHED_STATE"]
           e == connection_list'[cur]
<1>1. /\ cur \in Slot /\ DOMAIN connection_list = Slot
      /\ DOMAIN connection_list[cur] = PeerFields /\ TaskOK(t)
  BY Current
<1>2. /\ net' = net /\ backlog' = backlog /\ cur' = cur /\ pc' # "accept"
      /\ \/ connection_list' = connection_list
         \/ PipeOutput \/ PipeEof
  BY DEF CgiRead, GoTo, PipeFull
<1>3. TaskOK(new)
  BY <1>1 DEF TaskOK, TaskFields
<1>4. CASE connection_list' = connection_list
  BY <1>1, <1>2, <1>4, IdleKeeps
<1>5. CASE PipeOutput
  <2>1. Touches /\ e.http_task = t
    BY <1>1, <1>5 DEF PipeOutput, Touches, PeerFields
  <2> QED
    BY <1>1, <1>2, <2>1, NewTask, NetKept, TransferKeeps
    DEF Touches, SameSlots, IInv, SlotInv, Shape
<1>6. CASE PipeEof
  <2>1. connection_list' = [connection_list EXCEPT
          ![cur] = [@ EXCEPT !.cgi_executor = NULL, !.http_task.state = "FINISHED_STATE"]]
    BY <1>6 DEF PipeEof
  <2>2. Touches /\ e.http_task = new
    BY <1>1, <2>1 DEF Touches, PeerFields
  <2> QED
    BY <1>1, <1>2, <1>3, <2>2, NewTask, NetKept, TransferKeeps
    DEF Touches, SameSlots, IInv, SlotInv, Shape
<1> QED
  BY <1>2, <1>4, <1>5, <1>6

LEMMA CgiWriteKeeps == ASSUME IInv, CgiWrite PROVE IInv'
<1>1. backlog' = backlog /\ cur' \in Slot /\ pc' # "accept"
  BY Current DEF CgiWrite, GoTo
<1>2. \/ connection_list' = connection_list /\ net' = net
      \/ close_client_connection(cur, net)
  BY DEF CgiWrite
<1> QED
  BY <1>1, <1>2, IdleKeeps, CloseKeeps

LEMMA RecvKeeps == ASSUME IInv, Recv PROVE IInv'
<1>1. /\ cur \in Slot /\ DOMAIN connection_list = Slot
      /\ DOMAIN connection_list[cur] = PeerFields
  BY Current
<1>2. backlog' = backlog /\ cur' \in Slot /\ pc' # "accept"
  BY <1>1 DEF Recv, GoTo
<1>3. CASE ~ReceiveFromPeer
  BY <1>2, <1>3, IdleKeeps DEF Recv
<1>4. CASE ReceiveFromPeer
  <2>1. SlotInv /\ TaskInv
    BY DEF IInv
  <2>2. /\ DOMAIN connection_list' = Slot
        /\ \A s \in Slot :
             /\ DOMAIN connection_list'[s] = PeerFields
             /\ connection_list'[s].socket = connection_list[s].socket
             /\ connection_list'[s].http_task = connection_list[s].http_task
    BY <1>1, <1>4, <2>1 DEF ReceiveFromPeer, SlotInv, Shape, PeerFields
  <2>3. SameNet
    BY <1>4, <2>1 DEF ReceiveFromPeer, SameNet, SlotInv, Shape, NetFields
  <2> QED
    BY <1>2, <2>1, <2>2, <2>3, SameTasks, TransferKeeps DEF SameSlots
<1> QED
  BY <1>3, <1>4

LEMMA SendKeeps == ASSUME IInv, Send PROVE IInv'
<1>1. /\ cur \in Slot /\ DOMAIN connection_list = Slot
      /\ DOMAIN connection_list[cur] = PeerFields
  BY Current
<1>2. backlog' = backlog /\ cur' \in Slot /\ pc' # "accept"
  BY <1>1, NextSlotRange DEF Send, GoTo
<1>3. CASE ~SendToPeer
  BY <1>2, <1>3, IdleKeeps DEF Send
<1>4. CASE SendToPeer
  <2>1. SlotInv /\ TaskInv
    BY DEF IInv
  <2>2. /\ DOMAIN connection_list' = Slot
        /\ \A s \in Slot :
             /\ DOMAIN connection_list'[s] = PeerFields
             /\ connection_list'[s].socket = connection_list[s].socket
             /\ connection_list'[s].http_task = connection_list[s].http_task
    BY <1>1, <1>4, <2>1 DEF SendToPeer, SlotInv, Shape, PeerFields
  <2>3. net' = SentByKernel
    BY <1>4 DEF SendToPeer
  <2>4. SameNet
    BY <2>1, <2>3, SentByKernelSame DEF SameNet
  <2> QED
    BY <1>2, <2>1, <2>2, <2>4, SameTasks, TransferKeeps DEF SameSlots
<1> QED
  BY <1>3, <1>4

LEMMA SelectKeeps == ASSUME IInv, Select PROVE IInv'
<1>1. SlotInv /\ TaskInv
  BY DEF IInv
<1>2. /\ connection_list' = connection_list /\ net' = net /\ backlog' = backlog
      /\ cur' = cur /\ rfds' = ReadyToRead
  BY DEF Select, peers, world
<1>3. ListenFd \in ReadyToRead => backlog # <<>>
  <2>1. \A c : ListenFd # SockFd(c) /\ ListenFd # StdoutFd(c)
    BY DEF ListenFd, SockFd, StdoutFd
  <2> QED
    BY <2>1 DEF ReadyToRead
<1>4. SameSlots /\ SameNet
  BY <1>1, <1>2, SlotsKept, NetKept
<1>5. SlotInv'
  BY <1>1, <1>2, <1>3, <1>4, SameKeeps DEF SlotInv, Shape
<1>6. TaskInv'
  BY <1>1, <1>2, SameTasks
<1> QED
  BY <1>5, <1>6 DEF IInv

LEMMA ServerKeeps == ASSUME IInv, ServerStep PROVE IInv'
<1>1. CASE SelectDies \/ CgiDies
  BY <1>1, DieKeeps DEF SelectDies, CgiDies
<1>2. CASE NoCgi
  BY <1>2, IdleKeeps, Current DEF NoCgi, GoTo, peers, world
<1>3. CASE SkipSlot
  BY <1>3, SkipKeeps DEF SkipSlot
<1>4. CASE RecvCloses \/ SendCloses
  <2>1. /\ close_client_connection(cur, net) \/ close_client_connection(cur, SentByKernel)
        /\ backlog' = backlog /\ NextSlot
    BY <1>4 DEF RecvCloses, SendCloses, CloseSlot
  <2>2. cur' \in Slot /\ pc' # "accept"
    BY <2>1, NextSlotRange, Current
  <2> QED
    BY <2>1, <2>2, CloseKeeps
<1> QED
  BY <1>1, <1>2, <1>3, <1>4, SelectKeeps, AcceptKeeps, CgiWriteKeeps, CgiReadKeeps,
     RecvKeeps, SendKeeps, HandlerKeeps DEF ServerStep

\* server_shutdown_properly empties every slot, and no connection stays open.
LEMMA ShutdownKeeps == ASSUME IInv, Shutdown PROVE IInv'
<1>1. SlotInv /\ TaskInv
  BY DEF IInv
<1>2. /\ DOMAIN connection_list' = Slot
      /\ \A s \in Slot :
           /\ DOMAIN connection_list'[s] = PeerFields
           /\ connection_list'[s].socket = NULL
           /\ connection_list'[s].http_task = connection_list[s].http_task
  <2>1. connection_list' =
          [s \in Slot |-> IF s \in {t \in Slot : Peer(t).socket # NO_SOCKET}
                           THEN Vacated(Peer(s)) ELSE Peer(s)]
    BY DEF Shutdown, ShutdownOf
  <2> QED
    BY <1>1, <2>1 DEF Vacated, Peer, NO_SOCKET, SlotInv, Shape, PeerFields
<1>3. /\ DOMAIN net' = Client
      /\ \A c \in Client : /\ DOMAIN net'[c] = NetFields
                           /\ net'[c].conn # "open"
                           /\ net'[c].st = net[c].st
                           /\ net[c].st = "off" => net'[c].conn = "none"
  <2>1. net' =
          [c \in Client |->
             IF \E s \in {t \in Slot : Peer(t).socket # NO_SOCKET} : Peer(s).socket = c
               THEN [net[c] EXCEPT !.conn = "closed", !.inq = <<>>]
             ELSE IF Waiting(c) THEN [net[c] EXCEPT !.conn = "refused", !.inq = <<>>]
             ELSE net[c]]
    BY DEF Shutdown, ShutdownOf
  <2> SUFFICES ASSUME NEW c \in Client
               PROVE  /\ DOMAIN net'[c] = NetFields
                      /\ net'[c].conn # "open"
                      /\ net'[c].st = net[c].st
                      /\ net[c].st = "off" => net'[c].conn = "none"
    BY <2>1
  <2>2. /\ DOMAIN net[c] = NetFields
        /\ net[c].st = "off" => net[c].conn = "none"
        /\ net[c].st = "off" => ~Waiting(c)
        /\ net[c].conn = "open" <=> \E s \in Slot : Peer(s).socket = c
        /\ c # NO_SOCKET
    BY <1>1, StateAssumption
    DEF SlotInv, Shape, BacklogInv, SlotsMatchConnections, Waiting, NO_SOCKET
  <2>3. CASE \E s \in {t \in Slot : Peer(t).socket # NO_SOCKET} : Peer(s).socket = c
    BY <2>1, <2>2, <2>3 DEF NetFields
  <2>4. CASE ~(\E s \in {t \in Slot : Peer(t).socket # NO_SOCKET} : Peer(s).socket = c)
    BY <2>1, <2>2, <2>4 DEF NetFields
  <2> QED
    BY <2>3, <2>4
<1>4. backlog' = <<>> /\ cur' = 1 /\ pc' = "exit"
  BY DEF Shutdown, ShutdownOf
<1>5. Shape' /\ Sockets' /\ AcceptInv'
  BY <1>2, <1>3, <1>4, StateAssumption DEF Shape, Sockets, AcceptInv, Slot
<1>6. BacklogInv'
  BY <1>3, <1>4 DEF BacklogInv
<1>7. SlotsMatchConnections'
  BY <1>2, <1>3, StateAssumption DEF SlotsMatchConnections, Peer, Slot
<1>8. TaskInv'
  BY <1>1, <1>2, SameTasks
<1> QED
  BY <1>5, <1>6, <1>7, <1>8 DEF IInv, SlotInv
-----------------------------------------------------------------------------
(* The environment, and the theorems.                                      *)

\* A step of the environment that moves no connection in or out of the backlog.
LEMMA KernelKeeps ==
  ASSUME IInv, UnchangedServer, SameNet, backlog' = backlog PROVE IInv'
<1>1. SlotInv /\ TaskInv
  BY DEF IInv
<1>2. connection_list' = connection_list /\ cur' = cur /\ pc' = pc /\ rfds' = rfds
  BY DEF UnchangedServer, peers, loop
<1>3. SlotInv'
  BY <1>1, <1>2, SlotsKept, SameKeeps DEF SlotInv, Shape, AcceptInv
<1>4. TaskInv'
  BY <1>1, <1>2, SameTasks
<1> QED
  BY <1>3, <1>4 DEF IInv

LEMMA ConnectKeeps == ASSUME IInv, NEW c \in Client, Connect(c) PROVE IInv'
<1>1. SlotInv /\ TaskInv
  BY DEF IInv
<1>2. /\ net[c].st = "off" /\ net' = [net EXCEPT ![c].st = "on"]
      /\ backlog' = Append(backlog, c)
      /\ connection_list' = connection_list /\ cur' = cur /\ pc' = pc /\ rfds' = rfds
  BY DEF Connect, UnchangedServer, peers, loop
<1>3. /\ DOMAIN net' = Client
      /\ \A d \in Client :
           /\ DOMAIN net'[d] = NetFields
           /\ net'[d].conn = net[d].conn
           /\ net'[d].st = IF d = c THEN "on" ELSE net[d].st
  BY <1>1, <1>2 DEF SlotInv, Shape, NetFields
<1>4. Shape' /\ Sockets'
  BY <1>1, <1>2, <1>3 DEF SlotInv, Shape, Sockets, Slot
<1>5. BacklogInv'
  <2>1. /\ backlog \in Seq(Client) /\ Len(backlog) \in Nat
        /\ backlog' \in Seq(Client) /\ Len(backlog') = Len(backlog) + 1
        /\ backlog'[Len(backlog) + 1] = c
        /\ \A k \in 1 .. Len(backlog) : backlog'[k] = backlog[k] /\ backlog[k] \in Client
    BY <1>1, <1>2 DEF SlotInv, BacklogInv
  <2>2. \A k \in 1 .. Len(backlog) :
          /\ backlog[k] # c
          /\ net[backlog[k]].conn = "none" /\ net[backlog[k]].st # "off"
    BY <1>1, <1>2 DEF SlotInv, BacklogInv
  <2>3. net[c].conn = "none"
    BY <1>1, <1>2 DEF SlotInv, BacklogInv
  <2>4. \A k \in 1 .. Len(backlog') : k \in 1 .. Len(backlog) \/ k = Len(backlog) + 1
    BY <2>1
  <2>5. \A x, y \in 1 .. Len(backlog') : backlog'[x] = backlog'[y] => x = y
    BY <1>1, <2>1, <2>2, <2>4 DEF SlotInv, BacklogInv
  <2>6. \A x \in 1 .. Len(backlog') :
          net'[backlog'[x]].conn = "none" /\ net'[backlog'[x]].st # "off"
    BY <1>3, <2>1, <2>2, <2>3, <2>4
  <2>7. \A d \in Client : net'[d].st = "off" => net'[d].conn = "none"
    BY <1>1, <1>3 DEF SlotInv, BacklogInv
  <2> QED
    BY <2>1, <2>5, <2>6, <2>7 DEF BacklogInv
<1>6. AcceptInv'
  <2>1. backlog' # <<>>
    BY <1>1, <1>2 DEF SlotInv, BacklogInv
  <2> QED
    BY <2>1 DEF AcceptInv
<1>7. SlotsMatchConnections'
  BY <1>1, <1>2, <1>3 DEF SlotInv, SlotsMatchConnections, Peer, Slot
<1>8. TaskInv'
  BY <1>1, <1>2, SameTasks
<1> QED
  BY <1>4, <1>5, <1>6, <1>7, <1>8 DEF IInv, SlotInv

\* A client moves bytes and its own end, and connects once.
LEMMA ClientTouches ==
  ASSUME SlotInv, NEW c \in Client,
         ClientSend(c) \/ ClientRead(c) \/ ClientShutdown(c) \/ ClientVanish(c)
  PROVE  SameNet
<1>1. Shape
  BY DEF SlotInv
<1>2. ASSUME ClientSend(c) PROVE SameNet
  <2>1. PICK q, m : net' = [net EXCEPT ![c].inq = q, ![c].next = m]
    BY <1>2 DEF ClientSend
  <2> QED
    BY <1>1, <2>1 DEF Shape, SameNet, NetFields
<1>3. ASSUME ClientRead(c) PROVE SameNet
  BY <1>1, <1>3 DEF ClientRead, Shape, SameNet, NetFields
<1>4. ASSUME ClientShutdown(c) PROVE SameNet
  BY <1>1, <1>4 DEF ClientShutdown, Shape, SameNet, NetFields
<1>5. ASSUME ClientVanish(c) PROVE SameNet
  <2>1. net[c].st # "off"
    BY <1>5 DEF ClientVanish
  <2>2. PICK q : net' = [net EXCEPT ![c].st = "gone", ![c].inq = q, ![c].outq = <<>>]
    BY <1>5 DEF ClientVanish
  <2> QED
    BY <1>1, <2>1, <2>2 DEF Shape, SameNet, NetFields
<1> QED
  BY <1>2, <1>3, <1>4, <1>5

LEMMA ClientKeeps ==
  ASSUME IInv, NEW c \in Client,
         ClientSend(c) \/ ClientRead(c) \/ ClientShutdown(c) \/ ClientVanish(c)
  PROVE IInv'
<1>1. SameNet
  BY ClientTouches DEF IInv
<1>2. UnchangedServer /\ backlog' = backlog
  BY DEF ClientSend, ClientRead, ClientShutdown, ClientVanish
<1> QED
  BY <1>1, <1>2, KernelKeeps

LEMMA ChildKeeps ==
  ASSUME IInv, NEW p \in Pids,
         ChildRead(p) \/ ChildWrite(p) \/ ChildExit(p) \/ ChildFails(p)
  PROVE IInv'
<1>1. UnchangedServer /\ net' = net /\ backlog' = backlog
  BY DEF ChildRead, ChildWrite, ChildExit, ChildFails
<1>2. SameNet
  BY <1>1, NetKept DEF IInv
<1> QED
  BY <1>1, <1>2, KernelKeeps

LEMMA NextIInv == IInv /\ [Next]_vars => IInv'
<1> SUFFICES ASSUME IInv, [Next]_vars PROVE IInv'
  OBVIOUS
<1>1. CASE ServerStep
  BY <1>1, ServerKeeps
<1>2. CASE Environment
  <2>1. CASE \E c \in Client : Connect(c)
    BY <2>1, ConnectKeeps
  <2>2. CASE \E c \in Client :
               ClientSend(c) \/ ClientRead(c) \/ ClientShutdown(c) \/ ClientVanish(c)
    BY <2>2, ClientKeeps
  <2>3. CASE \E p \in Pids :
               ChildRead(p) \/ ChildWrite(p) \/ ChildExit(p) \/ ChildFails(p)
    BY <2>3, ChildKeeps
  <2> QED
    BY <1>2, <2>1, <2>2, <2>3 DEF Environment
<1>3. CASE Interrupt \/ SelectFails
  BY <1>3, ShutdownKeeps DEF Interrupt, SelectFails
<1>4. CASE UNCHANGED vars
  <2>1. UnchangedServer /\ net' = net /\ backlog' = backlog
    BY <1>4 DEF vars, UnchangedServer, peers, loop
  <2>2. SameNet
    BY <2>1, NetKept DEF IInv
  <2> QED
    BY <2>1, <2>2, KernelKeeps
<1> QED
  BY <1>1, <1>2, <1>3, <1>4 DEF Next

LEMMA InitIInv == Init => IInv
<1> SUFFICES ASSUME Init PROVE IInv
  OBVIOUS
<1>1. /\ connection_list = [s \in Slot |-> FreshPeer] /\ cur = 1 /\ pc = "select"
      /\ backlog = <<>>
      /\ net = [c \in Client |->
                  [st |-> "off", conn |-> "none", inq |-> <<>>, outq |-> <<>>,
                   got |-> <<>>, next |-> <<1, 1>>]]
  BY DEF Init
<1>2. /\ DOMAIN FreshPeer = PeerFields /\ FreshPeer.socket = NULL
      /\ FreshPeer.http_task = FreshTask
  BY DEF FreshPeer, PeerFields, NO_SOCKET
<1>3. Shape /\ Sockets
  BY <1>1, <1>2, StateAssumption DEF Shape, Sockets, Slot, NetFields
<1>4. BacklogInv
  BY <1>1 DEF BacklogInv
<1>5. AcceptInv
  BY <1>1 DEF AcceptInv
<1>6. SlotsMatchConnections
  BY <1>1, <1>2, StateAssumption DEF SlotsMatchConnections, Peer
<1>7. TaskInv
  BY <1>1, <1>2, FreshTaskOK DEF TaskInv
<1> QED
  BY <1>3, <1>4, <1>5, <1>6, <1>7 DEF IInv, SlotInv

\* The invariant holds of every reachable state.
THEOREM InvariantHolds == Spec => []IInv
  BY InitIInv, NextIInv, PTL DEF Spec

\* However clients come and go, and whatever goes wrong around the server, a
\* connection that is open is held by exactly one slot, and no slot holds one
\* that is not.
THEOREM SlotsCorrect == Spec => []SlotsMatchConnections
<1>1. IInv => SlotsMatchConnections
  BY DEF IInv, SlotInv
<1> QED
  BY InvariantHolds, <1>1, PTL

\* The asserts on the task in handle_http hold in every state it can be
\* resumed in.
THEOREM AssertsHold == Spec => []CodeAsserts
<1>1. IInv => CodeAsserts
  BY Current DEF CodeAsserts, TaskOK, Task
<1> QED
  BY InvariantHolds, <1>1, PTL
-----------------------------------------------------------------------------
(* The slots implement the connection table, for any number of clients and  *)
(* of slots.                                                               *)

Used == {s \in Slot : Peer(s).socket # NO_SOCKET}
Open == {c \in Client : Status(c) = "open"}

\* A connection that waits is not yet anything else.
LEMMA WaitingIsNew ==
  ASSUME SlotInv, NEW c \in Client, Waiting(c)
  PROVE  net[c].conn = "none" /\ net[c].st # "off"
  BY DEF SlotInv, BacklogInv, Waiting

\* The open connections are as many as the slots in use.
LEMMA OpenCounted ==
  ASSUME SlotInv
  PROVE  /\ (\E s \in Slot : Peer(s).socket = NO_SOCKET) => Cardinality(Open) < MAX_CLIENTS
         /\ (\A s \in Slot : Peer(s).socket # NO_SOCKET) => Cardinality(Open) = MAX_CLIENTS
<1> DEFINE f == [s \in Used |-> Peer(s).socket]
<1>1. \A c \in Client : c \in Open <=> \E s \in Slot : Peer(s).socket = c
  BY WaitingIsNew DEF Open, Status, SlotInv, SlotsMatchConnections
<1>2. f \in [Used -> Open]
  BY <1>1 DEF Used, SlotInv, Sockets, Peer, NO_SOCKET
<1>3. \A s, t \in Used : f[s] = f[t] => s = t
  BY <1>1, <1>2 DEF Used, Open, SlotInv, SlotsMatchConnections
<1>4. \A c \in Open : \E s \in Used : f[s] = c
  BY <1>1, StateAssumption DEF Used, Open, NO_SOCKET
<1>5. f \in Bijection(Used, Open)
  BY <1>2, <1>3, <1>4, Fun_IsBij
<1>6. IsFiniteSet(Slot) /\ Cardinality(Slot) = MAX_CLIENTS
  <2>1. MAX_CLIENTS \in Int /\ MAX_CLIENTS >= 1
    BY StateAssumption
  <2> QED
    BY <2>1, FS_Interval DEF Slot
<1>7. /\ IsFiniteSet(Used) /\ Cardinality(Used) <= MAX_CLIENTS
      /\ Cardinality(Used) = MAX_CLIENTS => Used = Slot
  BY <1>6, FS_Subset DEF Used
<1>8. Cardinality(Open) = Cardinality(Used)
  <2>1. ExistsBijection(Used, Open)
    BY <1>5 DEF ExistsBijection
  <2> QED
    BY <1>7, <2>1, FS_Bijection
<1>9. Cardinality(Used) \in Nat
  BY <1>7, FS_CardinalityType
<1>10. (\E s \in Slot : Peer(s).socket = NO_SOCKET) => Used # Slot
  BY DEF Used
<1>11. (\A s \in Slot : Peer(s).socket # NO_SOCKET) => Used = Slot
  BY DEF Used
<1> QED
  BY <1>6, <1>7, <1>8, <1>9, <1>10, <1>11, StateAssumption

LEMMA SameCardinality == ASSUME NEW S PROVE Table!Cardinality(S) = Cardinality(S)
  BY DEF Table!Cardinality, Cardinality
-----------------------------------------------------------------------------
(* What each kind of step is for the table.                                *)

TableStep == [Table!Next]_(Table!vars)

\* One connection gets a new status.
LEMMA OneChanges ==
  ASSUME NEW c \in Client, NEW v, Status(c)' = v,
         \A d \in Client \ {c} : Status(d)' = Status(d)
  PROVE  Statuses' = [Statuses EXCEPT ![c] = v]
  BY DEF Statuses

\* Nothing happens when no connection comes, goes or is accepted.
LEMMA TransferStep ==
  ASSUME SameNet, backlog' = backlog PROVE TableStep
<1>1. \A c \in Client : Status(c)' = Status(c)
  BY DEF SameNet, Status, Waiting
<1>2. Statuses' = Statuses
  BY <1>1 DEF Statuses
<1> QED
  BY <1>2 DEF TableStep, Table!vars

\* The end of the connection of the current slot, if it has one.
LEMMA CloseStep ==
  ASSUME SlotInv, Closes, backlog' = backlog PROVE TableStep
<1>1. connection_list[cur].socket \in Client \cup {NULL} /\ NULL \notin Client
  BY StateAssumption DEF SlotInv, Sockets, Shape
<1>2. \A d \in Client : Waiting(d)' <=> Waiting(d)
  BY DEF Waiting
<1>3. \A d \in Client : d # connection_list[cur].socket => Status(d)' = Status(d)
  BY <1>2 DEF Closes, Status
<1>4. ASSUME NEW c \in Client, c = connection_list[cur].socket PROVE TableStep
  <2>1. net[c].conn = "open"
    BY <1>4 DEF SlotInv, SlotsMatchConnections, Shape, Peer
  <2>2. ~Waiting(c)
    BY <2>1, WaitingIsNew
  <2>3. Status(c) = "open" /\ Status(c)' = "closed"
    BY <1>2, <1>4, <2>1, <2>2 DEF Status, Closes
  <2>4. Statuses' = [Statuses EXCEPT ![c] = "closed"] /\ Statuses[c] = "open"
    BY <1>3, <1>4, <2>3, OneChanges DEF Statuses
  <2>5. Table!Release(c)
    BY <2>4 DEF Table!Release
  <2> QED
    BY <2>5 DEF TableStep, Table!Next
<1>5. CASE connection_list[cur].socket = NULL
  <2>1. SameNet
    BY <1>1, <1>5 DEF Closes, SameNet
  <2> QED
    BY <2>1, TransferStep
<1> QED
  BY <1>1, <1>4, <1>5

\* When accept takes a connection off the backlog, the others go on waiting.
LEMMA OthersWait ==
  ASSUME SlotInv, backlog # <<>>, backlog' = Tail(backlog), NEW c, c = Head(backlog)
  PROVE  /\ c \in Client /\ Waiting(c) /\ ~Waiting(c)'
         /\ \A d \in Client \ {c} : Waiting(d)' <=> Waiting(d)
<1>1. /\ backlog \in Seq(Client)
      /\ \A i, j \in 1 .. Len(backlog) : backlog[i] = backlog[j] => i = j
  BY DEF SlotInv, BacklogInv
<1>2. /\ c = backlog[1] /\ c \in Client /\ Len(backlog) \in Nat \ {0}
      /\ Len(backlog') = Len(backlog) - 1
      /\ \A k \in 1 .. Len(backlog') : backlog'[k] = backlog[k + 1]
  BY <1>1
<1>3. \A k \in 2 .. Len(backlog) :
        k - 1 \in 1 .. Len(backlog') /\ backlog'[k - 1] = backlog[k]
  BY <1>2
<1>4. Waiting(c) /\ ~Waiting(c)'
  <2>1. Waiting(c)
    BY <1>2 DEF Waiting
  <2>2. ASSUME NEW k \in 1 .. Len(backlog'), backlog'[k] = c PROVE FALSE
    <3>1. k + 1 \in 1 .. Len(backlog) /\ 1 \in 1 .. Len(backlog) /\ k + 1 # 1
      BY <1>2
    <3>2. backlog[k + 1] = backlog[1]
      BY <1>2, <2>2
    <3> QED
      BY <1>1, <3>1, <3>2
  <2> QED
    BY <2>1, <2>2 DEF Waiting
<1>5. ASSUME NEW d \in Client \ {c} PROVE Waiting(d)' <=> Waiting(d)
  <2>1. ASSUME NEW k \in 1 .. Len(backlog'), backlog'[k] = d PROVE Waiting(d)
    <3>1. k + 1 \in 1 .. Len(backlog) /\ backlog[k + 1] = d
      BY <1>2, <2>1
    <3> QED
      BY <3>1 DEF Waiting
  <2>2. ASSUME NEW k \in 1 .. Len(backlog), backlog[k] = d PROVE Waiting(d)'
    <3>1. k \in 2 .. Len(backlog)
      BY <1>2, <2>2
    <3> QED
      BY <1>3, <2>2, <3>1 DEF Waiting
  <2> QED
    BY <2>1, <2>2 DEF Waiting
<1> QED
  BY <1>2, <1>4, <1>5

\* accept takes the first waiting connection when some slot is free, and
\* refuses it when none is.
LEMMA AcceptStep == ASSUME IInv, Accept PROVE TableStep
<1>1. SlotInv
  BY DEF IInv
<1>2. CASE UNCHANGED <<net, backlog>>
  BY <1>1, <1>2, NetKept, TransferStep
<1>3. ASSUME ~UNCHANGED <<net, backlog>>, NEW c, c = Head(backlog) PROVE TableStep
  <2>1. /\ backlog' = Tail(backlog) /\ pc = "accept" /\ ListenFd \in rfds
        /\ \/ /\ \E s \in Slot : Peer(s).socket = NO_SOCKET
              /\ net' = [net EXCEPT ![c].conn = "open"]
           \/ /\ \A s \in Slot : Peer(s).socket # NO_SOCKET
              /\ net' = [net EXCEPT ![c].conn = "refused", ![c].inq = <<>>]
    BY <1>3 DEF Accept, handle_new_connection
  <2>2. backlog # <<>>
    BY <1>1, <2>1 DEF SlotInv, AcceptInv
  <2>3. /\ c \in Client /\ Waiting(c) /\ ~Waiting(c)'
        /\ \A d \in Client \ {c} : Waiting(d)' <=> Waiting(d)
    BY <1>1, <1>3, <2>1, <2>2, OthersWait
  <2>4. \A d \in Client \ {c} : net'[d] = net[d]
    BY <1>1, <2>1, <2>3 DEF SlotInv, Shape
  <2>5. \A d \in Client \ {c} : Status(d)' = Status(d)
    BY <2>3, <2>4 DEF Status
  <2>6. CASE /\ \E s \in Slot : Peer(s).socket = NO_SOCKET
             /\ net' = [net EXCEPT ![c].conn = "open"]
    <3>1. net'[c].conn = "open"
      BY <1>1, <2>3, <2>6 DEF SlotInv, Shape, NetFields
    <3>2. Statuses' = [Statuses EXCEPT ![c] = "open"]
      BY <2>3, <2>5, <3>1, OneChanges DEF Status
    <3>3. Cardinality(Open) < MAX_CLIENTS
      BY <1>1, <2>6, OpenCounted
    <3>4. Table!Is("open") = Open
      BY DEF Table!Is, Open, Statuses
    <3>5. Table!Admit
      BY <1>3, <2>1, <2>2, <3>2, <3>3, <3>4, SameCardinality DEF Table!Admit
    <3> QED
      BY <3>5 DEF TableStep, Table!Next
  <2>7. CASE /\ \A s \in Slot : Peer(s).socket # NO_SOCKET
             /\ net' = [net EXCEPT ![c].conn = "refused", ![c].inq = <<>>]
    <3>1. net'[c].conn = "refused"
      BY <1>1, <2>3, <2>7 DEF SlotInv, Shape, NetFields
    <3>2. Statuses' = [Statuses EXCEPT ![c] = "refused"]
      BY <2>3, <2>5, <3>1, OneChanges DEF Status
    <3>3. Cardinality(Open) = MAX_CLIENTS
      BY <1>1, <2>7, OpenCounted
    <3>4. Table!Is("open") = Open
      BY DEF Table!Is, Open, Statuses
    <3>5. Table!Refuse
      BY <1>3, <2>1, <2>2, <3>2, <3>3, <3>4, SameCardinality DEF Table!Refuse
    <3> QED
      BY <3>5 DEF TableStep, Table!Next
  <2> QED
    BY <2>1, <2>6, <2>7
<1> QED
  BY <1>2, <1>3

LEMMA ConnectStep == ASSUME IInv, NEW c \in Client, Connect(c) PROVE TableStep
<1>1. SlotInv
  BY DEF IInv
<1>2. /\ net[c].st = "off" /\ net' = [net EXCEPT ![c].st = "on"]
      /\ backlog' = Append(backlog, c)
  BY DEF Connect
<1>3. net[c].conn = "none" /\ ~Waiting(c) /\ backlog \in Seq(Client)
  BY <1>1, <1>2, WaitingIsNew DEF SlotInv, BacklogInv
<1>4. /\ Waiting(c)'
      /\ \A d \in Client \ {c} : Waiting(d)' <=> Waiting(d)
  <2>1. /\ Len(backlog) \in Nat /\ Len(backlog') = Len(backlog) + 1
        /\ backlog'[Len(backlog) + 1] = c
        /\ \A k \in 1 .. Len(backlog) : backlog'[k] = backlog[k]
    BY <1>2, <1>3
  <2> QED
    BY <2>1 DEF Waiting
<1>5. \A d \in Client \ {c} : Status(d)' = Status(d)
  BY <1>1, <1>2, <1>4 DEF Status, SlotInv, Shape
<1>6. Status(c) = "none" /\ Status(c)' = "waiting"
  BY <1>3, <1>4 DEF Status
<1>7. Statuses[c] = "none" /\ Statuses' = [Statuses EXCEPT ![c] = "waiting"]
  BY <1>5, <1>6, OneChanges DEF Statuses
<1>8. Table!Arrive(c)
  BY <1>2, <1>7 DEF Table!Arrive
<1> QED
  BY <1>8 DEF TableStep, Table!Next

LEMMA ShutdownStep == ASSUME IInv, Shutdown PROVE TableStep
<1>1. SlotInv
  BY DEF IInv
<1>2. backlog' = <<>>
  BY DEF Shutdown, ShutdownOf
<1>3. net' =
        [c \in Client |->
           IF \E s \in {t \in Slot : Peer(t).socket # NO_SOCKET} : Peer(s).socket = c
             THEN [net[c] EXCEPT !.conn = "closed", !.inq = <<>>]
           ELSE IF Waiting(c) THEN [net[c] EXCEPT !.conn = "refused", !.inq = <<>>]
           ELSE net[c]]
  BY DEF Shutdown, ShutdownOf
<1>4. ASSUME NEW c \in Client
      PROVE  Status(c)' = CASE Status(c) = "open" -> "closed"
                            [] Waiting(c) -> "refused"
                            [] OTHER -> Status(c)
  <2>1. /\ DOMAIN net[c] = NetFields
        /\ net[c].conn = "open" <=> \E s \in Slot : Peer(s).socket = c
        /\ c # NO_SOCKET
        /\ Waiting(c) => net[c].conn = "none"
    BY <1>1, WaitingIsNew, StateAssumption
    DEF SlotInv, Shape, SlotsMatchConnections, NO_SOCKET
  <2>2. ~Waiting(c)'
    BY <1>2 DEF Waiting
  <2>3. CASE net[c].conn = "open"
    BY <1>3, <2>1, <2>2, <2>3 DEF Status, NetFields
  <2>4. CASE Waiting(c)
    BY <1>3, <2>1, <2>2, <2>4 DEF Status, NetFields
  <2>5. CASE net[c].conn # "open" /\ ~Waiting(c)
    <3>1. Status(c) # "open"
      BY <2>5 DEF Status
    <3>2. net'[c] = net[c]
      BY <1>3, <2>1, <2>5
    <3> QED
      BY <2>2, <2>5, <3>1, <3>2 DEF Status
  <2> QED
    BY <2>3, <2>4, <2>5
<1>5. Statuses' = [c \in Client |->
         CASE Statuses[c] = "open" -> "closed"
           [] Table!Waits(c) -> "refused"
           [] OTHER -> Statuses[c]]
  BY <1>4 DEF Statuses, Table!Waits, Waiting
<1>6. Table!Shutdown
  BY <1>2, <1>5 DEF Table!Shutdown
<1> QED
  BY <1>6 DEF TableStep, Table!Next
-----------------------------------------------------------------------------
\* handle_http keeps every connection, or closes that of its slot.
LEMMA HandlerTableStep == ASSUME IInv, Handler PROVE TableStep
<1>1. SlotInv
  BY DEF IInv
<1>2. ASSUME ReturnCloseNow PROVE TableStep
  <2>1. close_client_connection(cur, net) /\ backlog' = backlog
    BY <1>2 DEF ReturnCloseNow
  <2> QED
    BY <1>1, <2>1, CloseNow, CloseStep
<1>3. ASSUME net' = net, backlog' = backlog PROVE TableStep
  BY <1>1, <1>3, NetKept, TransferStep
<1>4. CASE HeaderTooLong \/ HeaderRefused
  BY <1>2, <1>4 DEF HeaderTooLong, HeaderRefused
<1>5. CASE SendBodyFails
  BY <1>2, <1>3, <1>5 DEF SendBodyFails, world
<1>6. CASE HeaderIncomplete \/ HeaderParsed \/ ReceiveBody \/ GenerateHeader \/ SendHeader
  BY <1>3, <1>6
  DEF HeaderIncomplete, HeaderParsed, ReceiveBody, GenerateHeader, SendHeader, Continue, world
<1>7. CASE CheckStatic \/ CheckCgi \/ ProcessingCgi \/ SendBody \/ Finish \/ HandlerDies
  BY <1>3, <1>7 DEF CheckStatic, CheckCgi, ProcessingCgi, SendBody, Finish, HandlerDies, Die, world
<1> QED
  BY <1>4, <1>5, <1>6, <1>7 DEF Handler

LEMMA ServerTableStep == ASSUME IInv, ServerStep PROVE TableStep
<1>1. SlotInv
  BY DEF IInv
<1>2. ASSUME close_client_connection(cur, net) \/ close_client_connection(cur, SentByKernel),
             backlog' = backlog
      PROVE  TableStep
  BY <1>1, <1>2, CloseNow, CloseAfterSend, CloseStep
<1>3. ASSUME net' = net, backlog' = backlog PROVE TableStep
  BY <1>1, <1>3, NetKept, TransferStep
<1>4. CASE Select \/ SelectDies \/ NoCgi \/ CgiRead \/ CgiDies \/ SkipSlot
  BY <1>3, <1>4 DEF Select, SelectDies, NoCgi, CgiRead, CgiDies, SkipSlot, Die, world
<1>5. CASE CgiWrite
  BY <1>2, <1>3, <1>5 DEF CgiWrite
<1>6. CASE RecvCloses \/ SendCloses
  BY <1>2, <1>6 DEF RecvCloses, SendCloses, CloseSlot
<1>7. CASE Recv
  <2>1. CASE ReceiveFromPeer
    <3>1. SameNet
      BY <1>1, <2>1 DEF ReceiveFromPeer, SameNet, SlotInv, Shape, NetFields
    <3> QED
      BY <1>7, <3>1, TransferStep DEF Recv
  <2>2. CASE ~ReceiveFromPeer
    BY <1>3, <1>7, <2>2 DEF Recv
  <2> QED
    BY <2>1, <2>2
<1>8. CASE Send
  <2>1. CASE SendToPeer
    <3>1. net' = SentByKernel /\ backlog' = backlog
      BY <1>8, <2>1 DEF SendToPeer, Send
    <3>2. SameNet
      BY <1>1, <3>1, SentByKernelSame DEF SameNet
    <3> QED
      BY <3>1, <3>2, TransferStep
  <2>2. CASE ~SendToPeer
    BY <1>3, <1>8, <2>2 DEF Send
  <2> QED
    BY <2>1, <2>2
<1> QED
  BY <1>4, <1>5, <1>6, <1>7, <1>8, AcceptStep, HandlerTableStep DEF ServerStep

LEMMA EnvironmentStep == ASSUME IInv, Environment PROVE TableStep
<1>1. CASE \E c \in Client : Connect(c)
  BY <1>1, ConnectStep
<1>2. ASSUME NEW c \in Client,
             ClientSend(c) \/ ClientRead(c) \/ ClientShutdown(c) \/ ClientVanish(c)
      PROVE  TableStep
  <2>1. SameNet
    BY <1>2, ClientTouches DEF IInv
  <2>2. backlog' = backlog
    BY <1>2 DEF ClientSend, ClientRead, ClientShutdown, ClientVanish
  <2> QED
    BY <2>1, <2>2, TransferStep
<1>3. ASSUME NEW p \in Pids,
             ChildRead(p) \/ ChildWrite(p) \/ ChildExit(p) \/ ChildFails(p)
      PROVE  TableStep
  <2>1. net' = net /\ backlog' = backlog
    BY <1>3 DEF ChildRead, ChildWrite, ChildExit, ChildFails
  <2> QED
    BY <2>1, NetKept, TransferStep DEF IInv
<1> QED
  BY <1>1, <1>2, <1>3 DEF Environment

LEMMA NextStep == IInv /\ [Next]_vars => TableStep
<1> SUFFICES ASSUME IInv, [Next]_vars PROVE TableStep
  OBVIOUS
<1>1. CASE Interrupt \/ SelectFails
  BY <1>1, ShutdownStep DEF Interrupt, SelectFails
<1>2. CASE UNCHANGED vars
  BY <1>2, NetKept, TransferStep DEF vars, IInv
<1> QED
  BY <1>1, <1>2, ServerTableStep, EnvironmentStep DEF Next

\* Connections are taken in the order in which they came, refused only when
\* every slot has one, and never come back, whatever the clients, the scripts
\* and the signals do (message.c:480-535, server.c:193-206).
THEOREM ImplementsTable == Spec => TableSpec
<1>1. Init => Table!Init
  <2> SUFFICES ASSUME Init PROVE Table!Init
    OBVIOUS
  <2>1. backlog = <<>> /\ \A c \in Client : net[c].conn = "none"
    BY DEF Init
  <2>2. \A c \in Client : Status(c) = "none"
    BY <2>1 DEF Status, Waiting
  <2> QED
    BY <2>1, <2>2 DEF Table!Init, Statuses
<1>2. IInv /\ [Next]_vars => [Table!Next]_(Table!vars)
  BY NextStep DEF TableStep
<1> QED
  BY <1>1, <1>2, InvariantHolds, PTL DEF Spec, TableSpec, Table!Spec
-----------------------------------------------------------------------------
(* What the buffers hold.                                                  *)

\* The requests of script sc, and the tokens that can be made of them.
Asked(sc) == UNION {{<<c, k>> : k \in 1 .. Len(sc[c])} : c \in Client}
Piece(sc) == [req : Asked(sc), part : {"head", "end", "body", "eof", "cgi"}, n : Int]
PieceOf(sc, c) == {t \in Piece(sc) : t.req[1] = c}

ExecFields == {"live", "pid", "cgi_buffer"}
ProcFields == {"st", "env", "stdin", "stdout", "read", "wrote", "holds"}

\* In these states a task works on the request it has parsed.
Parsed == {"RECV_BODY_STATE", "CHECK_CGI", "GENERATE_HEADER_STATE", "SEND_HEADER_STATE",
           "SEND_BODY_STATE"}

\* What the state of a task says about its buffers.
TaskTyped(sc, t) ==
  /\ t.state \in States
  /\ t.own \in Asked(sc) \cup {None}
  /\ t.state \in Parsed => t.own \in Asked(sc)
  /\ t.parse_buf \in Seq(Piece(sc)) /\ Len(t.parse_buf) <= BUF_DATA_MAXSIZE
  /\ t.response_buf \in Seq(Piece(sc)) /\ Len(t.response_buf) <= 4
  /\ t.state \in {"RECV_HEADER_STATE", "RECV_BODY_STATE", "CHECK_CGI"} => t.response_buf = <<>>
  /\ t.state = "GENERATE_HEADER_STATE" => Len(t.response_buf) <= 2
  /\ t.response_code \in Int
  /\ t.post_body \in Seq(Piece(sc))
  /\ t.state = "RECV_HEADER_STATE" => t.post_body = <<>>
  /\ t.state = "RECV_BODY_STATE" =>
       t.body_bytes_num \in Nat /\ Len(t.post_body) <= t.body_bytes_num
  /\ t.state \in {"RECV_BODY_STATE", "CHECK_CGI"} =>
       t.method_type = sc[t.own[1]][t.own[2]].method
  /\ t.fp \in {None} \cup [of : Asked(sc), pos : 0 .. FileLen + 1]
  /\ SendsFile(t) => t.fp # None
  /\ t.state = "GENERATE_HEADER_STATE" /\ t.response_code = 200 => t.method_type # "GET"

\* All that a slot has received is from its client.
Owned(sc, p) ==
  p.socket # NULL =>
    /\ p.http_task.own # None => p.http_task.own[1] = p.socket
    /\ p.http_task.parse_buf \in Seq(PieceOf(sc, p.socket))

SlotTyped(sc, p) ==
  /\ p.sending_buffer \in Seq(Piece(sc)) /\ Len(p.sending_buffer) <= BUF_DATA_MAXSIZE
  /\ p.receiving_buffer \in Seq(PieceOf(sc, p.socket))
  /\ Len(p.receiving_buffer) <= BUF_DATA_MAXSIZE
  /\ p.close_conn \in BOOLEAN
  /\ TaskTyped(sc, p.http_task)
  /\ Owned(sc, p)

SlotsTyped == \A s \in Slot : SlotTyped(script, connection_list[s])

Control ==
  /\ pc \in {"select", "accept", "cgi_write", "cgi_read", "recv", "send", "http", "dead", "exit"}
  /\ has_read \in BOOLEAN /\ has_sent \in BOOLEAN
  /\ pc \in {"send", "http"} => connection_list[cur].socket # NULL
  /\ pc = "cgi_read" => connection_list[cur].cgi_executor # NULL

ScriptTyped == script \in [Client -> Seq(Request)]

NetTyped ==
  \A c \in Client :
    /\ net[c].inq \in Seq(PieceOf(script, c)) /\ Len(net[c].inq) <= NetCap
    /\ net[c].outq \in Seq(Piece(script)) /\ Len(net[c].outq) <= NetCap
    /\ net[c].next \in (Nat \ {0}) \X Nat

ExecTyped ==
  /\ DOMAIN execs = ExecAddr
  /\ \A a \in ExecAddr :
       /\ DOMAIN execs[a] = ExecFields
       /\ execs[a].pid \in Asked(script) \cup {None}
       /\ execs[a].live => execs[a].pid \in Asked(script)

\* The executor that a slot points to, freed or not, has been made for a child.
PointerTyped ==
  \A s \in Slot :
    \/ connection_list[s].cgi_executor = NULL
    \/ /\ connection_list[s].cgi_executor \in ExecAddr
       /\ execs[connection_list[s].cgi_executor].pid \in Asked(script)

ProcTyped ==
  /\ DOMAIN proc = Asked(script)
  /\ \A p \in Asked(script) :
       /\ DOMAIN proc[p] = ProcFields
       /\ proc[p].stdout \in Seq(Piece(script)) /\ proc[p].wrote \in Nat
       /\ proc[p].st # "none" => proc[p].env \in Asked(script)

RequestTyped == request = NULL \/ request \in [of : Asked(script), freed : BOOLEAN]

\* A task only rests in the middle of a file when its sending buffer is full, so
\* that nothing but send moves it on.
Rests(p) ==
  /\ p.http_task.state # "SEND_HEADER_STATE"
  /\ p.http_task.state = "SEND_BODY_STATE" => Len(p.sending_buffer) = BUF_DATA_MAXSIZE

Resting ==
  \A s \in Slot : connection_list[s].socket # NULL /\ ~(pc = "http" /\ s = cur) =>
                    Rests(connection_list[s])

\* The connection of a stream was accepted, and is over, or a task of it sends
\* the file; or the stream is that of a HEAD request.
Sender(r, s) ==
  /\ connection_list[s].socket = r[1] /\ connection_list[s].http_task.own = r
  /\ SendsFile(connection_list[s].http_task)

StreamOK(r) ==
  \/ script[r[1]][r[2]].method = "HEAD"
  \/ net[r[1]].conn \notin {"none", "open"}
  \/ \E s \in Slot : Sender(r, s)

StreamInv == streams \subseteq Asked(script) /\ \A r \in streams : StreamOK(r)

Typed ==
  /\ Control /\ ScriptTyped /\ SlotsTyped /\ NetTyped
  /\ ExecTyped /\ PointerTyped /\ ProcTyped /\ RequestTyped

Full == IInv /\ Typed /\ Resting /\ StreamInv

\* What the theorems say follows.
LEMMA FullImplies == Full => TypeOK /\ StreamsAccounted
<1> SUFFICES ASSUME Full PROVE TypeOK /\ StreamsAccounted
  OBVIOUS
<1>0. IInv /\ Typed /\ StreamInv /\ Pids = Asked(script)
  BY DEF Full, Pids, Asked
<1>1. \A sc, c : \A q \in Seq(PieceOf(sc, c)) : q \in Seq(Piece(sc))
  BY SeqMonotonic DEF PieceOf
<1>2. \A q \in Seq(Piece(script)) : Pieces(q)
  <2> SUFFICES ASSUME NEW q \in Seq(Piece(script)), NEW i \in 1 .. Len(q) PROVE IsPiece(q[i])
    BY DEF Pieces
  <2>1. q[i] \in Piece(script)
    BY ElementOfSeq
  <2> QED
    BY <1>0, <2>1 DEF IsPiece, Piece
<1>3. TypeOK
  <2>1. /\ cur \in Slot
        /\ pc \in {"select", "accept", "cgi_write", "cgi_read", "recv", "send", "http",
                   "dead", "exit"}
        /\ has_read \in BOOLEAN /\ has_sent \in BOOLEAN
    BY <1>0 DEF Typed, Control, IInv, SlotInv, Shape
  <2>2. ASSUME NEW s \in Slot
        PROVE  /\ Peer(s).socket \in Client \cup {NO_SOCKET}
               /\ Peer(s).cgi_executor \in ExecAddr \cup {NULL}
               /\ Peer(s).close_conn \in BOOLEAN
               /\ Peer(s).http_task.state \in States
               /\ \A q \in {Peer(s).sending_buffer, Peer(s).receiving_buffer,
                            Peer(s).http_task.parse_buf, Peer(s).http_task.response_buf} :
                    Len(q) <= BUF_DATA_MAXSIZE /\ Pieces(q)
    <3>1. SlotTyped(script, Peer(s)) /\ TaskTyped(script, Peer(s).http_task)
      BY <1>0 DEF Typed, SlotsTyped, SlotTyped, Peer
    <3>2. /\ Peer(s).socket \in Client \cup {NO_SOCKET}
          /\ Peer(s).cgi_executor \in ExecAddr \cup {NULL}
      BY <1>0 DEF Typed, PointerTyped, IInv, SlotInv, Sockets, Peer, NO_SOCKET
    <3>3. Len(Peer(s).http_task.response_buf) <= BUF_DATA_MAXSIZE
      <4>1. Len(Peer(s).http_task.response_buf) \in Nat
        BY <3>1, LenProperties DEF TaskTyped
      <4> QED
        BY <3>1, <4>1, StateAssumption DEF TaskTyped
    <3> QED
      BY <1>1, <1>2, <3>1, <3>2, <3>3 DEF SlotTyped, TaskTyped
  <2>3. \A a \in ExecAddr : execs[a].live => execs[a].pid \in Pids
    BY <1>0 DEF Typed, ExecTyped
  <2>4. request = NULL \/ request.of \in Pids
    BY <1>0 DEF Typed, RequestTyped
  <2>5. \A c \in Client : /\ Len(net[c].inq) <= NetCap /\ Len(net[c].outq) <= NetCap
                          /\ Pieces(net[c].inq) /\ Pieces(net[c].outq)
    BY <1>0, <1>1, <1>2 DEF Typed, NetTyped
  <2> QED
    BY <2>1, <2>2, <2>3, <2>4, <2>5 DEF TypeOK
<1>4. StreamsAccounted
  BY <1>0 DEF StreamInv, StreamOK, Sender, StreamsAccounted, RequestOf, Peer
<1> QED
  BY <1>3, <1>4
-----------------------------------------------------------------------------
(* Cutting and joining sequences.                                          *)

LEMMA LeastType ==
  ASSUME NEW a \in Int, NEW b \in Int
  PROVE  Least(a, b) \in {a, b} /\ Least(a, b) <= a /\ Least(a, b) <= b
  BY DEF Least

LEMMA TakeType ==
  ASSUME NEW S, NEW q \in Seq(S), NEW n \in 0 .. Len(q)
  PROVE  Take(q, n) \in Seq(S) /\ Len(Take(q, n)) = n
<1>1. \A i \in 1 .. n : q[i] \in S
  BY ElementOfSeq, LenProperties
<1> QED
  BY <1>1, SubSeqProperties, LenProperties DEF Take

LEMMA DropType ==
  ASSUME NEW S, NEW q \in Seq(S), NEW n \in 0 .. Len(q)
  PROVE  Drop(q, n) \in Seq(S) /\ Len(Drop(q, n)) = Len(q) - n
<1>1. Len(q) \in Nat
  BY LenProperties
<1>2. \A i \in n + 1 .. Len(q) : q[i] \in S
  BY <1>1, ElementOfSeq
<1> QED
  BY <1>1, <1>2, SubSeqProperties DEF Drop

\* What fits of q into a buffer that holds m of at most k.
LEMMA FitType ==
  ASSUME NEW S, NEW q \in Seq(S), NEW T, NEW b \in Seq(T), NEW k \in Nat, Len(b) <= k
  PROVE  LET n == Least(Len(q), k - Len(b)) IN
           /\ n \in 0 .. Len(q) /\ Len(b) + n <= k
           /\ Take(q, n) \in Seq(S) /\ Len(Take(q, n)) = n
           /\ Drop(q, n) \in Seq(S) /\ Len(Drop(q, n)) = Len(q) - n
<1> DEFINE n == Least(Len(q), k - Len(b))
<1>1. Len(q) \in Nat /\ Len(b) \in Nat
  BY LenProperties
<1>2. n \in 0 .. Len(q) /\ Len(b) + n <= k
  BY <1>1 DEF Least
<1> QED
  BY <1>2, TakeType, DropType

LEMMA ClientPieces ==
  ASSUME NEW sc, NEW c, NEW q \in Seq(PieceOf(sc, c)) PROVE q \in Seq(Piece(sc))
  BY SeqMonotonic DEF PieceOf

LEMMA NoPieces == ASSUME NEW S PROVE <<>> \in Seq(S) /\ Len(<<>>) = 0
  BY EmptySeq
-----------------------------------------------------------------------------
(* Steps that change one slot.                                             *)

\* The current slot becomes p, which keeps its connection.
LEMMA SlotStep ==
  ASSUME Full, NEW p, connection_list' = [connection_list EXCEPT ![cur] = p],
         SlotTyped(script, p), p.socket = connection_list[cur].socket,
         p.cgi_executor = connection_list[cur].cgi_executor,
         script' = script, execs' = execs
  PROVE  SlotsTyped' /\ PointerTyped'
<1>1. cur \in Slot /\ DOMAIN connection_list = Slot
  BY Current DEF Full
<1>2. \A s \in Slot : connection_list'[s] = IF s = cur THEN p ELSE connection_list[s]
  BY <1>1
<1>3. SlotsTyped'
  BY <1>2 DEF Full, Typed, SlotsTyped, Slot
<1>4. PointerTyped'
  BY <1>2 DEF Full, Typed, PointerTyped, Slot
<1> QED
  BY <1>3, <1>4

\* The handler gives the current slot a new value, and stays or leaves.
LEMMA HandlerStep ==
  ASSUME Full, pc = "http", NEW p,
         connection_list' = [connection_list EXCEPT ![cur] = p],
         SlotTyped(script, p), p.socket = connection_list[cur].socket,
         p.cgi_executor = connection_list[cur].cgi_executor,
         script' = script, execs' = execs, net' = net, proc' = proc, RequestTyped',
         UNCHANGED loop \/ (NextSlot /\ Rests(p))
  PROVE  Typed' /\ Resting'
<1>1. cur \in Slot /\ DOMAIN connection_list = Slot
  BY Current DEF Full
<1>2. SlotsTyped' /\ PointerTyped'
  BY SlotStep
<1>3. ScriptTyped' /\ NetTyped' /\ ExecTyped' /\ ProcTyped'
  BY DEF Full, Typed, ScriptTyped, NetTyped, ExecTyped, ProcTyped
<1>4. \A s \in Slot : connection_list'[s] = IF s = cur THEN p ELSE connection_list[s]
  BY <1>1
<1>5. Control'
  BY <1>1, <1>4 DEF Full, Typed, Control, loop, NextSlot
<1>6. Resting'
  <2>1. CASE UNCHANGED loop
    BY <1>4, <2>1 DEF Full, Resting, loop, Slot
  <2>2. CASE NextSlot /\ Rests(p)
    BY <1>4, <2>2 DEF Full, Resting, NextSlot, Slot
  <2> QED
    BY <2>1, <2>2
<1> QED
  BY <1>2, <1>3, <1>5, <1>6 DEF Typed

\* A stream keeps its sender unless the sender is the current slot, and that
\* one changes.
LEMMA StreamStep ==
  ASSUME Full, NEW r \in streams, script' = script,
         \A c \in Client : net'[c].conn = net[c].conn,
         \A s \in Slot : connection_list'[s].socket = connection_list[s].socket,
         \A s \in Slot : s # cur => connection_list'[s].http_task = connection_list[s].http_task,
         Sender(r, cur) => SendsFile(connection_list'[cur].http_task)
                             /\ connection_list'[cur].http_task.own = r
  PROVE  StreamOK(r)'
<1>1. r \in Asked(script) /\ StreamOK(r)
  BY DEF Full, StreamInv
<1>2. r[1] \in Client
  BY <1>1 DEF Asked
<1>3. CASE \E s \in Slot : Sender(r, s)
  BY <1>3 DEF Sender, StreamOK, Slot
<1>4. CASE ~(\E s \in Slot : Sender(r, s))
  BY <1>1, <1>2, <1>4 DEF StreamOK
<1> QED
  BY <1>3, <1>4
-----------------------------------------------------------------------------
(* handle_http.                                                            *)

\* What Full says of the slot that the handler works on.
LEMMA CurrentTyped ==
  ASSUME Full
  PROVE  /\ cur \in Slot /\ DOMAIN connection_list = Slot
         /\ DOMAIN Me = PeerFields /\ Task = Me.http_task /\ Me = connection_list[cur]
         /\ TaskOK(Task) /\ DOMAIN Task = TaskFields
         /\ SlotTyped(script, Me) /\ TaskTyped(script, Task)
         /\ pc = "http" => Me.socket \in Client /\ Me.socket # NULL
         /\ script \in [Client -> Seq(Request)]
<1>1. /\ cur \in Slot /\ DOMAIN connection_list = Slot
      /\ DOMAIN Me = PeerFields /\ TaskOK(Task)
  BY Current DEF Full, Me, Task
<1>2. SlotTyped(script, Me)
  BY <1>1 DEF Full, Typed, SlotsTyped, Me
<1>3. pc = "http" => Me.socket \in Client /\ Me.socket # NULL
  BY <1>1 DEF Full, Typed, Control, IInv, SlotInv, Sockets, Me
<1> QED
  BY <1>1, <1>2, <1>3 DEF Full, Typed, ScriptTyped, SlotTyped, TaskOK, Me, Task

\* A step that leaves the task of the current slot with its file, if it has one.
LEMMA StreamsStay ==
  ASSUME Full, NEW p, connection_list' = [connection_list EXCEPT ![cur] = p],
         p.socket = connection_list[cur].socket,
         Me.socket # NULL /\ SendsFile(Task) =>
           SendsFile(p.http_task) /\ p.http_task.own = Task.own,
         script' = script, streams' = streams,
         \A c \in Client : net'[c].conn = net[c].conn
  PROVE  StreamInv'
<1>1. cur \in Slot /\ DOMAIN connection_list = Slot
  BY Current DEF Full
<1>4. \A r \in streams : r[1] # NULL
  BY StateAssumption DEF Full, StreamInv, Asked
<1>2. \A s \in Slot : connection_list'[s] = IF s = cur THEN p ELSE connection_list[s]
  BY <1>1
<1>3. ASSUME NEW r \in streams PROVE StreamOK(r)'
  BY <1>1, <1>2, <1>4, StreamStep DEF Sender, Task, Me
<1> QED
  BY <1>3 DEF Full, StreamInv

\* A step of the handler that changes its slot and perhaps the global request.
LEMMA HandlerTyped ==
  ASSUME Full, pc = "http", NEW p,
         connection_list' = [connection_list EXCEPT ![cur] = p],
         SlotTyped(script, p), p.socket = Me.socket, p.cgi_executor = Me.cgi_executor,
         SendsFile(Task) => SendsFile(p.http_task) /\ p.http_task.own = Task.own,
         RequestTyped', UNCHANGED <<execs, world>>,
         UNCHANGED loop \/ (NextSlot /\ Rests(p))
  PROVE  Typed' /\ Resting' /\ StreamInv'
<1>1. UNCHANGED <<execs, script, net, proc, streams>>
  BY DEF world
<1>2. Typed' /\ Resting'
  BY <1>1, HandlerStep DEF Me
<1>3. StreamInv'
  BY <1>1, StreamsStay DEF Me
<1> QED
  BY <1>2, <1>3

\* What read_header_data takes out of the receiving buffer.
LEMMA IncomingType ==
  ASSUME Full
  PROVE  /\ Incoming \in Seq(PieceOf(script, Me.socket))
         /\ Len(Incoming) \in 0 .. Len(Me.receiving_buffer)
         /\ Len(Task.parse_buf) + Len(Incoming) <= BUF_DATA_MAXSIZE
<1>1. /\ Me.receiving_buffer \in Seq(PieceOf(script, Me.socket))
      /\ Task.parse_buf \in Seq(Piece(script)) /\ Len(Task.parse_buf) <= BUF_DATA_MAXSIZE
  BY CurrentTyped DEF SlotTyped, TaskTyped
<1> DEFINE q == Me.receiving_buffer
           b == Task.parse_buf
           n == Least(Len(q), BUF_DATA_MAXSIZE - Len(b))
<1>2. Incoming = Take(q, n)
  BY DEF Incoming, Room
<1> HIDE DEF q, b
<1>3. n \in 0 .. Len(q) /\ Len(b) + n <= BUF_DATA_MAXSIZE
  BY <1>1, FitType, StateAssumption DEF q, b
<1> HIDE DEF n
<1>4. Take(q, n) \in Seq(PieceOf(script, Me.socket)) /\ Len(Take(q, n)) = n
  BY <1>1, <1>3, TakeType DEF q
<1> QED
  BY <1>2, <1>3, <1>4 DEF q, b

\* What more of its client's bytes does to parse_buf.
LEMMA ParseBufType ==
  ASSUME Full, pc = "http", NEW q \in Seq(PieceOf(script, Me.socket)),
         Len(Task.parse_buf) + Len(q) <= BUF_DATA_MAXSIZE
  PROVE  /\ Task.parse_buf \o q \in Seq(PieceOf(script, Me.socket))
         /\ Task.parse_buf \o q \in Seq(Piece(script))
         /\ Len(Task.parse_buf \o q) = Len(Task.parse_buf) + Len(q)
<1>1. Task.parse_buf \in Seq(PieceOf(script, Me.socket))
  BY CurrentTyped DEF SlotTyped, Owned
<1> DEFINE b == Task.parse_buf
<1> HIDE DEF b
<1>2. b \o q \in Seq(PieceOf(script, Me.socket)) /\ Len(b \o q) = Len(b) + Len(q)
  BY <1>1, ConcatProperties DEF b
<1> QED
  BY <1>2, ClientPieces DEF b

LEMMA HeaderIncompleteTyped ==
  ASSUME Full, HeaderIncomplete PROVE Typed' /\ Resting' /\ StreamInv'
<1> DEFINE buf == Task.parse_buf \o Incoming
           new == [Task EXCEPT !.parse_buf = buf]
           p == [Me EXCEPT !.receiving_buffer = <<>>, !.http_task.parse_buf = @ \o Incoming]
<1>1. /\ pc = "http" /\ Task.state = "RECV_HEADER_STATE" /\ NextSlot
      /\ connection_list' = [connection_list EXCEPT ![cur] = p]
      /\ UNCHANGED <<request, execs, world>>
  BY DEF HeaderIncomplete, InHandler, Return
<1>2. /\ DOMAIN Me = PeerFields /\ Task = Me.http_task /\ DOMAIN Task = TaskFields
      /\ SlotTyped(script, Me) /\ TaskTyped(script, Task)
  BY CurrentTyped
<1>3. /\ buf \in Seq(PieceOf(script, Me.socket)) /\ buf \in Seq(Piece(script))
      /\ Len(buf) <= BUF_DATA_MAXSIZE
  BY <1>1, IncomingType, ParseBufType
<1>4. /\ p.socket = Me.socket /\ p.cgi_executor = Me.cgi_executor
      /\ p.sending_buffer = Me.sending_buffer /\ p.close_conn = Me.close_conn
      /\ p.receiving_buffer = <<>> /\ p.http_task = new
  BY <1>2 DEF PeerFields
<1> HIDE DEF buf
<1>5. TaskTyped(script, new) /\ new.own = Task.own /\ new.parse_buf = buf
  BY <1>1, <1>2, <1>3 DEF TaskTyped, TaskFields, SendsFile
<1>6. new.state = "RECV_HEADER_STATE"
  BY <1>1, <1>2 DEF TaskFields
<1> HIDE DEF p, new
<1>7. SlotTyped(script, p)
  <2>1. Owned(script, p)
    BY <1>2, <1>3, <1>4, <1>5 DEF SlotTyped, Owned
  <2> QED
    BY <1>2, <1>4, <1>5, <2>1, NoPieces, StateAssumption DEF SlotTyped
<1>8. RequestTyped' /\ ~SendsFile(Task) /\ Rests(p)
  BY <1>1, <1>4, <1>6 DEF Full, Typed, RequestTyped, SendsFile, Rests, world
<1> QED
  BY <1>1, <1>4, <1>7, <1>8, HandlerTyped

\* A set of positions has a first one: its initial segments are finite sets, and
\* one of them has no other inside.
LEMMA FirstPosition ==
  ASSUME NEW n \in Nat, NEW E, E \subseteq 1 .. n, E # {}
  PROVE  \E i \in E : \A j \in E : i <= j
<1> DEFINE T == {1 .. i : i \in E}
           S == 1 .. n
<1>1. IsWellFoundedOn(StrictSubsetOrdering(S), SUBSET S)
  <2>1. IsFiniteSet(S)
    BY FS_Interval
  <2> HIDE DEF S
  <2>2. FiniteSubsetsOf(S) = SUBSET S
    BY <2>1, FS_FiniteSubsetsOfFinite
  <2>3. IsWellFoundedOn(StrictSubsetOrdering(S), FiniteSubsetsOf(S))
    BY FS_StrictSubsetOrderingWellFounded
  <2> QED
    BY <2>2, <2>3
<1>2. T \subseteq SUBSET (1 .. n) /\ T # {}
  <2>1. \A i \in E : 1 .. i \subseteq 1 .. n
    OBVIOUS
  <2> QED
    BY <2>1
<1> HIDE DEF T
<1>3. PICK x \in T : \A y \in T : <<y, x>> \notin StrictSubsetOrdering(1 .. n)
  BY <1>1, <1>2, WFMin
<1>4. PICK i \in E : x = 1 .. i
  BY DEF T
<1>5. ASSUME NEW j \in E PROVE i <= j
  <2>1. 1 .. j \in T
    BY DEF T
  <2>2. <<1 .. j, 1 .. i>> \notin StrictSubsetOrdering(1 .. n)
    BY <1>3, <1>4, <2>1
  <2>3. ~(1 .. j \subseteq 1 .. i /\ 1 .. j # 1 .. i)
    BY <2>2 DEF StrictSubsetOrdering
  <2>4. i \in 1 .. i /\ i \in Nat /\ j \in Nat
    OBVIOUS
  <2>5. CASE j < i
    BY <2>3, <2>4, <2>5
  <2> QED
    BY <2>4, <2>5
<1> QED
  BY <1>5

\* The first of the places where the header may end.
LEMMA HeaderSizeType ==
  ASSUME Full, EndsHeader # {} PROVE HeaderSize \in 1 .. Len(Incoming)
<1>1. Len(Incoming) \in Nat
  BY IncomingType
<1>2. EndsHeader \subseteq 1 .. Len(Incoming)
  BY DEF EndsHeader
<1>3. \E i \in EndsHeader : \A j \in EndsHeader : i <= j
  BY <1>1, <1>2, FirstPosition
<1> QED
  BY <1>2, <1>3 DEF HeaderSize

\* A complete header is its client's, and what follows it stays.
LEMMA HeaderType ==
  ASSUME Full, pc = "http", EndsHeader # {}
  PROVE  /\ Header \in Seq(PieceOf(script, Me.socket)) /\ Header \in Seq(Piece(script))
         /\ Len(Header) <= BUF_DATA_MAXSIZE
         /\ LET rest == Drop(Me.receiving_buffer, HeaderSize)
            IN /\ rest \in Seq(PieceOf(script, Me.socket))
               /\ Len(rest) <= BUF_DATA_MAXSIZE
<1> DEFINE q == Take(Incoming, HeaderSize)
           b == Me.receiving_buffer
<1>1. HeaderSize \in 1 .. Len(Incoming) /\ Len(Incoming) \in 0 .. Len(b)
  BY HeaderSizeType, IncomingType
<1>2. q \in Seq(PieceOf(script, Me.socket)) /\ Len(q) = HeaderSize
  <2>1. Incoming \in Seq(PieceOf(script, Me.socket)) /\ HeaderSize \in 0 .. Len(Incoming)
    BY <1>1, IncomingType
  <2> QED
    BY <2>1, TakeType
<1>3. b \in Seq(PieceOf(script, Me.socket)) /\ Len(b) <= BUF_DATA_MAXSIZE
  BY CurrentTyped DEF SlotTyped
<1>4. Len(Task.parse_buf) \in Nat
  BY CurrentTyped, LenProperties DEF TaskTyped
<1> HIDE DEF q, b
<1>5. Len(Task.parse_buf) + Len(q) <= BUF_DATA_MAXSIZE
  BY <1>1, <1>2, <1>4, IncomingType, StateAssumption
<1>6. Drop(b, HeaderSize) \in Seq(PieceOf(script, Me.socket))
        /\ Len(Drop(b, HeaderSize)) <= BUF_DATA_MAXSIZE
  <2>1. Len(b) \in Nat /\ HeaderSize \in 0 .. Len(b)
    BY <1>1, <1>3, LenProperties
  <2>2. Drop(b, HeaderSize) \in Seq(PieceOf(script, Me.socket))
          /\ Len(Drop(b, HeaderSize)) = Len(b) - HeaderSize
    BY <1>3, <2>1, DropType
  <2> QED
    BY <1>3, <2>1, <2>2, StateAssumption
<1>7. Header = Task.parse_buf \o q
  BY DEF Header, q
<1> QED
  BY <1>2, <1>5, <1>6, <1>7, ParseBufType DEF b

\* The request of a piece of client c is one of c's.
LEMMA AskedRequest ==
  ASSUME script \in [Client -> Seq(Request)], NEW r \in Asked(script)
  PROVE  /\ r[1] \in Client /\ r # None
         /\ RequestOf(r) \in Request /\ RequestOf(r) = script[r[1]][r[2]]
<1>1. PICK c \in Client : \E k \in 1 .. Len(script[c]) : r = <<c, k>>
  BY DEF Asked
<1>2. PICK k \in 1 .. Len(script[c]) : r = <<c, k>>
  BY <1>1
<1>3. script[c] \in Seq(Request)
  BY <1>1
<1>4. script[c][k] \in Request
  BY <1>2, <1>3, ElementOfSeq
<1> QED
  BY <1>2, <1>4 DEF RequestOf, None

LEMMA HeaderParsedTyped ==
  ASSUME Full, HeaderParsed PROVE Typed' /\ Resting' /\ StreamInv'
<1> DEFINE r == Header[1].req
           q == RequestOf(r)
           u == [Task EXCEPT !.parse_buf = Header, !.own = r,
                             !.last_request = RequestOf(r).close]
           new == Dispatch(u, q)
           rest == Drop(Me.receiving_buffer, HeaderSize)
           p == [Me EXCEPT !.http_task = new, !.receiving_buffer = Drop(@, HeaderSize)]
<1>1. /\ pc = "http" /\ Task.state = "RECV_HEADER_STATE" /\ EndsHeader # {} /\ Parses
      /\ connection_list' = [connection_list EXCEPT ![cur] = p]
      /\ request' = [of |-> r, freed |-> FALSE]
      /\ UNCHANGED <<execs, loop, world>>
  BY DEF HeaderParsed, HeaderComplete, InHandler
<1>2. /\ DOMAIN Me = PeerFields /\ Task = Me.http_task /\ DOMAIN Task = TaskFields
      /\ SlotTyped(script, Me) /\ TaskTyped(script, Task) /\ TaskOK(Task)
      /\ script \in [Client -> Seq(Request)]
  BY CurrentTyped
<1>3. /\ Header \in Seq(PieceOf(script, Me.socket)) /\ Header \in Seq(Piece(script))
      /\ Len(Header) <= BUF_DATA_MAXSIZE
      /\ rest \in Seq(PieceOf(script, Me.socket)) /\ Len(rest) <= BUF_DATA_MAXSIZE
  BY <1>1, HeaderType
<1>4. Header[1] \in PieceOf(script, Me.socket)
  <2> DEFINE S == PieceOf(script, Me.socket)
  <2>1. Header \in Seq(S) /\ Len(Header) = 2
    BY <1>1, <1>3 DEF Parses
  <2> HIDE DEF S
  <2>2. 1 \in 1 .. Len(Header)
    BY ONLY <2>1
  <2>3. Header[1] \in S
    BY ONLY <2>1, <2>2, ElementOfSeq
  <2> QED
    BY <2>3 DEF S
<1>5. r \in Asked(script) /\ r[1] = Me.socket
  BY <1>4 DEF PieceOf, Piece
<1>6. q \in Request /\ q = script[r[1]][r[2]]
  BY <1>2, <1>5, AskedRequest
<1>7. /\ p.socket = Me.socket /\ p.cgi_executor = Me.cgi_executor
      /\ p.sending_buffer = Me.sending_buffer /\ p.close_conn = Me.close_conn
      /\ p.receiving_buffer = rest /\ p.http_task = new
  <2> HIDE DEF new
  <2> QED
    BY <1>2 DEF PeerFields
<1>8. RequestTyped'
  BY <1>1, <1>5 DEF RequestTyped, world
<1> HIDE DEF q, rest, r
<1>9. /\ DOMAIN u = TaskFields /\ u.own = r /\ u.parse_buf = Header
      /\ u.state = "RECV_HEADER_STATE" /\ u.response_buf = <<>> /\ u.post_body = <<>>
      /\ u.fp = Task.fp /\ u.response_code = -1
  BY <1>1, <1>2 DEF TaskFields, TaskTyped, TaskOK
<1> HIDE DEF u
<1>10. /\ new.own = r /\ new.parse_buf = Header /\ new.response_buf = <<>>
       /\ new.post_body = <<>> /\ new.fp = Task.fp
       /\ new.state \in {"CHECK_CGI", "RECV_BODY_STATE", "GENERATE_HEADER_STATE"}
       /\ new.state \in {"CHECK_CGI", "RECV_BODY_STATE"} => new.method_type = q.method
       /\ new.state = "RECV_BODY_STATE" => new.body_bytes_num \in Nat
       /\ new.response_code \in {-1, 411, 501}
  <2>1. CASE q.method \in {"GET", "HEAD"}
    BY <1>9, <2>1 DEF Dispatch, TaskFields
  <2>2. CASE q.method = "POST" /\ HasLength(q)
    <3>1. q.length \in Nat
      BY <1>6, <2>2 DEF HasLength, Request
    <3> QED
      BY <1>9, <2>2, <3>1 DEF Dispatch, TaskFields
  <2>3. CASE q.method = "POST" /\ ~HasLength(q)
    BY <1>9, <2>3 DEF Dispatch, TaskFields
  <2>4. CASE q.method \notin {"GET", "HEAD", "POST"}
    BY <1>9, <2>4 DEF Dispatch, TaskFields
  <2> QED
    BY <2>1, <2>2, <2>3, <2>4
<1> HIDE DEF new
<1>14. TaskTyped(script, new)
  <2>1. Task.fp \in {None} \cup [of : Asked(script), pos : 0 .. FileLen + 1]
    BY <1>2 DEF TaskTyped
  <2>2. <<>> \in Seq(Piece(script)) /\ Len(<<>>) = 0
    BY NoPieces
  <2> QED
    BY <1>3, <1>5, <1>6, <1>10, <2>1, <2>2 DEF TaskTyped, SendsFile, States
<1>15. ~SendsFile(new) /\ Rests(p)
  BY <1>7, <1>10 DEF SendsFile, Rests
<1> HIDE DEF p
<1>11. SlotTyped(script, p)
  BY <1>2, <1>3, <1>5, <1>7, <1>10, <1>14 DEF SlotTyped, Owned
<1>12. ~SendsFile(Task)
  BY <1>1 DEF SendsFile
<1>13. UNCHANGED <<execs, world>> /\ UNCHANGED loop
  BY <1>1
<1> QED
  BY <1>1, <1>7, <1>8, <1>11, <1>12, <1>13, HandlerTyped

LEMMA ShortSeq ==
  ASSUME NEW S, NEW x \in S, NEW y \in S
  PROVE  /\ <<x>> \in Seq(S) /\ Len(<<x>>) = 1
         /\ <<x, y>> \in Seq(S) /\ Len(<<x, y>>) = 2
  OBVIOUS

LEMMA ReceiveBodyTyped ==
  ASSUME Full, ReceiveBody PROVE Typed' /\ Resting' /\ StreamInv'
<1> DEFINE b == Me.receiving_buffer
           have == Task.post_body
           n == Least(Len(b), Task.body_bytes_num - Len(have))
           body == have \o Take(b, n)
           more == [Task EXCEPT !.post_body = body]
           done == [more EXCEPT !.state = "CHECK_CGI"]
           p == [Me EXCEPT !.receiving_buffer = Drop(@, n),
                           !.http_task.post_body = @ \o Take(Me.receiving_buffer, n)]
           q == [p EXCEPT !.http_task.state = "CHECK_CGI"]
<1>1. /\ pc = "http" /\ Task.state = "RECV_BODY_STATE"
      /\ \/ connection_list' = [connection_list EXCEPT ![cur] = p] /\ NextSlot
         \/ connection_list' = [connection_list EXCEPT ![cur] = q] /\ UNCHANGED loop
      /\ UNCHANGED <<request, execs, world>>
  BY DEF ReceiveBody, InHandler, Return
<1>2. /\ DOMAIN Me = PeerFields /\ Task = Me.http_task /\ DOMAIN Task = TaskFields
      /\ SlotTyped(script, Me) /\ TaskTyped(script, Task)
  BY CurrentTyped
<1>3. /\ b \in Seq(PieceOf(script, Me.socket)) /\ Len(b) <= BUF_DATA_MAXSIZE
      /\ have \in Seq(Piece(script)) /\ Task.body_bytes_num \in Nat
      /\ Len(have) <= Task.body_bytes_num
  BY <1>1, <1>2 DEF SlotTyped, TaskTyped
<1>4. p.http_task = more /\ p.receiving_buffer = Drop(b, n)
  <2> HIDE DEF n
  <2> QED
    BY <1>2 DEF PeerFields
<1>5. /\ p.socket = Me.socket /\ p.cgi_executor = Me.cgi_executor
      /\ p.sending_buffer = Me.sending_buffer /\ p.close_conn = Me.close_conn
      /\ DOMAIN p = PeerFields
  BY <1>2 DEF PeerFields
<1> HIDE DEF b, have, p
<1>6. n \in 0 .. Len(b) /\ Len(have) + n <= Task.body_bytes_num
  BY <1>3, FitType
<1> HIDE DEF n
<1>7. /\ Take(b, n) \in Seq(PieceOf(script, Me.socket)) /\ Len(Take(b, n)) = n
      /\ Drop(b, n) \in Seq(PieceOf(script, Me.socket)) /\ Len(Drop(b, n)) = Len(b) - n
  BY <1>3, <1>6, TakeType, DropType
<1>8. body \in Seq(Piece(script)) /\ Len(body) <= Task.body_bytes_num
  <2>1. Take(b, n) \in Seq(Piece(script))
    BY <1>7, ClientPieces
  <2> QED
    BY <1>3, <1>6, <1>7, <2>1, ConcatProperties
<1> HIDE DEF body
<1>9. TaskTyped(script, more) /\ more.own = Task.own /\ more.parse_buf = Task.parse_buf
        /\ more.state = "RECV_BODY_STATE" /\ DOMAIN more = TaskFields
  BY <1>1, <1>2, <1>8 DEF TaskTyped, TaskFields, SendsFile
<1> HIDE DEF more
<1>10. TaskTyped(script, done) /\ done.own = more.own /\ done.parse_buf = more.parse_buf
         /\ done.state = "CHECK_CGI"
  BY <1>9 DEF TaskTyped, TaskFields, SendsFile, States, Parsed
<1>11. /\ q.socket = Me.socket /\ q.cgi_executor = Me.cgi_executor
       /\ q.sending_buffer = Me.sending_buffer /\ q.close_conn = Me.close_conn
       /\ q.receiving_buffer = Drop(b, n) /\ q.http_task = done
  BY <1>4, <1>5 DEF PeerFields
<1> HIDE DEF q, done
<1>12. Len(Drop(b, n)) <= BUF_DATA_MAXSIZE
  BY <1>3, <1>6, <1>7, StateAssumption, LenProperties
<1>13. SlotTyped(script, p) /\ SlotTyped(script, q)
  BY <1>2, <1>4, <1>5, <1>7, <1>9, <1>10, <1>11, <1>12 DEF SlotTyped, Owned
<1>14. RequestTyped' /\ ~SendsFile(Task) /\ Rests(p) /\ UNCHANGED <<execs, world>>
  BY <1>1, <1>4, <1>9 DEF Full, Typed, RequestTyped, SendsFile, Rests, world
<1> QED
  BY <1>1, <1>5, <1>11, <1>13, <1>14, HandlerTyped

LEMMA GenerateHeaderTyped ==
  ASSUME Full, GenerateHeader PROVE Typed' /\ Resting' /\ StreamInv'
<1> DEFINE head == NonBodyResponse(Task.own, Task.response_code)
           buf == Task.response_buf \o head
           new == [Task EXCEPT !.response_buf = buf, !.state = "SEND_HEADER_STATE"]
           p == [Me EXCEPT !.http_task = new]
<1>1. /\ pc = "http" /\ Task.state = "GENERATE_HEADER_STATE"
      /\ connection_list' = [connection_list EXCEPT ![cur].http_task = new]
      /\ UNCHANGED <<request, execs>> /\ UNCHANGED loop /\ UNCHANGED world
  BY DEF GenerateHeader, InHandler, Continue
<1>2. /\ DOMAIN Me = PeerFields /\ Task = Me.http_task /\ DOMAIN Task = TaskFields
      /\ SlotTyped(script, Me) /\ TaskTyped(script, Task) /\ TaskOK(Task)
  BY CurrentTyped
<1>3. head \in Seq(Piece(script)) /\ Len(head) <= 2
  <2>1. Task.own \in Asked(script) /\ Task.response_code \in Int
    BY <1>1, <1>2 DEF TaskTyped, Parsed
  <2>2. /\ Token(Task.own, "head", 200) \in Piece(script)
        /\ Token(Task.own, "head", Task.response_code) \in Piece(script)
        /\ Token(Task.own, "end", Task.response_code) \in Piece(script)
    BY <2>1 DEF Token, Piece
  <2> HIDE DEF head
  <2>3. \/ head = <<Token(Task.own, "head", 200)>>
        \/ head = <<Token(Task.own, "head", Task.response_code),
                    Token(Task.own, "end", Task.response_code)>>
    BY DEF head, NonBodyResponse
  <2> DEFINE x == Token(Task.own, "head", 200)
             y == Token(Task.own, "head", Task.response_code)
             z == Token(Task.own, "end", Task.response_code)
  <2>4. x \in Piece(script) /\ y \in Piece(script) /\ z \in Piece(script)
    BY <2>2
  <2>5. head = <<x>> \/ head = <<y, z>>
    BY <2>3
  <2> HIDE DEF x, y, z
  <2> QED
    BY <2>4, <2>5, ShortSeq
<1> HIDE DEF head
<1>4. buf \in Seq(Piece(script)) /\ Len(buf) <= 4
  <2>1. Task.response_buf \in Seq(Piece(script)) /\ Len(Task.response_buf) <= 2
    BY <1>1, <1>2 DEF TaskTyped
  <2> QED
    BY <1>3, <2>1, ConcatProperties, LenProperties
<1> HIDE DEF buf
<1>5. /\ new.own = Task.own /\ new.parse_buf = Task.parse_buf /\ new.response_buf = buf
      /\ new.method_type = Task.method_type /\ new.response_code = Task.response_code
      /\ new.post_body = Task.post_body /\ new.fp = Task.fp
      /\ new.state = "SEND_HEADER_STATE"
  BY <1>2 DEF TaskFields
<1> HIDE DEF new
<1>6. ~SendsFile(new)
  BY <1>1, <1>2, <1>5 DEF TaskTyped, TaskOK, SendsFile
<1>7. TaskTyped(script, new)
  BY <1>1, <1>2, <1>4, <1>5, <1>6 DEF TaskTyped, States, Parsed
<1>8. /\ p.socket = Me.socket /\ p.cgi_executor = Me.cgi_executor
      /\ p.sending_buffer = Me.sending_buffer /\ p.close_conn = Me.close_conn
      /\ p.receiving_buffer = Me.receiving_buffer /\ p.http_task = new
  BY <1>2 DEF PeerFields
<1>9. connection_list' = [connection_list EXCEPT ![cur] = p]
  BY <1>1 DEF Me
<1> HIDE DEF p
<1>10. SlotTyped(script, p)
  BY <1>2, <1>5, <1>7, <1>8 DEF SlotTyped, Owned
<1>11. RequestTyped' /\ ~SendsFile(Task) /\ UNCHANGED <<execs, world>>
  BY <1>1 DEF Full, Typed, RequestTyped, SendsFile, world
<1> QED
  BY <1>1, <1>8, <1>9, <1>10, <1>11, HandlerTyped

LEMMA SendHeaderTyped ==
  ASSUME Full, SendHeader PROVE Typed' /\ Resting' /\ StreamInv'
<1> DEFINE b == Task.response_buf
           out == Me.sending_buffer
           n == Least(Len(b), Room(out))
           sent == out \o Take(b, n)
           rest == Drop(b, Least(Len(b), n + 1))
           new == [Task EXCEPT !.response_buf = rest, !.state = AfterHeader(Task)]
           p == [Me EXCEPT
                   !.sending_buffer = @ \o Take(Task.response_buf, n),
                   !.http_task.response_buf = Drop(@, Least(Len(@), n + 1)),
                   !.http_task.state = AfterHeader(Task)]
<1>1. /\ pc = "http" /\ Task.state = "SEND_HEADER_STATE"
      /\ connection_list' = [connection_list EXCEPT ![cur] = p]
      /\ UNCHANGED <<request, execs>> /\ UNCHANGED loop /\ UNCHANGED world
  BY DEF SendHeader, InHandler
<1>2. /\ DOMAIN Me = PeerFields /\ Task = Me.http_task /\ DOMAIN Task = TaskFields
      /\ SlotTyped(script, Me) /\ TaskTyped(script, Task)
  BY CurrentTyped
<1>3. /\ p.socket = Me.socket /\ p.cgi_executor = Me.cgi_executor
      /\ p.receiving_buffer = Me.receiving_buffer /\ p.close_conn = Me.close_conn
      /\ p.sending_buffer = sent /\ p.http_task = new
  <2> HIDE DEF n
  <2> QED
    BY <1>2 DEF PeerFields
<1>4. /\ b \in Seq(Piece(script)) /\ Len(b) <= 4
      /\ out \in Seq(Piece(script)) /\ Len(out) <= BUF_DATA_MAXSIZE
  BY <1>2 DEF SlotTyped, TaskTyped
<1> HIDE DEF b, out, p
<1>5. n \in 0 .. Len(b) /\ Len(out) + n <= BUF_DATA_MAXSIZE
  BY <1>4, FitType, StateAssumption DEF Room
<1> HIDE DEF n
<1>6. sent \in Seq(Piece(script)) /\ Len(sent) <= BUF_DATA_MAXSIZE
  <2>1. Take(b, n) \in Seq(Piece(script)) /\ Len(Take(b, n)) = n
    BY <1>4, <1>5, TakeType
  <2> QED
    BY <1>4, <1>5, <2>1, ConcatProperties
<1>7. rest \in Seq(Piece(script)) /\ Len(rest) <= 4
  <2>1. Len(b) \in Nat
    BY <1>4, LenProperties
  <2>2. Least(Len(b), n + 1) \in 0 .. Len(b)
    BY <1>5, <2>1 DEF Least
  <2> QED
    BY <1>4, <2>1, <2>2, DropType
<1> HIDE DEF sent, rest
<1>8. /\ new.own = Task.own /\ new.parse_buf = Task.parse_buf /\ new.response_buf = rest
      /\ new.method_type = Task.method_type /\ new.response_code = Task.response_code
      /\ new.post_body = Task.post_body /\ new.fp = Task.fp
      /\ new.state = AfterHeader(Task)
  BY <1>2 DEF TaskFields
<1> HIDE DEF new
<1>9. new.state \in {"SEND_BODY_STATE", "FINISHED_STATE"} /\ (SendsFile(new) <=> SendsFile(Task))
  BY <1>1, <1>8 DEF AfterHeader, SendsFile
<1>10. TaskTyped(script, new)
  BY <1>1, <1>2, <1>7, <1>8, <1>9 DEF TaskTyped, States, Parsed
<1>11. SlotTyped(script, p)
  BY <1>2, <1>3, <1>6, <1>8, <1>10 DEF SlotTyped, Owned
<1>12. RequestTyped' /\ UNCHANGED <<execs, world>>
  BY <1>1 DEF Full, Typed, RequestTyped, world
<1> QED
  BY <1>1, <1>3, <1>8, <1>9, <1>11, <1>12, HandlerTyped

\* An open file stream adds its request to the streams, whose task sends it.
LEMMA CheckStaticTyped ==
  ASSUME Full, CheckStatic PROVE Typed' /\ Resting' /\ StreamInv'
<1> DEFINE new == IF IsRead THEN StaticGet
                  ELSE [Task EXCEPT !.response_code = 200, !.state = "GENERATE_HEADER_STATE"]
           p == [Me EXCEPT !.http_task = new]
           r == request.of
           ok == <<Token(r, "head", 200), Token(r, "end", 200)>>
           buf == Task.response_buf \o ok
<1>1. /\ pc = "http" /\ Task.state = "CHECK_CGI" /\ request # NULL
      /\ connection_list' = [connection_list EXCEPT ![cur].http_task = new]
      /\ streams' = IF FileOpens THEN streams \cup {Task.own} ELSE streams
      /\ UNCHANGED <<request, execs, script, net, backlog, proc>> /\ UNCHANGED loop
  BY DEF CheckStatic, InHandler
<1>2. /\ DOMAIN Me = PeerFields /\ Task = Me.http_task /\ DOMAIN Task = TaskFields
      /\ SlotTyped(script, Me) /\ TaskTyped(script, Task)
      /\ cur \in Slot /\ DOMAIN connection_list = Slot
      /\ script \in [Client -> Seq(Request)] /\ Me.socket # NULL
  BY <1>1, CurrentTyped
<1>3. r \in Asked(script)
  BY <1>1 DEF Full, Typed, RequestTyped
<1>4. Task.response_buf = <<>> /\ Task.own \in Asked(script)
        /\ Task.method_type = script[Task.own[1]][Task.own[2]].method
  BY <1>1, <1>2 DEF TaskTyped, Parsed
<1>5. buf \in Seq(Piece(script)) /\ Len(buf) = 2
  <2>1. Token(r, "head", 200) \in Piece(script) /\ Token(r, "end", 200) \in Piece(script)
    BY <1>3 DEF Token, Piece
  <2>2. ok \in Seq(Piece(script)) /\ Len(ok) = 2
    BY <2>1, ShortSeq
  <2> HIDE DEF ok
  <2>3. <<>> \in Seq(Piece(script)) /\ Len(<<>>) = 0
    BY NoPieces
  <2> QED
    BY <1>4, <2>2, <2>3, ConcatProperties
<1> HIDE DEF ok, buf
<1>6. /\ new.own = Task.own /\ new.parse_buf = Task.parse_buf
      /\ new.method_type = Task.method_type /\ new.post_body = Task.post_body
      /\ new.response_buf \in {<<>>, buf} /\ new.response_code \in {404, 200, 500}
      /\ new.fp \in {Task.fp, [of |-> r, pos |-> 0]}
      /\ new.state \in {"GENERATE_HEADER_STATE", "SEND_HEADER_STATE"}
      /\ new.state = "GENERATE_HEADER_STATE" /\ new.response_code = 200 => ~IsRead
      /\ new.state = "SEND_HEADER_STATE" => new.fp = [of |-> r, pos |-> 0]
      /\ FileOpens => new.state = "SEND_HEADER_STATE" /\ new.response_code = 200
  <2>1. CASE ~IsRead
    <3>1. new = [Task EXCEPT !.response_code = 200, !.state = "GENERATE_HEADER_STATE"]
      BY <2>1
    <3> QED
      BY <1>2, <1>4, <2>1, <3>1 DEF TaskFields, FileOpens
  <2>2. CASE IsRead /\ Wanted.target = "missing"
    <3>1. ~FileOpens
      BY <2>2 DEF FileOpens
    <3>2. new = [Task EXCEPT !.response_code = 404, !.state = "GENERATE_HEADER_STATE"]
      BY <2>2, <3>1 DEF StaticGet
    <3> HIDE DEF new
    <3> QED
      BY <1>2, <1>4, <3>1, <3>2 DEF TaskFields
  <2>3. CASE IsRead /\ Wanted.target # "missing" /\ FileOpens
    <3>1. new = [Task EXCEPT !.response_buf = buf, !.response_code = 200,
                             !.fp = [of |-> r, pos |-> 0], !.state = "SEND_HEADER_STATE"]
      BY <2>3 DEF StaticGet, buf, ok
    <3> HIDE DEF new
    <3> QED
      BY <1>2, <2>3, <3>1 DEF TaskFields
  <2>4. CASE IsRead /\ Wanted.target # "missing" /\ ~FileOpens
    <3>1. new = [Task EXCEPT !.response_buf = buf, !.response_code = 500,
                             !.state = "GENERATE_HEADER_STATE"]
      BY <2>4 DEF StaticGet, buf, ok
    <3> HIDE DEF new
    <3> QED
      BY <1>2, <2>4, <3>1 DEF TaskFields
  <2> QED
    BY <2>1, <2>2, <2>3, <2>4
<1> HIDE DEF new
<1>7. TaskTyped(script, new)
  <2>1. [of |-> r, pos |-> 0] \in [of : Asked(script), pos : 0 .. FileLen + 1]
    BY <1>3, StateAssumption
  <2>2. <<>> \in Seq(Piece(script)) /\ Len(<<>>) = 0
    BY NoPieces
  <2>3. [of |-> r, pos |-> 0] # None
    BY DEF None
  <2> DEFINE file == [of |-> r, pos |-> 0]
  <2> HIDE DEF r, file
  <2>4. /\ new.fp \in {None} \cup [of : Asked(script), pos : 0 .. FileLen + 1]
        /\ SendsFile(new) => new.fp # None
    BY <1>2, <1>6, <2>1, <2>3 DEF TaskTyped, SendsFile, file
  <2>5. /\ new.response_buf \in Seq(Piece(script)) /\ Len(new.response_buf) <= 2
        /\ new.response_code \in Int
    <3>1. new.response_buf \in {<<>>, buf} /\ new.response_code \in {404, 200, 500}
      BY <1>6
    <3>2. new.response_code \in Int
      BY <3>1
    <3>3. CASE new.response_buf = <<>>
      <4>1. new.response_buf \in Seq(Piece(script)) /\ Len(new.response_buf) = 0
        BY <2>2, <3>3, Zenon
      <4> QED
        BY <3>2, <4>1
    <3>4. CASE new.response_buf = buf
      <4>1. new.response_buf \in Seq(Piece(script)) /\ Len(new.response_buf) = 2
        BY <1>5, <3>4, Zenon
      <4> QED
        BY <3>2, <4>1
    <3> QED
      BY <3>1, <3>3, <3>4
  <2>6. /\ new.state \in States /\ new.state \notin {"RECV_HEADER_STATE", "RECV_BODY_STATE"}
        /\ new.state # "CHECK_CGI"
        /\ new.state = "GENERATE_HEADER_STATE" /\ new.response_code = 200
             => new.method_type # "GET"
    BY <1>6 DEF States, IsRead
  <2> QED
    BY <1>2, <1>4, <1>6, <2>4, <2>5, <2>6 DEF TaskTyped
<1>8. /\ p.socket = Me.socket /\ p.cgi_executor = Me.cgi_executor
      /\ p.sending_buffer = Me.sending_buffer /\ p.close_conn = Me.close_conn
      /\ p.receiving_buffer = Me.receiving_buffer /\ p.http_task = new
  BY <1>2 DEF PeerFields
<1>9. connection_list' = [connection_list EXCEPT ![cur] = p]
  BY <1>1 DEF Me
<1> HIDE DEF p
<1>10. SlotTyped(script, p)
  BY <1>2, <1>6, <1>7, <1>8 DEF SlotTyped, Owned
<1>11. RequestTyped' /\ ~SendsFile(Task)
  BY <1>1 DEF Full, Typed, RequestTyped, SendsFile
<1>12. Typed' /\ Resting'
  BY <1>1, <1>8, <1>9, <1>10, <1>11, HandlerStep DEF Me
<1>13. StreamInv'
  <2>1. \A s \in Slot : connection_list'[s] = IF s = cur THEN p ELSE connection_list[s]
    BY <1>2, <1>9
  <2>2. ASSUME NEW x \in streams PROVE StreamOK(x)'
    BY <1>1, <1>2, <1>8, <1>11, <2>1, StreamStep DEF Sender, Task, Me
  <2>3. ASSUME FileOpens, NEW x, x = Task.own PROVE StreamOK(x)'
    <3>1. CASE Task.method_type = "HEAD"
      BY <1>1, <1>4, <2>3, <3>1 DEF StreamOK
    <3>2. CASE Task.method_type # "HEAD"
      <4>1. Task.method_type = "GET"
        BY <2>3, <3>2 DEF FileOpens, IsRead
      <4>2. SendsFile(new)
        BY <1>6, <2>3, <4>1 DEF SendsFile, ErrorCodes
      <4>3. Me.socket = x[1]
        BY <1>2, <1>4, <2>3, AskedRequest DEF SlotTyped, Owned
      <4>4. cur' \in Slot /\ connection_list'[cur'] = p
        BY <1>1, <1>2, <2>1 DEF loop
      <4>5. Sender(x, cur)'
        BY <1>6, <1>8, <2>3, <4>2, <4>3, <4>4 DEF Sender
      <4> QED
        BY <4>4, <4>5 DEF StreamOK, Slot
    <3> QED
      BY <3>1, <3>2
  <2>4. streams' \subseteq Asked(script) /\ script' = script
    BY <1>1, <1>4 DEF Full, StreamInv
  <2>5. \A x \in streams' : StreamOK(x)'
    BY <1>1, <2>2, <2>3
  <2> QED
    BY <2>4, <2>5 DEF StreamInv
<1> QED
  BY <1>12, <1>13

LEMMA FileType ==
  ASSUME NEW r \in Asked(script)
  PROVE  FileStream(r) \in Seq(Piece(script)) /\ Len(FileStream(r)) = FileLen + 1
<1>1. Token(r, "eof", 0) \in Piece(script)
        /\ \A i \in 1 .. FileLen + 1 : Token(r, "body", i) \in Piece(script)
  BY StateAssumption DEF Token, Piece
<1>2. FileStream(r) \in [1 .. FileLen + 1 -> Piece(script)] /\ FileLen + 1 \in Nat
  <2> HIDE DEF Token, Piece
  <2> QED
    BY <1>1, StateAssumption DEF FileStream
<1> HIDE DEF FileStream
<1> QED
  BY <1>2

\* The next part of the file that fits goes into the sending buffer.
LEMMA SendBodyTyped ==
  ASSUME Full, SendBody PROVE Typed' /\ Resting' /\ StreamInv'
<1> DEFINE f == Task.fp
           file == FileStream(f.of)
           out == Me.sending_buffer
           n == Least(Len(file) - f.pos, Room(out))
           sent == out \o SubSeq(file, f.pos + 1, f.pos + n)
           g == [f EXCEPT !.pos = @ + n]
           more == [Task EXCEPT !.fp = g]
           done == [more EXCEPT !.state = "FINISHED_STATE"]
           p == [Me EXCEPT !.sending_buffer = @ \o SubSeq(file, f.pos + 1, f.pos + n),
                           !.http_task.fp.pos = @ + n]
           q == [p EXCEPT !.http_task.state = "FINISHED_STATE"]
<1>1. /\ pc = "http" /\ Task.state = "SEND_BODY_STATE"
      /\ \/ /\ p.http_task.fp.pos < Len(file)
            /\ connection_list' = [connection_list EXCEPT ![cur] = p]
            /\ NextSlot /\ streams' = streams
         \/ /\ connection_list' = [connection_list EXCEPT ![cur] = q]
            /\ UNCHANGED loop /\ streams' = streams \ {Task.own}
      /\ UNCHANGED <<request, execs, script, net, backlog, proc>>
  BY DEF SendBody, InHandler, Return
<1>2. /\ DOMAIN Me = PeerFields /\ Task = Me.http_task /\ DOMAIN Task = TaskFields
      /\ SlotTyped(script, Me) /\ TaskTyped(script, Task)
      /\ cur \in Slot /\ DOMAIN connection_list = Slot
  BY CurrentTyped
<1>3. f \in [of : Asked(script), pos : 0 .. FileLen + 1]
  BY <1>1, <1>2 DEF TaskTyped, SendsFile
<1>4. p.http_task = more /\ p.sending_buffer = sent /\ p.http_task.fp.pos = f.pos + n
  <2> HIDE DEF n, file
  <2> QED
    BY <1>2, <1>3 DEF PeerFields, TaskFields
<1>5. /\ p.socket = Me.socket /\ p.cgi_executor = Me.cgi_executor
      /\ p.receiving_buffer = Me.receiving_buffer /\ p.close_conn = Me.close_conn
      /\ DOMAIN p = PeerFields
  BY <1>2 DEF PeerFields
<1>6. /\ out \in Seq(Piece(script)) /\ Len(out) <= BUF_DATA_MAXSIZE
      /\ file \in Seq(Piece(script)) /\ Len(file) = FileLen + 1
  BY <1>2, <1>3, FileType DEF SlotTyped
<1> HIDE DEF file, out, f, p
<1>7. /\ f.pos \in Nat /\ n \in Nat /\ f.pos + n <= FileLen + 1
      /\ Len(out) \in Nat /\ Len(out) + n <= BUF_DATA_MAXSIZE
      /\ f.pos + n < FileLen + 1 => Len(out) + n = BUF_DATA_MAXSIZE
  <2>1. Len(out) \in Nat /\ f.pos \in 0 .. FileLen + 1
    BY <1>3, <1>6, LenProperties
  <2> QED
    BY <1>6, <2>1, StateAssumption DEF Least, Room
<1> HIDE DEF n
<1>8. sent \in Seq(Piece(script)) /\ Len(sent) = Len(out) + n
  <2> DEFINE part == SubSeq(file, f.pos + 1, f.pos + n)
  <2>1. \A i \in f.pos + 1 .. f.pos + n : file[i] \in Piece(script)
    BY <1>6, <1>7, StateAssumption, ElementOfSeq
  <2>2. part \in Seq(Piece(script)) /\ Len(part) = n
    BY <1>6, <1>7, <2>1, SubSeqProperties
  <2> HIDE DEF part
  <2>3. out \o part \in Seq(Piece(script)) /\ Len(out \o part) = Len(out) + Len(part)
    BY <1>6, <2>2, ConcatProperties
  <2> QED
    BY <2>2, <2>3 DEF part
<1> HIDE DEF sent
<1>9. g \in [of : Asked(script), pos : 0 .. FileLen + 1] /\ g # None
  <2>1. g = [of |-> f.of, pos |-> f.pos + n]
    BY <1>3
  <2>2. f.of \in Asked(script) /\ f.pos + n \in 0 .. FileLen + 1
    BY <1>3, <1>7, StateAssumption
  <2> DEFINE at == f.pos + n
  <2> HIDE DEF g, at
  <2>3. [of |-> f.of, pos |-> at] \in [of : Asked(script), pos : 0 .. FileLen + 1]
    BY <2>2 DEF at
  <2> QED
    BY <2>1, <2>3 DEF None, at
<1> HIDE DEF g
<1>10. /\ TaskTyped(script, more) /\ more.own = Task.own /\ more.parse_buf = Task.parse_buf
       /\ more.state = "SEND_BODY_STATE" /\ DOMAIN more = TaskFields
  BY <1>1, <1>2, <1>9 DEF TaskTyped, TaskFields, Parsed
<1> HIDE DEF more
<1>11. /\ TaskTyped(script, done) /\ done.own = more.own /\ done.parse_buf = more.parse_buf
       /\ done.state = "FINISHED_STATE"
  BY <1>10 DEF TaskTyped, TaskFields, SendsFile, States, Parsed
<1>12. /\ q.socket = Me.socket /\ q.cgi_executor = Me.cgi_executor
       /\ q.receiving_buffer = Me.receiving_buffer /\ q.close_conn = Me.close_conn
       /\ q.sending_buffer = sent /\ q.http_task = done
  BY <1>4, <1>5 DEF PeerFields
<1> HIDE DEF q, done
<1>13. SlotTyped(script, p) /\ SlotTyped(script, q)
  BY <1>2, <1>4, <1>5, <1>7, <1>8, <1>10, <1>11, <1>12 DEF SlotTyped, Owned
<1>14. RequestTyped'
  BY <1>1 DEF Full, Typed, RequestTyped
<1>15. CASE /\ p.http_task.fp.pos < Len(file)
            /\ connection_list' = [connection_list EXCEPT ![cur] = p]
            /\ NextSlot /\ streams' = streams
  <2>1. Rests(p)
    BY <1>4, <1>6, <1>7, <1>8, <1>10, <1>15 DEF Rests
  <2>2. SendsFile(p.http_task) /\ p.http_task.own = Task.own
    BY <1>4, <1>10 DEF SendsFile
  <2>3. Typed' /\ Resting'
    BY <1>1, <1>5, <1>13, <1>14, <1>15, <2>1, HandlerStep DEF Me
  <2>4. StreamInv'
    BY <1>1, <1>5, <1>15, <2>2, StreamsStay DEF Me
  <2> QED
    BY <2>3, <2>4
<1>16. CASE /\ connection_list' = [connection_list EXCEPT ![cur] = q]
            /\ UNCHANGED loop /\ streams' = streams \ {Task.own}
  <2>1. Typed' /\ Resting'
    BY <1>1, <1>12, <1>13, <1>14, <1>16, HandlerStep DEF Me
  <2>2. \A s \in Slot : connection_list'[s] = IF s = cur THEN q ELSE connection_list[s]
    BY <1>2, <1>16
  <2>3. ASSUME NEW x \in streams, x # Task.own PROVE StreamOK(x)'
    <3>1. ~Sender(x, cur)
      BY <2>3 DEF Sender, Task
    <3> QED
      BY <1>1, <1>2, <1>12, <2>2, <3>1, StreamStep DEF Me
  <2> QED
    BY <1>1, <1>16, <2>1, <2>3 DEF Full, StreamInv
<1> QED
  BY <1>1, <1>15, <1>16

\* The task is reset; its stream, if it has one, is closed already.
LEMMA FinishTyped ==
  ASSUME Full, Finish PROVE Typed' /\ Resting' /\ StreamInv'
<1> DEFINE new == reset_http_task(Task)
           p == [Me EXCEPT !.http_task = new]
<1>1. /\ pc = "http" /\ Task.state = "FINISHED_STATE" /\ NextSlot
      /\ connection_list' = [connection_list EXCEPT ![cur] = p]
      /\ request' = IF request = NULL THEN NULL ELSE [request EXCEPT !.freed = TRUE]
      /\ UNCHANGED <<execs, world>>
  BY DEF Finish, InHandler, Return, reset_http_task, FreshTask
<1>2. /\ DOMAIN Me = PeerFields /\ Task = Me.http_task /\ DOMAIN Task = TaskFields
      /\ SlotTyped(script, Me) /\ TaskTyped(script, Task)
  BY CurrentTyped
<1>3. /\ new.state = "RECV_HEADER_STATE" /\ new.parse_buf = <<>> /\ new.response_buf = <<>>
      /\ new.response_code = -1 /\ new.post_body = <<>> /\ new.own = None /\ new.fp = Task.fp
  BY DEF reset_http_task, FreshTask
<1> HIDE DEF new
<1>4. \A S : <<>> \in Seq(S) /\ Len(<<>>) = 0
  BY NoPieces
<1>5. Len(new.parse_buf) = 0 /\ Len(new.response_buf) = 0
  BY <1>3, <1>4, Zenon
<1>6. TaskTyped(script, new)
  BY <1>2, <1>3, <1>4, <1>5, StateAssumption DEF TaskTyped, SendsFile, States, Parsed
<1>7. /\ p.socket = Me.socket /\ p.cgi_executor = Me.cgi_executor
      /\ p.sending_buffer = Me.sending_buffer /\ p.close_conn = Me.close_conn
      /\ p.receiving_buffer = Me.receiving_buffer /\ p.http_task = new
  BY <1>2 DEF PeerFields
<1> HIDE DEF p
<1>8. SlotTyped(script, p)
  BY <1>2, <1>3, <1>4, <1>6, <1>7 DEF SlotTyped, Owned
<1>9. RequestTyped'
  BY <1>1 DEF Full, Typed, RequestTyped, world
<1>10. ~SendsFile(Task) /\ Rests(p)
  BY <1>1, <1>3, <1>7 DEF SendsFile, Rests
<1> QED
  BY <1>1, <1>7, <1>8, <1>9, <1>10, HandlerTyped

\* A step that changes no slot and nothing around the server, and only leaves
\* the handler where its task may rest.
LEMMA IdleTyped ==
  ASSUME Full, UNCHANGED <<connection_list, request, execs, script, net, proc, streams>>,
         Control', pc = "http" => Rests(Me)
  PROVE  Typed' /\ Resting' /\ StreamInv'
<1>1. Typed'
  BY DEF Full, Typed, ScriptTyped, SlotsTyped, NetTyped, ExecTyped, PointerTyped,
         ProcTyped, RequestTyped, Slot
<1>2. Resting'
  BY DEF Full, Resting, Me, Slot
<1>3. StreamInv'
  BY DEF Full, StreamInv, StreamOK, Sender, Slot
<1> QED
  BY <1>1, <1>2, <1>3

LEMMA HandlerIdle ==
  ASSUME Full, pc = "http", NextSlot, UNCHANGED <<peers, world>>, Rests(Me)
  PROVE  Typed' /\ Resting' /\ StreamInv'
<1>1. Control'
  BY DEF NextSlot, Full, Typed, Control
<1> QED
  BY <1>1, IdleTyped DEF peers, world

\* The process dies where a task rests, or while the handler looks at one that does.
LEMMA DieTyped ==
  ASSUME Full, Die, pc = "http" => Rests(Me) PROVE Typed' /\ Resting' /\ StreamInv'
<1>1. Control'
  BY DEF Die, Full, Typed, Control
<1> QED
  BY <1>1, IdleTyped DEF Die

\* A child is started with the two pipes of its executor.
LEMMA CheckCgiTyped ==
  ASSUME Full, CheckCgi PROVE Typed' /\ Resting' /\ StreamInv'
<1> DEFINE new == [Task EXCEPT !.state = "PROCESSING_CGI"]
<1>1. /\ pc = "http" /\ Task.state = "CHECK_CGI" /\ request # NULL
      /\ UNCHANGED <<request, script, net, backlog, streams>>
  BY DEF CheckCgi, InHandler
<1>2. PICK a \in ExecAddr :
        /\ start_CGI_script(a, IF Wanted.method = "POST" THEN Task.post_body ELSE <<>>)
        /\ Return([Me EXCEPT !.cgi_executor = a, !.http_task.state = "PROCESSING_CGI"],
                  IF Task.last_request THEN "CLOSE_CONN" ELSE "KEEP_CONN")
  BY DEF CheckCgi
<1> DEFINE p == [Me EXCEPT !.cgi_executor = a, !.http_task.state = "PROCESSING_CGI"]
           q == [p EXCEPT !.close_conn = TRUE]
<1>3. NextSlot /\ \/ connection_list' = [connection_list EXCEPT ![cur] = p]
                  \/ connection_list' = [connection_list EXCEPT ![cur] = q]
  BY <1>2 DEF Return
<1>4. /\ DOMAIN Me = PeerFields /\ Task = Me.http_task /\ DOMAIN Task = TaskFields
      /\ SlotTyped(script, Me) /\ TaskTyped(script, Task)
      /\ cur \in Slot /\ DOMAIN connection_list = Slot
  BY CurrentTyped
<1>5. Task.own \in Asked(script) /\ request.of \in Asked(script)
  BY <1>1, <1>4 DEF TaskTyped, Parsed, Full, Typed, RequestTyped
<1>6. TaskTyped(script, new) /\ new.own = Task.own /\ new.parse_buf = Task.parse_buf
        /\ new.state = "PROCESSING_CGI"
  BY <1>1, <1>4 DEF TaskTyped, TaskFields, SendsFile, States, Parsed
<1>7. /\ p.socket = Me.socket /\ p.cgi_executor = a
      /\ p.sending_buffer = Me.sending_buffer /\ p.close_conn = Me.close_conn
      /\ p.receiving_buffer = Me.receiving_buffer /\ p.http_task = new
      /\ DOMAIN p = PeerFields
  BY <1>4 DEF PeerFields
<1> HIDE DEF p, new
<1>8. /\ q.socket = Me.socket /\ q.cgi_executor = a
      /\ q.sending_buffer = Me.sending_buffer /\ q.close_conn = TRUE
      /\ q.receiving_buffer = Me.receiving_buffer /\ q.http_task = new
  BY <1>7 DEF PeerFields
<1> HIDE DEF q
<1>9. PICK x : /\ connection_list' = [connection_list EXCEPT ![cur] = x]
               /\ SlotTyped(script, x) /\ x.socket = Me.socket
               /\ x.cgi_executor = a /\ x.http_task = new
  <2>1. SlotTyped(script, p)
    BY <1>4, <1>6, <1>7 DEF SlotTyped, Owned
  <2>2. SlotTyped(script, q)
    BY <1>4, <1>6, <1>8 DEF SlotTyped, Owned
  <2> QED
    BY <1>3, <1>7, <1>8, <2>1, <2>2
<1>10. \A s \in Slot : connection_list'[s] = IF s = cur THEN x ELSE connection_list[s]
  BY <1>4, <1>9
<1>11. SlotsTyped'
  BY <1>1, <1>9, <1>10 DEF Full, Typed, SlotsTyped, Slot
<1>12. Control' /\ ScriptTyped' /\ NetTyped' /\ RequestTyped'
  BY <1>1, <1>3 DEF Full, Typed, Control, NextSlot, ScriptTyped, NetTyped, RequestTyped
<1>13. ExecTyped' /\ \A y \in ExecAddr : execs'[y].pid = IF y = a THEN Task.own ELSE execs[y].pid
  BY <1>1, <1>2, <1>5 DEF start_CGI_script, Full, Typed, ExecTyped, ExecFields
<1>14. PointerTyped'
  BY <1>1, <1>5, <1>9, <1>10, <1>13 DEF Full, Typed, PointerTyped, Slot
<1>15. ProcTyped'
  BY <1>1, <1>2, <1>5 DEF start_CGI_script, build_CGI_param, Full, Typed, ProcTyped, ProcFields
<1>16. Resting'
  BY <1>3, <1>6, <1>9, <1>10 DEF NextSlot, Full, Resting, Rests, Slot
<1>17. StreamInv'
  <2>1. ~SendsFile(Task)
    BY <1>1 DEF SendsFile
  <2> QED
    BY <1>1, <1>9, <2>1, StreamsStay DEF Me
<1> QED
  BY <1>11, <1>12, <1>13, <1>14, <1>15, <1>16, <1>17 DEF Typed
-----------------------------------------------------------------------------
(* Closing a connection.                                                   *)

\* A kernel with the connections of net, and its queues in order.
Carries(k) ==
  /\ DOMAIN k = Client
  /\ \A c \in Client :
       /\ DOMAIN k[c] = NetFields /\ k[c].conn = net[c].conn
       /\ k[c].inq \in Seq(PieceOf(script, c)) /\ Len(k[c].inq) <= NetCap
       /\ k[c].outq \in Seq(Piece(script)) /\ Len(k[c].outq) <= NetCap
       /\ k[c].next \in (Nat \ {0}) \X Nat

LEMMA NetCarries == ASSUME Full PROVE Carries(net)
  BY DEF Full, Typed, NetTyped, IInv, SlotInv, Shape, Carries

\* A freed executor keeps the child it was made for.
LEMMA FreeTyped ==
  ASSUME Full, NEW a \in ExecAddr \cup {NULL}, free_CGI_executor(a), script' = script
  PROVE  ExecTyped' /\ \A x \in ExecAddr : execs'[x].pid = execs[x].pid
<1>1. CASE a = NULL
  BY <1>1 DEF free_CGI_executor, Full, Typed, ExecTyped
<1>2. CASE a # NULL
  BY <1>2 DEF free_CGI_executor, Full, Typed, ExecTyped, ExecFields
<1> QED
  BY <1>1, <1>2

LEMMA VacatedTyped ==
  ASSUME NEW p, DOMAIN p = PeerFields, SlotTyped(script, p)
  PROVE  SlotTyped(script, Vacated(p)) /\ Vacated(p).socket = NULL
           /\ Vacated(p).cgi_executor = p.cgi_executor
<1> DEFINE v == Vacated(p)
<1>1. /\ v.socket = NULL /\ v.sending_buffer = <<>> /\ v.receiving_buffer = <<>>
      /\ v.close_conn = FALSE /\ v.http_task = p.http_task /\ v.cgi_executor = p.cgi_executor
  BY DEF Vacated, PeerFields, NO_SOCKET
<1> HIDE DEF v
<1>2. \A S : <<>> \in Seq(S) /\ Len(<<>>) = 0
  BY NoPieces
<1>3. /\ v.sending_buffer \in Seq(Piece(script)) /\ Len(v.sending_buffer) = 0
      /\ v.receiving_buffer \in Seq(PieceOf(script, v.socket)) /\ Len(v.receiving_buffer) = 0
  BY <1>1, <1>2, Zenon
<1>4. /\ v.close_conn \in BOOLEAN /\ TaskTyped(script, v.http_task)
      /\ Owned(script, v)
  BY <1>1 DEF SlotTyped, Owned
<1>5. SlotTyped(script, v)
  BY <1>3, <1>4, StateAssumption DEF SlotTyped
<1> QED
  BY <1>1, <1>5 DEF v

\* The current slot is given up; its streams are those of a connection that is over.
LEMMA CloseTyped ==
  ASSUME Full, NEW k, Carries(k), close_client_connection(cur, k),
         script' = script, proc' = proc, streams' \subseteq streams,
         Control', RequestTyped', pc' # "http"
  PROVE  Typed' /\ Resting' /\ StreamInv'
<1> DEFINE p == Vacated(Me)
<1>1. /\ DOMAIN Me = PeerFields /\ SlotTyped(script, Me)
      /\ cur \in Slot /\ DOMAIN connection_list = Slot
  BY CurrentTyped
<1>2. SlotTyped(script, p) /\ p.socket = NULL /\ p.cgi_executor = Me.cgi_executor
  BY <1>1, VacatedTyped
<1>3. connection_list' = [connection_list EXCEPT ![cur] = p]
  BY DEF close_client_connection, Me
<1> HIDE DEF p
<1>4. \A s \in Slot : connection_list'[s] = IF s = cur THEN p ELSE connection_list[s]
  BY <1>1, <1>3
<1>5. SlotsTyped'
  BY <1>2, <1>4 DEF Full, Typed, SlotsTyped, Slot
<1>6. ExecTyped' /\ \A x \in ExecAddr : execs'[x].pid = execs[x].pid
  <2>1. Me.cgi_executor \in ExecAddr \cup {NULL}
    BY <1>1 DEF Full, Typed, PointerTyped, Me
  <2>2. free_CGI_executor(Me.cgi_executor)
    BY DEF close_client_connection, Peer, Me
  <2> QED
    BY <2>1, <2>2, FreeTyped
<1>7. PointerTyped'
  BY <1>2, <1>4, <1>6 DEF Full, Typed, PointerTyped, Me, Slot
<1>8. ScriptTyped' /\ ProcTyped'
  BY DEF Full, Typed, ScriptTyped, ProcTyped
<1>9. /\ NetTyped'
      /\ \A c \in Client : net'[c].conn = IF c = Me.socket THEN "closed" ELSE net[c].conn
  <2>1. CASE Me.socket = NULL
    <3>1. net' = k /\ NULL \notin Client
      BY <2>1, StateAssumption DEF close_client_connection, Peer, Me, NO_SOCKET
    <3> QED
      BY <2>1, <3>1 DEF Carries, NetTyped
  <2>2. CASE Me.socket # NULL
    <3>1. Me.socket \in Client
      BY <1>1, <2>2 DEF Full, IInv, SlotInv, Sockets, Me
    <3>2. net' = [k EXCEPT ![Me.socket].conn = "closed", ![Me.socket].inq = <<>>]
      BY <2>2 DEF close_client_connection, Peer, Me, NO_SOCKET
    <3>3. \A S : <<>> \in Seq(S) /\ Len(<<>>) = 0
      BY NoPieces
    <3>4. \A c \in Client :
            /\ net'[c].conn = IF c = Me.socket THEN "closed" ELSE net[c].conn
            /\ net'[c].inq = IF c = Me.socket THEN <<>> ELSE k[c].inq
            /\ net'[c].outq = k[c].outq /\ net'[c].next = k[c].next
      BY <3>1, <3>2 DEF Carries, NetFields
    <3>5. \A c \in Client : net'[c].inq \in Seq(PieceOf(script, c)) /\ Len(net'[c].inq) <= NetCap
      <4> SUFFICES ASSUME NEW c \in Client
                   PROVE  net'[c].inq \in Seq(PieceOf(script, c)) /\ Len(net'[c].inq) <= NetCap
        OBVIOUS
      <4>1. CASE c = Me.socket
        <5>1. net'[c].inq \in Seq(PieceOf(script, c)) /\ Len(net'[c].inq) = 0
          BY <3>3, <3>4, <4>1, Zenon
        <5> QED
          BY <5>1, StateAssumption
      <4>2. CASE c # Me.socket
        BY <3>4, <4>2 DEF Carries
      <4> QED
        BY <4>1, <4>2
    <3> QED
      BY <3>4, <3>5 DEF Carries, NetTyped
  <2> QED
    BY <2>1, <2>2
<1>10. Resting'
  BY <1>2, <1>4 DEF Full, Resting, Slot
<1>11. ASSUME NEW r \in streams PROVE StreamOK(r)'
  <2>1. StreamOK(r) /\ r[1] \in Client
    BY DEF Full, StreamInv, Asked
  <2>2. CASE r[1] = Me.socket
    BY <1>9, <2>1, <2>2 DEF StreamOK
  <2>3. CASE r[1] # Me.socket
    BY <1>4, <1>9, <2>1, <2>3 DEF StreamOK, Sender, Me, Slot
  <2> QED
    BY <2>2, <2>3
<1> QED
  BY <1>5, <1>6, <1>7, <1>8, <1>9, <1>10, <1>11 DEF Typed, Full, StreamInv

LEMMA ReturnCloseNowTyped ==
  ASSUME Full, pc = "http", ReturnCloseNow, RequestTyped', streams' \subseteq streams
  PROVE  Typed' /\ Resting' /\ StreamInv'
<1>1. /\ close_client_connection(cur, net) /\ NextSlot
      /\ script' = script /\ proc' = proc
  BY DEF ReturnCloseNow
<1>2. Control' /\ pc' # "http"
  BY <1>1 DEF NextSlot, Full, Typed, Control
<1> QED
  BY <1>1, <1>2, NetCarries, CloseTyped

LEMMA HandlerStepTyped ==
  ASSUME Full, Handler PROVE Typed' /\ Resting' /\ StreamInv'
<1>1. CASE HeaderTooLong
  <2>1. RequestTyped' /\ streams' \subseteq streams
    BY <1>1 DEF HeaderTooLong, ReturnCloseNow, Full, Typed, RequestTyped
  <2> QED
    BY <1>1, <2>1, ReturnCloseNowTyped DEF HeaderTooLong, InHandler
<1>2. CASE HeaderRefused
  <2>1. RequestTyped' /\ streams' \subseteq streams
    BY <1>2 DEF HeaderRefused, RequestTyped
  <2> QED
    BY <1>2, <2>1, ReturnCloseNowTyped DEF HeaderRefused, HeaderComplete, InHandler
<1>3. CASE SendBodyFails
  <2>1. CASE Room(Me.sending_buffer) = 0
    <3>1. pc = "http" /\ NextSlot /\ UNCHANGED <<peers, world>>
      BY <1>3, <2>1 DEF SendBodyFails, InHandler
    <3>2. Me.http_task.state = "SEND_BODY_STATE"
      BY <1>3 DEF SendBodyFails, InHandler, Task, Me
    <3>3. Len(Me.sending_buffer) \in Nat
      BY CurrentTyped, LenProperties DEF SlotTyped
    <3>4. Rests(Me)
      BY <2>1, <3>2, <3>3, StateAssumption DEF Rests, Room
    <3> QED
      BY <3>1, <3>4, HandlerIdle
  <2>2. CASE Room(Me.sending_buffer) # 0
    <3>1. pc = "http" /\ ReturnCloseNow /\ request' = request /\ streams' \subseteq streams
      BY <1>3, <2>2 DEF SendBodyFails, InHandler
    <3>2. RequestTyped'
      BY <3>1 DEF ReturnCloseNow, Full, Typed, RequestTyped
    <3> QED
      BY <3>1, <3>2, ReturnCloseNowTyped
  <2> QED
    BY <2>1, <2>2
<1>4. CASE ProcessingCgi
  <2>1. Rests(Me)
    BY <1>4 DEF ProcessingCgi, InHandler, Task, Me, Rests
  <2> QED
    BY <1>4, <2>1, HandlerIdle DEF ProcessingCgi, InHandler
<1>5. CASE HandlerDies
  <2>1. Die /\ Task.state \in {"CHECK_CGI", "FINISHED_STATE"}
    BY <1>5 DEF HandlerDies, InHandler
  <2>2. Rests(Me)
    BY <2>1 DEF Task, Me, Rests
  <2> QED
    BY <2>1, <2>2, DieTyped
<1> QED
  BY <1>1, <1>2, <1>3, <1>4, <1>5, HeaderIncompleteTyped, HeaderParsedTyped,
     ReceiveBodyTyped, GenerateHeaderTyped, SendHeaderTyped, CheckStaticTyped,
     CheckCgiTyped, SendBodyTyped, FinishTyped DEF Handler
-----------------------------------------------------------------------------
(* The rest of a pass.                                                     *)

\* A free slot has received nothing, so that it suits the next client.
LEMMA FreeSlotReceived ==
  ASSUME Full, NEW s \in Slot, connection_list[s].socket = NULL, NEW c
  PROVE  connection_list[s].receiving_buffer \in Seq(PieceOf(script, c))
<1>1. PieceOf(script, NULL) = {}
  BY StateAssumption DEF PieceOf, Piece, Asked
<1>2. connection_list[s].receiving_buffer \in Seq(PieceOf(script, NULL))
  BY DEF Full, Typed, SlotsTyped, SlotTyped
<1> QED
  BY <1>1, <1>2, SeqMonotonic

\* The first connection of the backlog gets slot s.
LEMMA AcceptedTyped ==
  ASSUME Full, NEW s \in Slot, NEW c \in Client, net[c].conn = "none",
         connection_list[s].socket = NULL, pc = "accept",
         connection_list' = [connection_list EXCEPT
           ![s] = [@ EXCEPT !.socket = c, !.close_conn = FALSE, !.http_task = FreshTask]],
         net' = [net EXCEPT ![c].conn = "open"], GoTo("cgi_write"),
         UNCHANGED <<request, execs, has_read, has_sent, script, proc, streams>>
  PROVE  Typed' /\ Resting' /\ StreamInv'
<1> DEFINE old == connection_list[s]
           p == [old EXCEPT !.socket = c, !.close_conn = FALSE, !.http_task = FreshTask]
<1>1. DOMAIN connection_list = Slot /\ DOMAIN old = PeerFields /\ SlotTyped(script, old)
  BY DEF Full, Typed, SlotsTyped, IInv, SlotInv, Shape
<1>2. /\ p.socket = c /\ p.close_conn = FALSE /\ p.http_task = FreshTask
      /\ p.cgi_executor = old.cgi_executor /\ p.sending_buffer = old.sending_buffer
      /\ p.receiving_buffer = old.receiving_buffer
  BY <1>1 DEF PeerFields
<1>3. connection_list' = [connection_list EXCEPT ![s] = p]
  OBVIOUS
<1>4. old.receiving_buffer \in Seq(PieceOf(script, c))
  BY FreeSlotReceived
<1> HIDE DEF p
<1>5. \A t \in Slot : connection_list'[t] = IF t = s THEN p ELSE connection_list[t]
  BY <1>1, <1>3
<1>6. \A S : <<>> \in Seq(S) /\ Len(<<>>) = 0
  BY NoPieces
<1>7. TaskTyped(script, FreshTask) /\ FreshTask.own = None /\ FreshTask.parse_buf = <<>>
        /\ FreshTask.state = "RECV_HEADER_STATE"
  BY <1>6, StateAssumption DEF TaskTyped, FreshTask, SendsFile, States, Parsed
<1>8. SlotTyped(script, p)
  <2>1. Owned(script, p)
    BY <1>2, <1>6, <1>7 DEF Owned
  <2>2. p.close_conn \in BOOLEAN
    BY <1>2
  <2> HIDE DEF old
  <2>3. TaskTyped(script, p.http_task)
    BY <1>2, <1>7
  <2> QED
    BY <1>1, <1>2, <1>4, <2>1, <2>2, <2>3 DEF SlotTyped
<1>9. SlotsTyped' /\ PointerTyped'
  BY <1>2, <1>5, <1>8 DEF Full, Typed, SlotsTyped, PointerTyped, Slot
<1>10. \A d \in Client :
         /\ net'[d].conn = IF d = c THEN "open" ELSE net[d].conn
         /\ net'[d].inq = net[d].inq /\ net'[d].outq = net[d].outq
         /\ net'[d].next = net[d].next
  BY DEF Full, IInv, SlotInv, Shape, NetFields
<1>11. Control' /\ ScriptTyped' /\ NetTyped' /\ ExecTyped' /\ ProcTyped' /\ RequestTyped'
  BY <1>10 DEF Full, Typed, Control, ScriptTyped, NetTyped, ExecTyped, ProcTyped,
                RequestTyped, GoTo
<1>12. Resting'
  BY <1>2, <1>5, <1>7 DEF Full, Resting, Rests, GoTo, Slot
<1>13. ASSUME NEW r \in streams PROVE StreamOK(r)'
  <2>1. StreamOK(r) /\ r[1] \in Client /\ r[1] # NULL
    BY StateAssumption DEF Full, StreamInv, Asked
  <2>2. \A t \in Slot : Sender(r, t) => t # s /\ connection_list'[t] = connection_list[t]
    BY <1>5, <2>1 DEF Sender
  <2>3. (\E t \in Slot : Sender(r, t)) => StreamOK(r)'
    BY <2>2 DEF StreamOK, Sender, Slot
  <2> QED
    BY <1>10, <2>1, <2>3 DEF StreamOK
<1> QED
  BY <1>9, <1>11, <1>12, <1>13 DEF Typed, Full, StreamInv

\* The kernel changes, connections stay what they are or are refused.
LEMMA KernelTyped ==
  ASSUME Full, pc # "http", UNCHANGED <<connection_list, request, execs, script, streams>>,
         Control', pc' # "http", NetTyped', ProcTyped',
         \A c \in Client : net'[c].conn = net[c].conn \/ net'[c].conn = "refused"
  PROVE  Typed' /\ Resting' /\ StreamInv'
<1>1. Typed'
  BY DEF Full, Typed, ScriptTyped, SlotsTyped, ExecTyped, PointerTyped, RequestTyped, Slot
<1>2. Resting'
  BY DEF Full, Resting, Slot
<1>3. ASSUME NEW r \in streams PROVE StreamOK(r)'
  <2>1. StreamOK(r) /\ r[1] \in Client
    BY DEF Full, StreamInv, Asked
  <2>2. CASE net'[r[1]].conn = "refused"
    BY <2>2 DEF StreamOK
  <2>3. CASE net'[r[1]].conn = net[r[1]].conn
    BY <2>1, <2>3 DEF StreamOK, Sender, Slot
  <2> QED
    BY <2>1, <2>2, <2>3
<1> QED
  BY <1>1, <1>2, <1>3 DEF Full, StreamInv

LEMMA AcceptTyped == ASSUME Full, Accept PROVE Typed' /\ Resting' /\ StreamInv'
<1>1. /\ pc = "accept" /\ GoTo("cgi_write")
      /\ UNCHANGED <<request, execs, has_read, has_sent, script, proc, streams>>
  BY DEF Accept
<1>2. Control' /\ pc' # "http"
  BY <1>1 DEF GoTo, Full, Typed, Control
<1>3. CASE UNCHANGED <<connection_list, net, backlog>>
  BY <1>1, <1>2, <1>3, IdleTyped
<1>4. CASE ListenFd \in rfds /\ handle_new_connection /\ ~UNCHANGED <<connection_list, net, backlog>>
  <2> DEFINE c == Head(backlog)
  <2>1. backlog \in Seq(Client) /\ backlog # <<>>
    BY <1>1, <1>4 DEF Full, IInv, SlotInv, BacklogInv, AcceptInv
  <2>2. c \in Client /\ net[c].conn = "none"
    <3>1. c = backlog[1] /\ 1 \in 1 .. Len(backlog) /\ c \in Client
      BY <2>1
    <3> QED
      BY <3>1 DEF Full, IInv, SlotInv, BacklogInv
  <2> HIDE DEF c
  <2>3. CASE \E s \in Slot :
               /\ connection_list[s].socket = NULL
               /\ connection_list' = [connection_list EXCEPT
                    ![s] = [@ EXCEPT !.socket = c, !.close_conn = FALSE,
                                     !.http_task = FreshTask]]
               /\ net' = [net EXCEPT ![c].conn = "open"]
    BY <1>1, <2>2, <2>3, AcceptedTyped
  <2>4. CASE /\ net' = [net EXCEPT ![c].conn = "refused", ![c].inq = <<>>]
             /\ connection_list' = connection_list
    <3>1. \A d \in Client :
            /\ net'[d].conn = net[d].conn \/ net'[d].conn = "refused"
            /\ net'[d].inq = IF d = c THEN <<>> ELSE net[d].inq
            /\ net'[d].outq = net[d].outq /\ net'[d].next = net[d].next
      BY <2>2, <2>4 DEF Full, IInv, SlotInv, Shape, NetFields
    <3>2. \A S : <<>> \in Seq(S) /\ Len(<<>>) = 0
      BY NoPieces
    <3>3. ASSUME NEW d \in Client
          PROVE  net'[d].inq \in Seq(PieceOf(script, d)) /\ Len(net'[d].inq) <= NetCap
      <4>1. CASE d = c
        <5>1. net'[d].inq \in Seq(PieceOf(script, d)) /\ Len(net'[d].inq) = 0
          BY <3>1, <3>2, <4>1, Zenon
        <5> QED
          BY <5>1, StateAssumption
      <4>2. CASE d # c
        BY <3>1, <4>2 DEF Full, Typed, NetTyped
      <4> QED
        BY <4>1, <4>2
    <3>4. NetTyped'
      BY <1>1, <3>1, <3>3 DEF Full, Typed, NetTyped
    <3>5. ProcTyped'
      BY <1>1 DEF Full, Typed, ProcTyped
    <3> QED
      BY <1>1, <1>2, <2>4, <3>1, <3>4, <3>5, KernelTyped
  <2> QED
    BY <1>4, <2>3, <2>4 DEF handle_new_connection, Peer, NO_SOCKET, c
<1> QED
  BY <1>1, <1>3, <1>4 DEF Accept

\* A step of a pipe or of the socket that leaves the task of the slot alone.
LEMMA TransferTyped ==
  ASSUME Full, pc # "http", NEW p, connection_list' = [connection_list EXCEPT ![cur] = p],
         SlotTyped(script, p), p.socket = Me.socket, p.cgi_executor = Me.cgi_executor,
         p.http_task = Me.http_task,
         pc' = "http" => cur' = cur,
         pc' # "http" => (p.socket # NULL => Rests(p)),
         UNCHANGED <<request, execs, script, streams>>, ProcTyped', NetTyped',
         \A c \in Client : net'[c].conn = net[c].conn, Control'
  PROVE  Typed' /\ Resting' /\ StreamInv'
<1>1. cur \in Slot /\ DOMAIN connection_list = Slot /\ Task = Me.http_task
  BY CurrentTyped
<1>2. SlotsTyped' /\ PointerTyped'
  BY SlotStep DEF Me
<1>3. ScriptTyped' /\ ExecTyped' /\ RequestTyped'
  BY DEF Full, Typed, ScriptTyped, ExecTyped, RequestTyped
<1>4. \A s \in Slot : connection_list'[s] = IF s = cur THEN p ELSE connection_list[s]
  BY <1>1
<1>5. Resting'
  BY <1>4 DEF Full, Resting, Slot
<1>6. StreamInv'
  BY <1>1, StreamsStay DEF Me
<1> QED
  BY <1>2, <1>3, <1>5, <1>6 DEF Typed

\* What is needed of the child of the current slot.
LEMMA ChildOfSlot ==
  ASSUME Full, Me.cgi_executor # NULL
  PROVE  /\ Me.cgi_executor \in ExecAddr /\ Executor = execs[Me.cgi_executor]
         /\ Executor.pid \in Asked(script) /\ DOMAIN proc[Executor.pid] = ProcFields
         /\ proc[Executor.pid].stdout \in Seq(Piece(script))
<1>1. cur \in Slot
  BY CurrentTyped
<1>2. Me.cgi_executor \in ExecAddr /\ Executor.pid \in Asked(script)
  BY <1>1 DEF Full, Typed, PointerTyped, Me, Executor
<1> QED
  BY <1>2 DEF Full, Typed, ProcTyped, Executor

\* What a child is given does not change what it is.
LEMMA SendToCGITyped ==
  ASSUME Full, Me.cgi_executor # NULL, SendToCGI, script' = script
  PROVE  ExecTyped' /\ ProcTyped' /\ \A x \in ExecAddr : execs'[x].pid = execs[x].pid
<1>1. CASE UNCHANGED <<execs, proc>>
  BY <1>1 DEF Full, Typed, ExecTyped, ProcTyped
<1>2. CASE ~UNCHANGED <<execs, proc>>
  <2>1. PICK n : /\ execs' = [execs EXCEPT ![Me.cgi_executor].cgi_buffer = Drop(@, n)]
                 /\ proc' = [proc EXCEPT ![Executor.pid].stdin =
                               @ \o Take(Executor.cgi_buffer, n)]
    BY <1>2 DEF SendToCGI
  <2>2. Me.cgi_executor \in ExecAddr /\ Executor.pid \in Asked(script)
    BY ChildOfSlot
  <2>3. ExecTyped' /\ \A x \in ExecAddr : execs'[x].pid = execs[x].pid
    BY <2>1, <2>2 DEF Full, Typed, ExecTyped, ExecFields
  <2> DEFINE pid == Executor.pid
  <2> HIDE DEF pid
  <2>4. /\ DOMAIN proc' = DOMAIN proc
        /\ \A x \in Asked(script) :
             /\ DOMAIN proc'[x] = DOMAIN proc[x] /\ proc'[x].stdout = proc[x].stdout
             /\ proc'[x].wrote = proc[x].wrote /\ proc'[x].st = proc[x].st
             /\ proc'[x].env = proc[x].env
    BY <2>1, <2>2 DEF Full, Typed, ProcTyped, ProcFields, pid
  <2>5. ProcTyped'
    BY <2>4 DEF Full, Typed, ProcTyped
  <2> QED
    BY <2>3, <2>5
<1> QED
  BY <1>1, <1>2

LEMMA CgiWriteTyped == ASSUME Full, CgiWrite PROVE Typed' /\ Resting' /\ StreamInv'
<1>1. /\ pc = "cgi_write" /\ Me.cgi_executor # NULL /\ GoTo("cgi_read")
      /\ UNCHANGED <<request, has_read, has_sent, script, backlog, streams>>
  BY DEF CgiWrite
<1>2. pc' # "http" /\ RequestTyped'
  BY <1>1 DEF GoTo, Full, Typed, RequestTyped
<1>3. CASE UNCHANGED <<connection_list, net>> /\ SendToCGI
  <2>1. ExecTyped' /\ ProcTyped' /\ \A x \in ExecAddr : execs'[x].pid = execs[x].pid
    BY <1>1, <1>3, SendToCGITyped
  <2>2. Control'
    BY <1>1, <1>3 DEF GoTo, Me, Full, Typed, Control
  <2>3. PointerTyped'
    BY <1>1, <1>3, <2>1 DEF Full, Typed, PointerTyped, Slot
  <2>4. ScriptTyped' /\ SlotsTyped' /\ NetTyped'
    BY <1>1, <1>3 DEF Full, Typed, ScriptTyped, SlotsTyped, NetTyped, Slot
  <2>5. Resting' /\ StreamInv'
    BY <1>1, <1>3 DEF GoTo, Full, Resting, StreamInv, StreamOK, Sender, Slot
  <2> QED
    BY <1>2, <2>1, <2>2, <2>3, <2>4, <2>5 DEF Typed
<1>4. CASE close_client_connection(cur, net) /\ proc' = proc
  <2>1. cur \in Slot /\ DOMAIN connection_list = Slot /\ DOMAIN Me = PeerFields
          /\ SlotTyped(script, Me)
    BY CurrentTyped
  <2>2. connection_list'[cur] = Vacated(Me)
    BY <1>4, <2>1 DEF close_client_connection, Me
  <2>3. connection_list'[cur].cgi_executor # NULL
    BY <1>1, <2>1, <2>2, VacatedTyped
  <2>4. Control'
    BY <1>1, <2>3 DEF GoTo, Full, Typed, Control
  <2> QED
    BY <1>1, <1>2, <1>4, <2>4, NetCarries, CloseTyped
<1>5. CASE UNCHANGED <<connection_list, execs, net, proc>>
  <2>1. Control'
    BY <1>1, <1>5 DEF GoTo, Me, Full, Typed, Control
  <2> QED
    BY <1>1, <1>5, <2>1, IdleTyped
<1> QED
  BY <1>3, <1>4, <1>5 DEF CgiWrite

\* The output of the child goes to a slot that has room, and so to no task that
\* sends a file.
LEMMA PipeOutputTyped ==
  ASSUME Full, pc = "cgi_read", GoTo("recv"), PipeOutput,
         UNCHANGED <<request, has_read, has_sent, script, net, backlog, streams>>
  PROVE  Typed' /\ Resting' /\ StreamInv'
<1> DEFINE pid == Executor.pid
           out == proc[pid].stdout
           old == Me.sending_buffer
           n == Least(Len(out), Room(old))
           new == old \o Take(out, n)
           p == [Me EXCEPT !.sending_buffer = new]
<1>1. /\ DOMAIN Me = PeerFields /\ SlotTyped(script, Me)
      /\ cur \in Slot /\ DOMAIN connection_list = Slot
  BY CurrentTyped
<1>2. pid \in Asked(script) /\ DOMAIN proc[pid] = ProcFields /\ out \in Seq(Piece(script))
  <2>1. Me.cgi_executor # NULL
    BY DEF Full, Typed, Control, Me
  <2> QED
    BY <2>1, ChildOfSlot
<1>3. /\ n > 0 /\ connection_list' = [connection_list EXCEPT ![cur].sending_buffer = new]
      /\ proc' = [proc EXCEPT ![pid].stdout = Drop(out, n)] /\ execs' = execs
  BY <1>1 DEF PipeOutput, Me
<1>4. old \in Seq(Piece(script)) /\ Len(old) <= BUF_DATA_MAXSIZE
  BY <1>1 DEF SlotTyped
<1> HIDE DEF pid, out, old
<1>5. n \in 0 .. Len(out) /\ Len(old) + n <= BUF_DATA_MAXSIZE /\ Len(old) \in Nat
  BY <1>2, <1>4, FitType, LenProperties, StateAssumption DEF Room
<1> HIDE DEF n
<1>6. new \in Seq(Piece(script)) /\ Len(new) <= BUF_DATA_MAXSIZE
  <2>1. Take(out, n) \in Seq(Piece(script)) /\ Len(Take(out, n)) = n
    BY <1>2, <1>5, TakeType
  <2> QED
    BY <1>4, <1>5, <2>1, ConcatProperties
<1> HIDE DEF new
<1>7. /\ p.socket = Me.socket /\ p.cgi_executor = Me.cgi_executor
      /\ p.sending_buffer = new /\ p.close_conn = Me.close_conn
      /\ p.receiving_buffer = Me.receiving_buffer /\ p.http_task = Me.http_task
  BY <1>1 DEF PeerFields
<1>8. connection_list' = [connection_list EXCEPT ![cur] = p]
  BY <1>3 DEF Me
<1> HIDE DEF p
<1>9. SlotTyped(script, p)
  BY <1>1, <1>6, <1>7 DEF SlotTyped, Owned
<1>10. p.socket # NULL => Rests(p)
  <2>1. Me.socket # NULL => Rests(Me)
    BY <1>1 DEF Full, Resting, Me
  <2>2. Len(old) # BUF_DATA_MAXSIZE
    BY <1>3, <1>5, StateAssumption
  <2> QED
    BY <1>7, <2>1, <2>2 DEF Rests, old
<1>11. Drop(out, n) \in Seq(Piece(script))
  BY <1>2, <1>5, DropType
<1>12. ProcTyped'
  <2>1. /\ DOMAIN proc' = DOMAIN proc
        /\ \A x \in Asked(script) :
             /\ DOMAIN proc'[x] = DOMAIN proc[x]
             /\ proc'[x].stdout = IF x = pid THEN Drop(out, n) ELSE proc[x].stdout
             /\ proc'[x].wrote = proc[x].wrote /\ proc'[x].st = proc[x].st
             /\ proc'[x].env = proc[x].env
    BY <1>2, <1>3 DEF Full, Typed, ProcTyped, ProcFields
  <2> QED
    BY <1>11, <2>1 DEF Full, Typed, ProcTyped
<1>13. Control' /\ NetTyped' /\ pc' = "recv"
  BY DEF GoTo, Full, Typed, Control, NetTyped
<1> QED
  BY <1>3, <1>7, <1>8, <1>9, <1>10, <1>12, <1>13, TransferTyped

\* The end of the output finishes a task that does not send a file.
LEMMA PipeEofTyped ==
  ASSUME Full, pc = "cgi_read", GoTo("recv"), PipeEof,
         UNCHANGED <<request, has_read, has_sent, script, net, backlog, streams>>
  PROVE  Typed' /\ Resting' /\ StreamInv'
<1> DEFINE new == [Task EXCEPT !.state = "FINISHED_STATE"]
           p == [Me EXCEPT !.cgi_executor = NULL, !.http_task.state = "FINISHED_STATE"]
<1>1. /\ DOMAIN Me = PeerFields /\ Task = Me.http_task /\ DOMAIN Task = TaskFields
      /\ SlotTyped(script, Me) /\ TaskTyped(script, Task)
      /\ cur \in Slot /\ DOMAIN connection_list = Slot
  BY CurrentTyped
<1>2. /\ connection_list' = [connection_list EXCEPT ![cur] = p] /\ proc' = proc
      /\ Room(Me.sending_buffer) > 0 /\ free_CGI_executor(Me.cgi_executor)
  BY DEF PipeEof, Me
<1>3. /\ p.socket = Me.socket /\ p.cgi_executor = NULL
      /\ p.sending_buffer = Me.sending_buffer /\ p.close_conn = Me.close_conn
      /\ p.receiving_buffer = Me.receiving_buffer /\ p.http_task = new
  BY <1>1 DEF PeerFields
<1>4. /\ TaskTyped(script, new) /\ new.own = Task.own /\ new.parse_buf = Task.parse_buf
      /\ new.state = "FINISHED_STATE"
  BY <1>1 DEF TaskTyped, TaskFields, SendsFile, States, Parsed
<1> HIDE DEF p, new
<1>5. SlotTyped(script, p)
  BY <1>1, <1>3, <1>4 DEF SlotTyped, Owned
<1>6. \A s \in Slot : connection_list'[s] = IF s = cur THEN p ELSE connection_list[s]
  BY <1>1, <1>2
<1>7. ExecTyped' /\ \A x \in ExecAddr : execs'[x].pid = execs[x].pid
  <2>1. Me.cgi_executor \in ExecAddr \cup {NULL}
    BY <1>1 DEF Full, Typed, PointerTyped, Me
  <2> QED
    BY <1>2, <2>1, FreeTyped
<1>8. SlotsTyped' /\ PointerTyped'
  BY <1>3, <1>5, <1>6, <1>7 DEF Full, Typed, SlotsTyped, PointerTyped, Slot
<1>9. Control' /\ ScriptTyped' /\ NetTyped' /\ ProcTyped' /\ RequestTyped' /\ pc' = "recv"
  BY <1>2 DEF GoTo, Full, Typed, Control, ScriptTyped, NetTyped, ProcTyped, RequestTyped
<1>10. Resting'
  BY <1>3, <1>4, <1>6, <1>9 DEF Full, Resting, Rests, Slot
<1>11. ~(Me.socket # NULL /\ SendsFile(Task))
  <2>1. Me.socket # NULL => Rests(Me)
    BY <1>1 DEF Full, Resting, Me
  <2>2. Len(Me.sending_buffer) # BUF_DATA_MAXSIZE
    BY <1>2, StateAssumption DEF Room
  <2> QED
    BY <1>1, <2>1, <2>2 DEF Rests, SendsFile
<1>12. StreamInv'
  BY <1>2, <1>3, <1>11, StreamsStay DEF Me
<1> QED
  BY <1>7, <1>8, <1>9, <1>10, <1>12 DEF Typed

LEMMA CgiReadTyped == ASSUME Full, CgiRead PROVE Typed' /\ Resting' /\ StreamInv'
<1>1. /\ pc = "cgi_read" /\ GoTo("recv")
      /\ UNCHANGED <<request, has_read, has_sent, script, net, backlog, streams>>
  BY DEF CgiRead
<1>2. CASE UNCHANGED <<connection_list, execs, proc>>
  <2>1. Control'
    BY <1>1 DEF GoTo, Full, Typed, Control
  <2> QED
    BY <1>1, <1>2, <2>1, IdleTyped
<1>3. CASE PipeOutput
  BY <1>1, <1>3, PipeOutputTyped
<1>4. CASE PipeEof
  BY <1>1, <1>4, PipeEofTyped
<1> QED
  BY <1>2, <1>3, <1>4 DEF CgiRead, PipeFull

\* What is received is the client's, and fits.
LEMMA RecvTyped == ASSUME Full, Recv PROVE Typed' /\ Resting' /\ StreamInv'
<1>1. /\ pc = "recv" /\ Me.socket # NULL /\ GoTo("send") /\ has_read' \in BOOLEAN
      /\ UNCHANGED <<request, execs, has_sent, script, backlog, proc, streams>>
  BY DEF Recv, NO_SOCKET
<1>2. /\ DOMAIN Me = PeerFields /\ SlotTyped(script, Me)
      /\ cur \in Slot /\ DOMAIN connection_list = Slot
  BY CurrentTyped
<1>3. CASE UNCHANGED <<connection_list, net>>
  <2>1. Control'
    BY <1>1, <1>3 DEF GoTo, Me, Full, Typed, Control
  <2> QED
    BY <1>1, <1>3, <2>1, IdleTyped
<1>4. CASE ReceiveFromPeer
  <2> DEFINE c == Me.socket
             inq == net[c].inq
             old == Me.receiving_buffer
             n == Least(Len(inq), Room(old))
             new == old \o Received
             p == [Me EXCEPT !.receiving_buffer = new]
  <2>1. /\ connection_list' = [connection_list EXCEPT ![cur] = p]
        /\ net' = [net EXCEPT ![c].inq = Drop(inq, Len(Received))]
        /\ Received = Take(inq, n)
    BY <1>4 DEF ReceiveFromPeer, Me, Received
  <2>2. c \in Client
    BY <1>1, <1>2 DEF Full, IInv, SlotInv, Sockets, Me
  <2>3. /\ inq \in Seq(PieceOf(script, c)) /\ Len(inq) <= NetCap
        /\ old \in Seq(PieceOf(script, c)) /\ Len(old) <= BUF_DATA_MAXSIZE
    BY <1>2, <2>2 DEF SlotTyped, Full, Typed, NetTyped
  <2>4. /\ p.socket = Me.socket /\ p.cgi_executor = Me.cgi_executor
        /\ p.sending_buffer = Me.sending_buffer /\ p.close_conn = Me.close_conn
        /\ p.receiving_buffer = new /\ p.http_task = Me.http_task
    BY <1>2 DEF PeerFields
  <2> HIDE DEF c, inq, old, p
  <2>5. n \in 0 .. Len(inq) /\ Len(old) + n <= BUF_DATA_MAXSIZE /\ Len(inq) \in Nat
    BY <2>3, FitType, LenProperties, StateAssumption DEF Room
  <2> HIDE DEF n
  <2>6. /\ Received \in Seq(PieceOf(script, c)) /\ Len(Received) = n
    BY <2>1, <2>3, <2>5, TakeType
  <2>7. /\ Drop(inq, n) \in Seq(PieceOf(script, c)) /\ Len(Drop(inq, n)) <= NetCap
    <3>1. Drop(inq, n) \in Seq(PieceOf(script, c)) /\ Len(Drop(inq, n)) = Len(inq) - n
      BY <2>3, <2>5, DropType
    <3> QED
      BY <2>3, <2>5, <3>1, StateAssumption
  <2>8. new \in Seq(PieceOf(script, c)) /\ Len(new) <= BUF_DATA_MAXSIZE
    BY <2>3, <2>5, <2>6, ConcatProperties
  <2> HIDE DEF new
  <2>9. SlotTyped(script, p)
    BY <1>2, <2>4, <2>8 DEF SlotTyped, Owned, c
  <2>10. NetTyped' /\ \A d \in Client : net'[d].conn = net[d].conn
    <3>1. \A d \in Client :
            /\ net'[d].conn = net[d].conn
            /\ net'[d].inq = IF d = c THEN Drop(inq, n) ELSE net[d].inq
            /\ net'[d].outq = net[d].outq /\ net'[d].next = net[d].next
      BY <2>1, <2>2, <2>6 DEF Full, IInv, SlotInv, Shape, NetFields
    <3> QED
      BY <1>1, <2>7, <3>1 DEF Full, Typed, NetTyped
  <2>11. connection_list'[cur].socket # NULL
    BY <1>1, <1>2, <2>1, <2>4
  <2>12. Control' /\ ProcTyped' /\ pc' # "http"
    BY <1>1, <2>11 DEF GoTo, Full, Typed, Control, ProcTyped
  <2>13. Rests(p)
    BY <1>1, <1>2, <2>4 DEF Full, Resting, Rests, Me
  <2> QED
    BY <1>1, <2>1, <2>4, <2>9, <2>10, <2>12, <2>13, TransferTyped
<1> QED
  BY <1>3, <1>4 DEF Recv

\* What the kernel takes from the sending buffer of a connected slot.
LEMMA TakenType ==
  ASSUME Full, Me.socket # NULL
  PROVE  /\ Taken \in 0 .. Len(Me.sending_buffer)
         /\ Len(net[Me.socket].outq) + Taken <= NetCap
         /\ Drop(Me.sending_buffer, Taken) \in Seq(Piece(script))
         /\ Len(Drop(Me.sending_buffer, Taken)) <= BUF_DATA_MAXSIZE
         /\ net[Me.socket].outq \o Take(Me.sending_buffer, Taken) \in Seq(Piece(script))
         /\ Len(net[Me.socket].outq \o Take(Me.sending_buffer, Taken)) <= NetCap
<1> DEFINE b == Me.sending_buffer
           out == net[Me.socket].outq
<1>1. cur \in Slot /\ SlotTyped(script, Me)
  BY CurrentTyped
<1>2. Me.socket \in Client
  BY <1>1 DEF Full, IInv, SlotInv, Sockets, Me
<1>3. /\ b \in Seq(Piece(script)) /\ Len(b) <= BUF_DATA_MAXSIZE
      /\ out \in Seq(Piece(script)) /\ Len(out) <= NetCap
  BY <1>1, <1>2 DEF SlotTyped, Full, Typed, NetTyped
<1>4. Taken = Least(Len(b), NetCap - Len(out))
  BY DEF Taken
<1> HIDE DEF b, out
<1>5. /\ Taken \in 0 .. Len(b) /\ Len(out) + Taken <= NetCap
      /\ Len(b) \in Nat /\ Len(out) \in Nat
  BY <1>3, <1>4, FitType, LenProperties, StateAssumption
<1>6. Drop(b, Taken) \in Seq(Piece(script)) /\ Len(Drop(b, Taken)) = Len(b) - Taken
  BY <1>3, <1>5, DropType
<1>7. Take(b, Taken) \in Seq(Piece(script)) /\ Len(Take(b, Taken)) = Taken
  BY <1>3, <1>5, TakeType
<1>8. out \o Take(b, Taken) \in Seq(Piece(script)) /\ Len(out \o Take(b, Taken)) <= NetCap
  <2> DEFINE x == Take(b, Taken)
             S == Piece(script)
  <2> HIDE DEF x, S
  <2>1. x \in Seq(S) /\ out \in Seq(S) /\ Len(x) = Taken
    BY <1>3, <1>7 DEF x, S
  <2>2. out \o x \in Seq(S) /\ Len(out \o x) = Len(out) + Len(x)
    BY ONLY <2>1, ConcatProperties
  <2> QED
    BY <1>5, <2>1, <2>2 DEF x, S
<1>9. Len(Drop(b, Taken)) <= BUF_DATA_MAXSIZE
  BY <1>3, <1>5, <1>6, StateAssumption
<1> QED
  BY <1>5, <1>6, <1>8, <1>9 DEF b, out

LEMMA SentCarries == ASSUME Full, Me.socket # NULL PROVE Carries(SentByKernel)
<1>1. CASE SentByKernel = net
  BY <1>1, NetCarries
<1>2. CASE SentByKernel # net
  <2> DEFINE c == Me.socket
             new == net[c].outq \o Take(Me.sending_buffer, Taken)
  <2>1. SentByKernel = [net EXCEPT ![c].outq = new]
    BY <1>2 DEF SentByKernel
  <2>2. new \in Seq(Piece(script)) /\ Len(new) <= NetCap
    BY TakenType
  <2>3. c \in Client
    BY CurrentTyped DEF Full, IInv, SlotInv, Sockets, Me
  <2> HIDE DEF c, new
  <2>4. Carries(net)
    BY NetCarries
  <2> DEFINE k == [net EXCEPT ![c].outq = new]
  <2>5. /\ DOMAIN k = Client
        /\ \A d \in Client :
             /\ DOMAIN k[d] = NetFields /\ k[d].conn = net[d].conn
             /\ k[d].inq = net[d].inq /\ k[d].next = net[d].next
             /\ k[d].outq = IF d = c THEN new ELSE net[d].outq
    BY <2>3, <2>4 DEF Carries, NetFields
  <2> HIDE DEF k
  <2>6. Carries(k)
    BY <2>2, <2>4, <2>5 DEF Carries
  <2> QED
    BY <2>1, <2>6 DEF k
<1> QED
  BY <1>1, <1>2

\* After a send the handler runs, so that a file goes on.
LEMMA SendTyped == ASSUME Full, Send PROVE Typed' /\ Resting' /\ StreamInv'
<1>1. /\ pc = "send" /\ Me.socket # NULL
      /\ UNCHANGED <<request, execs, script, backlog, proc, streams>>
  BY DEF Send, Full, Typed, Control, Me
<1>2. \/ GoTo("http") /\ has_read' \in BOOLEAN /\ has_sent' \in BOOLEAN
      \/ NextSlot /\ ~Sends
  <2>1. Sends \in BOOLEAN /\ has_read \in BOOLEAN
    BY DEF Sends, Full, Typed, Control
  <2> QED
    BY <2>1 DEF Send
<1>3. /\ DOMAIN Me = PeerFields /\ SlotTyped(script, Me)
      /\ cur \in Slot /\ DOMAIN connection_list = Slot
  BY CurrentTyped
<1>4. CASE UNCHANGED <<connection_list, net>>
  <2>1. Control'
    BY <1>1, <1>2, <1>4 DEF GoTo, NextSlot, Me, Full, Typed, Control
  <2> QED
    BY <1>1, <1>4, <2>1, IdleTyped
<1>5. CASE Sends /\ SendToPeer
  <2> DEFINE p == [Me EXCEPT !.sending_buffer = Drop(@, Taken)]
  <2>1. connection_list' = [connection_list EXCEPT ![cur] = p] /\ net' = SentByKernel
    BY <1>5 DEF SendToPeer, Me
  <2>2. /\ p.socket = Me.socket /\ p.cgi_executor = Me.cgi_executor
        /\ p.sending_buffer = Drop(Me.sending_buffer, Taken) /\ p.close_conn = Me.close_conn
        /\ p.receiving_buffer = Me.receiving_buffer /\ p.http_task = Me.http_task
    BY <1>3 DEF PeerFields
  <2> HIDE DEF p
  <2>3. SlotTyped(script, p)
    BY <1>1, <1>3, <2>2, TakenType DEF SlotTyped, Owned
  <2>4. Carries(net')
    BY <1>1, <2>1, SentCarries
  <2>5. NetTyped' /\ \A c \in Client : net'[c].conn = net[c].conn
    BY <1>1, <2>4 DEF Carries, NetTyped
  <2>6. connection_list'[cur].socket # NULL
    BY <1>1, <1>3, <2>1, <2>2
  <2>7. Control' /\ ProcTyped' /\ pc' = "http" /\ cur' = cur
    BY <1>1, <1>2, <1>5, <2>6 DEF GoTo, Full, Typed, Control, ProcTyped
  <2> QED
    BY <1>1, <2>1, <2>2, <2>3, <2>5, <2>7, TransferTyped
<1> QED
  BY <1>4, <1>5 DEF Send

LEMMA CloseSlotTyped ==
  ASSUME Full, NEW k, Carries(k), CloseSlot(k) PROVE Typed' /\ Resting' /\ StreamInv'
<1>1. /\ close_client_connection(cur, k) /\ NextSlot
      /\ UNCHANGED <<request, script, backlog, proc, streams>>
  BY DEF CloseSlot
<1>2. Control' /\ RequestTyped' /\ pc' # "http"
  BY <1>1 DEF NextSlot, Full, Typed, Control, RequestTyped
<1> QED
  BY <1>1, <1>2, CloseTyped

LEMMA ServerTyped == ASSUME Full, ServerStep PROVE Typed' /\ Resting' /\ StreamInv'
<1>1. CASE Select
  <2>1. Control'
    BY <1>1 DEF Select, Full, Typed, Control
  <2> QED
    BY <1>1, <2>1, IdleTyped DEF Select, peers, world
<1>2. CASE SelectDies
  BY <1>2, DieTyped DEF SelectDies
<1>3. CASE NoCgi
  <2>1. Control'
    BY <1>3 DEF NoCgi, GoTo, Full, Typed, Control
  <2> QED
    BY <1>3, <2>1, IdleTyped DEF NoCgi, peers, world
<1>4. CASE CgiDies
  BY <1>4, DieTyped DEF CgiDies
<1>5. CASE SkipSlot
  <2>1. Control'
    BY <1>5 DEF SkipSlot, NextSlot, Full, Typed, Control
  <2> QED
    BY <1>5, <2>1, IdleTyped DEF SkipSlot, peers, world
<1>6. CASE RecvCloses
  BY <1>6, NetCarries, CloseSlotTyped DEF RecvCloses
<1>7. CASE SendCloses
  <2>1. Me.socket # NULL /\ CloseSlot(SentByKernel)
    BY <1>7 DEF SendCloses, Full, Typed, Control, Me
  <2> QED
    BY <2>1, SentCarries, CloseSlotTyped
<1> QED
  BY <1>1, <1>2, <1>3, <1>4, <1>5, <1>6, <1>7, AcceptTyped, CgiWriteTyped, CgiReadTyped,
     RecvTyped, SendTyped, HandlerStepTyped DEF ServerStep
-----------------------------------------------------------------------------
(* Signals and the environment.                                            *)

\* Every connection is closed, and every stream with the process.
LEMMA ShutdownTyped == ASSUME Full, Shutdown PROVE Typed' /\ Resting' /\ StreamInv'
<1> DEFINE gone == {s \in Slot : Peer(s).socket # NO_SOCKET}
<1>1. /\ connection_list' =
           [s \in Slot |-> IF s \in gone THEN Vacated(Peer(s)) ELSE Peer(s)]
      /\ execs' = [a \in ExecAddr |->
                     IF \E s \in gone : Peer(s).cgi_executor = a
                       THEN [execs[a] EXCEPT !.live = FALSE, !.cgi_buffer = <<>>] ELSE execs[a]]
      /\ net' = [c \in Client |->
                   IF \E s \in gone : Peer(s).socket = c
                     THEN [net[c] EXCEPT !.conn = "closed", !.inq = <<>>]
                   ELSE IF Waiting(c) THEN [net[c] EXCEPT !.conn = "refused", !.inq = <<>>]
                   ELSE net[c]]
      /\ streams' = {} /\ pc' = "exit" /\ has_read' = FALSE /\ has_sent' = FALSE
      /\ UNCHANGED <<request, script, proc>>
  BY DEF Shutdown, ShutdownOf
<1> HIDE DEF gone
<1>2. ASSUME NEW s \in Slot
      PROVE  /\ SlotTyped(script, connection_list'[s]) /\ connection_list'[s].socket = NULL
             /\ connection_list'[s].cgi_executor = connection_list[s].cgi_executor
  <2>1. DOMAIN Peer(s) = PeerFields /\ SlotTyped(script, Peer(s))
    BY DEF Full, Typed, SlotsTyped, IInv, SlotInv, Shape, Peer
  <2>2. CASE s \in gone
    BY <1>1, <2>1, <2>2, VacatedTyped DEF Peer
  <2>3. CASE s \notin gone
    BY <1>1, <2>1, <2>3 DEF gone, NO_SOCKET, Peer
  <2> QED
    BY <2>2, <2>3
<1>3. SlotsTyped'
  BY <1>1, <1>2 DEF SlotsTyped, Slot
<1>4. ExecTyped' /\ \A a \in ExecAddr : execs'[a].pid = execs[a].pid
  <2>1. ASSUME NEW a \in ExecAddr
        PROVE  /\ DOMAIN execs'[a] = ExecFields /\ execs'[a].pid = execs[a].pid
               /\ execs'[a].pid \in Asked(script) \cup {None}
               /\ execs'[a].live => execs'[a].pid \in Asked(script)
    <3>1. /\ DOMAIN execs[a] = ExecFields
          /\ execs[a].pid \in Asked(script) \cup {None}
          /\ execs[a].live => execs[a].pid \in Asked(script)
      BY DEF Full, Typed, ExecTyped
    <3>2. CASE execs'[a] = execs[a]
      BY <3>1, <3>2
    <3>3. CASE execs'[a] = [execs[a] EXCEPT !.live = FALSE, !.cgi_buffer = <<>>]
      BY <3>1, <3>3 DEF ExecFields
    <3> QED
      BY <1>1, <3>2, <3>3
  <2>2. DOMAIN execs' = ExecAddr /\ script' = script
    BY <1>1
  <2> QED
    BY <2>1, <2>2 DEF ExecTyped
<1>5. PointerTyped'
  <2>1. \A s \in Slot : \/ connection_list[s].cgi_executor = NULL
                         \/ /\ connection_list[s].cgi_executor \in ExecAddr
                            /\ execs[connection_list[s].cgi_executor].pid \in Asked(script)
    BY DEF Full, Typed, PointerTyped
  <2>2. script' = script
    BY <1>1
  <2> QED
    BY <1>2, <1>4, <2>1, <2>2 DEF PointerTyped, Slot
<1>6. NetTyped'
  <2> SUFFICES ASSUME NEW c \in Client
               PROVE  /\ net'[c].inq \in Seq(PieceOf(script, c)) /\ Len(net'[c].inq) <= NetCap
                      /\ net'[c].outq \in Seq(Piece(script)) /\ Len(net'[c].outq) <= NetCap
                      /\ net'[c].next \in (Nat \ {0}) \X Nat
    BY <1>1 DEF NetTyped
  <2>1. DOMAIN net[c] = NetFields
    BY DEF Full, IInv, SlotInv, Shape
  <2>2. /\ net'[c].inq = net[c].inq \/ net'[c].inq = <<>>
        /\ net'[c].outq = net[c].outq /\ net'[c].next = net[c].next
    BY <1>1, <2>1 DEF NetFields
  <2>3. CASE net'[c].inq = <<>>
    <3>1. \A S : <<>> \in Seq(S) /\ Len(<<>>) = 0
      BY NoPieces
    <3>2. net'[c].inq \in Seq(PieceOf(script, c)) /\ Len(net'[c].inq) = 0
      BY <2>3, <3>1, Zenon
    <3> QED
      BY <2>2, <3>2, StateAssumption DEF Full, Typed, NetTyped
  <2>4. CASE net'[c].inq = net[c].inq
    BY <2>2, <2>4 DEF Full, Typed, NetTyped
  <2> QED
    BY <2>2, <2>3, <2>4
<1>7. Control' /\ ScriptTyped' /\ ProcTyped' /\ RequestTyped'
  BY <1>1 DEF Full, Typed, Control, ScriptTyped, ProcTyped, RequestTyped
<1>8. Resting' /\ StreamInv'
  BY <1>1, <1>2 DEF Resting, StreamInv, Slot
<1> QED
  BY <1>3, <1>4, <1>5, <1>6, <1>7, <1>8 DEF Typed

\* A step of a client or of a child, which only the kernel sees.
LEMMA EnvironmentTyped ==
  ASSUME Full, KernelTurn, UnchangedServer, NetTyped', ProcTyped',
         \A c \in Client : net'[c].conn = net[c].conn
  PROVE  Typed' /\ Resting' /\ StreamInv'
<1>1. /\ UNCHANGED <<connection_list, request, execs, script, streams>>
      /\ UNCHANGED loop /\ pc # "http"
  BY DEF UnchangedServer, KernelTurn, peers
<1>2. Control' /\ pc' # "http"
  BY <1>1 DEF loop, Full, Typed, Control
<1> QED
  BY <1>1, <1>2, KernelTyped

\* What a client sends is of its own request, and follows what it has sent.
LEMMA ClientSendTyped ==
  ASSUME Full, NEW c \in Client, ClientSend(c) PROVE Typed' /\ Resting' /\ StreamInv'
<1> DEFINE k == net[c].next[1]
           j == net[c].next[2]
           tok == RequestToken(c, k, j)
           nxt == IF j < 2 + BodyLen(script[c][k]) THEN <<k, j + 1>> ELSE <<k + 1, 1>>
           new == Append(net[c].inq, tok)
<1>1. /\ KernelTurn /\ UnchangedServer /\ UNCHANGED proc
      /\ HasMore(c) /\ Len(net[c].inq) < NetCap
      /\ net' = [net EXCEPT ![c].inq = Append(@, tok), ![c].next = nxt]
  BY DEF ClientSend
<1>2. /\ net[c].inq \in Seq(PieceOf(script, c)) /\ net[c].next \in (Nat \ {0}) \X Nat
      /\ DOMAIN net = Client /\ \A d \in Client : DOMAIN net[d] = NetFields
      /\ script' = script
  BY <1>1 DEF Full, Typed, NetTyped, IInv, SlotInv, Shape, UnchangedServer
<1>3. k \in Nat \ {0} /\ j \in Nat
  BY <1>2
<1>4. tok \in PieceOf(script, c)
  <2>1. <<c, k>> \in Asked(script)
    <3>1. script[c] \in Seq(Request)
      BY DEF Full, Typed, ScriptTyped
    <3>2. k \in 1 .. Len(script[c])
      BY <1>1, <1>3, <3>1, LenProperties DEF HasMore
    <3> QED
      BY <3>2 DEF Asked
  <2> HIDE DEF k, j
  <2> QED
    BY <1>3, <2>1 DEF RequestToken, Token, PieceOf, Piece
<1>5. nxt \in (Nat \ {0}) \X Nat
  <2> HIDE DEF k, j
  <2> QED
    BY <1>3
<1> HIDE DEF k, j, tok, nxt
<1>6. new \in Seq(PieceOf(script, c)) /\ Len(new) <= NetCap
  <2>1. new \in Seq(PieceOf(script, c)) /\ Len(new) = Len(net[c].inq) + 1
    BY <1>2, <1>4, AppendProperties
  <2>2. Len(net[c].inq) \in Nat
    BY <1>2, LenProperties
  <2> QED
    BY <1>1, <2>1, <2>2, StateAssumption
<1> HIDE DEF new
<1>7. \A d \in Client :
        /\ net'[d].conn = net[d].conn /\ net'[d].outq = net[d].outq
        /\ net'[d].inq = IF d = c THEN new ELSE net[d].inq
        /\ net'[d].next = IF d = c THEN nxt ELSE net[d].next
  BY <1>1, <1>2 DEF NetFields, new
<1>8. NetTyped' /\ ProcTyped'
  <2>1. ASSUME NEW d \in Client
        PROVE  /\ net'[d].inq \in Seq(PieceOf(script, d)) /\ Len(net'[d].inq) <= NetCap
               /\ net'[d].outq \in Seq(Piece(script)) /\ Len(net'[d].outq) <= NetCap
               /\ net'[d].next \in (Nat \ {0}) \X Nat
    <3>1. CASE d = c
      BY <1>5, <1>6, <1>7, <3>1 DEF Full, Typed, NetTyped
    <3>2. CASE d # c
      BY <1>7, <3>2 DEF Full, Typed, NetTyped
    <3> QED
      BY <3>1, <3>2
  <2> QED
    BY <1>1, <1>2, <2>1 DEF Full, Typed, NetTyped, ProcTyped
<1> QED
  BY <1>1, <1>7, <1>8, EnvironmentTyped

\* What the other steps of a client do to its connection.
LEMMA ClientStepTyped ==
  ASSUME Full, NEW c \in Client,
         Connect(c) \/ ClientRead(c) \/ ClientShutdown(c) \/ ClientVanish(c)
  PROVE  Typed' /\ Resting' /\ StreamInv'
<1>1. /\ KernelTurn /\ UnchangedServer /\ UNCHANGED proc /\ script' = script
      /\ DOMAIN net = Client /\ DOMAIN net[c] = NetFields
  BY DEF Connect, ClientRead, ClientShutdown, ClientVanish, UnchangedServer,
         Full, IInv, SlotInv, Shape
<1>2. /\ net'[c].conn = net[c].conn /\ net'[c].next = net[c].next
      /\ net'[c].inq \in {net[c].inq, <<>>} /\ net'[c].outq \in {net[c].outq, <<>>}
      /\ \A d \in Client : d # c => net'[d] = net[d]
  <2>1. CASE Connect(c)
    BY <1>1, <2>1 DEF Connect, NetFields
  <2>2. CASE ClientRead(c)
    BY <1>1, <2>2 DEF ClientRead, NetFields
  <2>3. CASE ClientShutdown(c)
    BY <1>1, <2>3 DEF ClientShutdown, NetFields
  <2>4. CASE ClientVanish(c)
    <3>1. PICK q \in {net[c].inq, <<>>} :
            net' = [net EXCEPT ![c].st = "gone", ![c].inq = q, ![c].outq = <<>>]
      BY <2>4 DEF ClientVanish
    <3> QED
      BY <1>1, <3>1 DEF NetFields
  <2> QED
    BY <2>1, <2>2, <2>3, <2>4
<1>3. \A S : <<>> \in Seq(S) /\ Len(<<>>) = 0
  BY NoPieces
<1>4. net'[c].inq \in Seq(PieceOf(script, c)) /\ Len(net'[c].inq) <= NetCap
  <2>1. CASE net'[c].inq = <<>>
    <3>1. net'[c].inq \in Seq(PieceOf(script, c)) /\ Len(net'[c].inq) = 0
      BY <1>3, <2>1, Zenon
    <3> QED
      BY <3>1, StateAssumption
  <2>2. CASE net'[c].inq = net[c].inq
    BY <2>2 DEF Full, Typed, NetTyped
  <2> QED
    BY <1>2, <2>1, <2>2
<1>5. net'[c].outq \in Seq(Piece(script)) /\ Len(net'[c].outq) <= NetCap
  <2>1. CASE net'[c].outq = <<>>
    <3>1. net'[c].outq \in Seq(Piece(script)) /\ Len(net'[c].outq) = 0
      BY <1>3, <2>1, Zenon
    <3> QED
      BY <3>1, StateAssumption
  <2>2. CASE net'[c].outq = net[c].outq
    BY <2>2 DEF Full, Typed, NetTyped
  <2> QED
    BY <1>2, <2>1, <2>2
<1>6. NetTyped' /\ ProcTyped' /\ \A d \in Client : net'[d].conn = net[d].conn
  BY <1>1, <1>2, <1>4, <1>5 DEF Full, Typed, NetTyped, ProcTyped
<1> QED
  BY <1>1, <1>6, EnvironmentTyped

\* A child writes of the request that it answers.
LEMMA ChildTyped ==
  ASSUME Full, NEW p \in Asked(script),
         ChildRead(p) \/ ChildWrite(p) \/ ChildExit(p) \/ ChildFails(p)
  PROVE  Typed' /\ Resting' /\ StreamInv'
<1>1. KernelTurn /\ UnchangedServer /\ net' = net /\ script' = script
  BY DEF ChildRead, ChildWrite, ChildExit, ChildFails, UnchangedServer
<1>2. /\ DOMAIN proc = Asked(script) /\ DOMAIN proc[p] = ProcFields
      /\ proc[p].stdout \in Seq(Piece(script)) /\ proc[p].wrote \in Nat
      /\ proc[p].st # "none" => proc[p].env \in Asked(script)
  BY DEF Full, Typed, ProcTyped
<1>3. /\ DOMAIN proc' = DOMAIN proc /\ \A x \in Asked(script) : x # p => proc'[x] = proc[x]
      /\ DOMAIN proc'[p] = ProcFields /\ proc'[p].env = proc[p].env
      /\ proc'[p].stdout \in Seq(Piece(script)) /\ proc'[p].wrote \in Nat
      /\ proc[p].st = "run"
  <2>1. CASE ChildRead(p)
    BY <1>2, <2>1 DEF ChildRead, ProcFields
  <2>2. CASE ChildWrite(p)
    <3> DEFINE tok == Token(proc[p].env, "cgi", proc[p].wrote + 1)
               new == Append(proc[p].stdout, tok)
    <3>1. /\ proc[p].st = "run"
          /\ proc' = [proc EXCEPT ![p].wrote = @ + 1, ![p].stdout = Append(@, tok)]
      BY <2>2 DEF ChildWrite
    <3>2. tok \in Piece(script)
      BY <1>2, <3>1 DEF Token, Piece
    <3> HIDE DEF tok
    <3>3. new \in Seq(Piece(script))
      BY <1>2, <3>2, AppendProperties
    <3>4. /\ DOMAIN proc' = DOMAIN proc /\ \A x \in Asked(script) : x # p => proc'[x] = proc[x]
          /\ DOMAIN proc'[p] = ProcFields /\ proc'[p].env = proc[p].env
          /\ proc'[p].stdout = new /\ proc'[p].wrote = proc[p].wrote + 1
      BY <1>2, <3>1 DEF ProcFields
    <3> QED
      BY <1>2, <3>1, <3>3, <3>4
  <2>3. CASE ChildExit(p)
    BY <1>2, <2>3 DEF ChildExit, ProcFields
  <2>4. CASE ChildFails(p)
    BY <1>2, <2>4 DEF ChildFails, ProcFields
  <2> QED
    BY <2>1, <2>2, <2>3, <2>4
<1>4. ProcTyped' /\ NetTyped'
  BY <1>1, <1>2, <1>3 DEF Full, Typed, ProcTyped, NetTyped
<1> QED
  BY <1>1, <1>4, EnvironmentTyped
-----------------------------------------------------------------------------
(* The theorems.                                                           *)

LEMMA InitFull == Init => Full
<1> SUFFICES ASSUME Init PROVE Full
  OBVIOUS
<1>1. script \in [Client -> Seq(Request)]
  BY StateAssumption DEF Init
<1>2. \A S : <<>> \in Seq(S) /\ Len(<<>>) = 0
  BY NoPieces
<1>3. TaskTyped(script, FreshTask) /\ FreshTask.own = None
  BY <1>2, StateAssumption DEF TaskTyped, FreshTask, SendsFile, States, Parsed
<1>4. SlotsTyped
  <2>1. SlotTyped(script, FreshPeer)
    BY <1>2, <1>3, StateAssumption DEF SlotTyped, Owned, FreshPeer, NO_SOCKET
  <2> QED
    BY <2>1 DEF Init, SlotsTyped
<1>5. ExecTyped /\ PointerTyped /\ RequestTyped
  BY DEF Init, ExecTyped, ExecFields, FreeExecutor, PointerTyped, FreshPeer, RequestTyped
<1>6. ProcTyped
  <2>1. proc = [p \in Asked(script) |->
                  [st |-> "none", env |-> None, stdin |-> <<>>, stdout |-> <<>>,
                   read |-> <<>>, wrote |-> 0, holds |-> {}]]
    BY DEF Init, Pids, Asked
  <2> QED
    BY <1>2, <2>1 DEF ProcTyped, ProcFields
<1>7. NetTyped
  <2>1. \A c \in Client : net[c].inq = <<>> /\ net[c].outq = <<>> /\ net[c].next = <<1, 1>>
    BY DEF Init
  <2>2. \A c \in Client : /\ net[c].inq \in Seq(PieceOf(script, c)) /\ Len(net[c].inq) = 0
                          /\ net[c].outq \in Seq(Piece(script)) /\ Len(net[c].outq) = 0
    <3> SUFFICES ASSUME NEW c \in Client
                 PROVE  /\ net[c].inq \in Seq(PieceOf(script, c)) /\ Len(net[c].inq) = 0
                        /\ net[c].outq \in Seq(Piece(script)) /\ Len(net[c].outq) = 0
      OBVIOUS
    <3>1. net[c].inq = <<>> /\ net[c].outq = <<>>
      BY <2>1
    <3> QED
      BY <1>2, <3>1, Zenon
  <2>3. <<1, 1>> \in (Nat \ {0}) \X Nat
    OBVIOUS
  <2>4. \A c \in Client : net[c].next \in (Nat \ {0}) \X Nat
    BY <2>1, <2>3, Zenon
  <2> QED
    BY <2>2, <2>4, StateAssumption DEF NetTyped
<1>8. Control /\ Resting /\ StreamInv
  BY DEF Init, Control, Resting, FreshPeer, NO_SOCKET, StreamInv
<1> QED
  BY <1>1, <1>4, <1>5, <1>6, <1>7, <1>8, InitIInv DEF Full, Typed, ScriptTyped

LEMMA NextFull == Full /\ [Next]_vars => Full'
<1> SUFFICES ASSUME Full, [Next]_vars PROVE Full'
  OBVIOUS
<1>1. IInv'
  BY NextIInv DEF Full
<1>2. CASE ServerStep
  BY <1>1, <1>2, ServerTyped DEF Full
<1>3. CASE Interrupt \/ SelectFails
  BY <1>1, <1>3, ShutdownTyped DEF Full, Interrupt, SelectFails
<1>4. CASE Environment
  <2>1. Pids = Asked(script)
    BY DEF Pids, Asked
  <2> QED
    BY <1>1, <1>4, <2>1, ClientSendTyped, ClientStepTyped, ChildTyped DEF Full, Environment
<1>5. CASE UNCHANGED vars
  BY <1>5 DEF vars, Full, IInv, SlotInv, Shape, Sockets, BacklogInv, AcceptInv,
     SlotsMatchConnections, Peer, TaskInv, Typed, Control, ScriptTyped, SlotsTyped,
     NetTyped, ExecTyped, PointerTyped, ProcTyped, RequestTyped, Resting,
     StreamInv, StreamOK, Sender, Slot
<1> QED
  BY <1>2, <1>3, <1>4, <1>5 DEF Next

\* The inductive invariant holds in every behaviour.
THEOREM FullHolds == Spec => []Full
<1>1. Init => Full
  BY InitFull
<1>2. Full /\ [Next]_vars => Full'
  BY NextFull
<1> QED
  BY <1>1, <1>2, PTL DEF Spec

\* The slots, queues and executors keep the shape that the code gives them, and no
\* buffer of a peer (cbuf_t, parse_buf, response_buf) exceeds its capacity, whatever
\* the clients ask and the faults do.
THEOREM TypeCorrect == Spec => []TypeOK
<1>1. Full => TypeOK
  BY FullImplies
<1> QED
  BY <1>1, FullHolds, PTL

\* fopen and fclose pair up but for HEAD requests and connections that end first:
\* no interleaving of the slots, of a child left over from the last client of a slot
\* or of a signal makes the server forget a stream.
THEOREM StreamsHold == Spec => []StreamsAccounted
<1>1. Full => StreamsAccounted
  BY FullImplies
<1> QED
  BY <1>1, FullHolds, PTL
=============================================================================
