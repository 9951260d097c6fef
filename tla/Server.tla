------------------------------- MODULE Server -------------------------------
(***************************************************************************)
(* server.c: the event loop of main, with the clients, the kernel and the  *)
(* CGI children around it.  One pass of the loop is a select, at most one  *)
(* accept, and for each slot in turn the two CGI pipes, recv, send and     *)
(* handle_http.                                                            *)
(***************************************************************************)
EXTENDS Http

Pids == UNION {{<<c, k>> : k \in 1 .. Len(script[c])} : c \in Client}

Init ==
  /\ script \in Scripts
  /\ connection_list = [s \in Slot |-> FreshPeer]
  /\ request = NULL
  /\ execs = [a \in ExecAddr |-> FreeExecutor]
  /\ pc = "select" /\ cur = 1
  /\ rfds = {} /\ wfds = {}
  /\ has_read = FALSE /\ has_sent = FALSE
  /\ net = [c \in Client |->
              [st |-> "off", conn |-> "none", inq |-> <<>>, outq |-> <<>>,
               got |-> <<>>, next |-> <<1, 1>>]]
  /\ backlog = <<>>
  /\ proc = [p \in Pids |->
               [st |-> "none", env |-> None, stdin |-> <<>>, stdout |-> <<>>,
                read |-> <<>>, wrote |-> 0, holds |-> {}]]
  /\ streams = {}
-----------------------------------------------------------------------------
(* The event loop.                                                         *)

Readable(c) == net[c].inq # <<>> \/ net[c].st \in {"shut", "gone"}
Writable(c) == Len(net[c].outq) < NetCap \/ net[c].st = "gone"

WithChild == {s \in Connected : Peer(s).cgi_executor # NULL}
ChildOf(s) == execs[Peer(s).cgi_executor].pid

ReadyToRead ==
  (IF backlog = <<>> THEN {} ELSE {ListenFd})
  \cup {SockFd(Peer(s).socket) : s \in {t \in Connected : Readable(Peer(t).socket)}}
  \cup {StdoutFd(ChildOf(s)) :
          s \in {t \in WithChild : \/ proc[ChildOf(t)].stdout # <<>>
                                   \/ proc[ChildOf(t)].st = "done"}}

\* A pipe whose reader is gone counts as writable; the pipe is never full,
\* since it holds 64 KiB and gets at most one cgi_buffer of 8 KiB.
ReadyToWrite ==
  {SockFd(Peer(s).socket) : s \in {t \in Connected : Writable(Peer(t).socket)}}
  \cup {StdinFd(ChildOf(s)) : s \in WithChild}

\* build_fd_sets and select, which waits until some descriptor is ready.
Select ==
  /\ pc = "select"
  /\ ReadyToRead \cup ReadyToWrite # {}
  /\ rfds' = ReadyToRead
  /\ wfds' = ReadyToWrite
  /\ pc' = "accept"
  /\ UNCHANGED <<peers, cur, has_read, has_sent, world>>

\* main looks for the highest descriptor through every cgi_executor.
SelectDies ==
  /\ pc = "select"
  /\ ReadyToRead \cup ReadyToWrite # {}
  /\ \E s \in Slot : Dangling(Peer(s).cgi_executor)
  /\ Die

Accept ==
  /\ pc = "accept"
  /\ IF ListenFd \in rfds THEN handle_new_connection
     ELSE UNCHANGED <<connection_list, net, backlog>>
  /\ GoTo("cgi_write")
  /\ UNCHANGED <<request, execs, has_read, has_sent, script, proc, streams>>

\* The slot has no child.
NoCgi ==
  /\ pc = "cgi_write"
  /\ Me.cgi_executor = NULL
  /\ GoTo("recv")
  /\ UNCHANGED <<peers, has_read, has_sent, world>>

CgiWrite ==
  /\ pc = "cgi_write"
  /\ Me.cgi_executor # NULL
  /\ IF StdinFd(Executor.pid) \notin wfds THEN UNCHANGED <<connection_list, execs, net, proc>>
     ELSE \/ SendToCGI /\ UNCHANGED <<connection_list, net>>
          \/ SendToCGIFails /\ close_client_connection(cur, net) /\ UNCHANGED proc
  /\ GoTo("cgi_read")
  /\ UNCHANGED <<request, has_read, has_sent, script, backlog, streams>>

CgiRead ==
  /\ pc = "cgi_read"
  /\ IF StdoutFd(Executor.pid) \notin rfds THEN UNCHANGED <<connection_list, execs, proc>>
     ELSE PipeFull \/ PipeOutput \/ PipeEof
  /\ GoTo("recv")
  /\ UNCHANGED <<request, has_read, has_sent, script, net, backlog, streams>>

\* The executor of the slot is freed when main reads it.
CgiDies ==
  /\ pc \in {"cgi_write", "cgi_read"}
  /\ Dangling(Me.cgi_executor)
  /\ Die

SkipSlot ==
  /\ pc = "recv"
  /\ Me.socket = NO_SOCKET
  /\ NextSlot
  /\ UNCHANGED <<peers, world>>

CloseSlot(k) ==
  /\ close_client_connection(cur, k)
  /\ NextSlot
  /\ UNCHANGED <<request, script, backlog, proc, streams>>

\* Slip: bytes that are left in the receiving buffer do not wake the handler.
RecvForgetsRest ==
  /\ pc = "recv"
  /\ Me.socket # NO_SOCKET
  /\ IF SockFd(Me.socket) \in rfds THEN ~ReceiveFails /\ ReceiveFromPeer
     ELSE UNCHANGED <<connection_list, net>>
  /\ has_read' = (SockFd(Me.socket) \in rfds)
  /\ GoTo("send")
  /\ UNCHANGED <<request, execs, has_sent, script, backlog, proc, streams>>

Recv ==
  /\ pc = "recv"
  /\ Me.socket # NO_SOCKET
  /\ IF SockFd(Me.socket) \in rfds THEN ~ReceiveFails /\ ReceiveFromPeer
     ELSE UNCHANGED <<connection_list, net>>
  /\ has_read' = (SockFd(Me.socket) \in rfds \/ Me.receiving_buffer # <<>>)
  /\ GoTo("send")
  /\ UNCHANGED <<request, execs, has_sent, script, backlog, proc, streams>>

RecvCloses ==
  /\ pc = "recv"
  /\ Me.socket # NO_SOCKET
  /\ SockFd(Me.socket) \in rfds
  /\ ReceiveFails
  /\ CloseSlot(net)

\* send, then handle_http if something was read or sent.
Sends == SockFd(Me.socket) \in wfds /\ Me.sending_buffer # <<>>

Send ==
  /\ pc = "send"
  /\ ~(SockFd(Me.socket) \in wfds /\ SendSaysClose)
  /\ IF Sends THEN SendToPeer ELSE UNCHANGED <<connection_list, net>>
  /\ IF has_read \/ Sends
       THEN GoTo("http") /\ has_sent' = Sends /\ UNCHANGED has_read
       ELSE NextSlot
  /\ UNCHANGED <<request, execs, script, backlog, proc, streams>>

SendCloses ==
  /\ pc = "send"
  /\ SockFd(Me.socket) \in wfds
  /\ SendSaysClose
  /\ CloseSlot(SentByKernel)

Waiting(c) == \E i \in 1 .. Len(backlog) : backlog[i] = c

\* server_shutdown_properly on the slots S: the listening socket is closed,
\* then the slots that have a client; exit forgets the rest.
ShutdownOf(S) ==
  LET gone == {s \in S : Peer(s).socket # NO_SOCKET}
  IN /\ connection_list' =
          [s \in Slot |-> IF s \in gone THEN Vacated(Peer(s)) ELSE Peer(s)]
     /\ execs' =
          [a \in ExecAddr |->
             IF \E s \in gone : Peer(s).cgi_executor = a
               THEN [execs[a] EXCEPT !.live = FALSE, !.cgi_buffer = <<>>] ELSE execs[a]]
     /\ net' =
          [c \in Client |->
             IF \E s \in gone : Peer(s).socket = c
               THEN [net[c] EXCEPT !.conn = "closed", !.inq = <<>>]
             ELSE IF Waiting(c) THEN [net[c] EXCEPT !.conn = "refused", !.inq = <<>>]
             ELSE net[c]]
     /\ backlog' = <<>> /\ streams' = {}
     /\ pc' = "exit" /\ cur' = 1 /\ rfds' = {} /\ wfds' = {}
     /\ has_read' = FALSE /\ has_sent' = FALSE
     /\ UNCHANGED <<request, script, proc>>

\* Slip: the first slot is not looked at.
ShutdownButFirst == ShutdownOf(Slot \ {1})

Shutdown == ShutdownOf(Slot)

\* The handler of SIGINT runs between any two steps and does not return.
Interrupt ==
  /\ "sigint" \in Faults
  /\ pc \notin {"dead", "exit"}
  /\ Shutdown

\* SIGTERM has a handler that does nothing: it only shows when it makes a
\* blocked select return -1.
SelectFails ==
  /\ "sigterm" \in Faults
  /\ pc = "select"
  /\ ReadyToRead \cup ReadyToWrite = {}
  /\ Shutdown

ServerStep ==
  \/ Select \/ SelectDies \/ Accept
  \/ NoCgi \/ CgiWrite \/ CgiRead \/ CgiDies
  \/ SkipSlot \/ Recv \/ RecvCloses \/ Send \/ SendCloses
  \/ Handler
-----------------------------------------------------------------------------
(* The environment.  It touches the kernel's state only, which the server  *)
(* sees in its system calls: a step of the environment that falls between  *)
(* two of them is the same as one just before the second.                  *)

KernelTurn ==
  \/ pc = "select"
  \/ pc = "accept" /\ ListenFd \in rfds
  \/ pc = "cgi_write" /\ Me.cgi_executor # NULL
  \/ pc = "cgi_read"
  \/ pc = "recv" /\ Me.socket # NO_SOCKET /\ SockFd(Me.socket) \in rfds
  \/ pc = "send" /\ SockFd(Me.socket) \in wfds /\ Me.sending_buffer # <<>>
UnchangedServer == UNCHANGED <<peers, loop, script, streams>>

\* A script asked with HEAD prints its header only.
OutputLen(q) == IF q.method = "HEAD" THEN Least(1, CgiLen) ELSE CgiLen

\* The requests on which the server closes the connection at once.
Refused(q) ==
  \/ q.method = "MALFORMED"
  \/ q.method = "GET" /\ q.target = "dir"

\* The answer to request r for a path that is no script.
FileAnswer(r) ==
  LET q == RequestOf(r)
      status(code) == <<Token(r, "head", code), Token(r, "end", code)>>
      file == [i \in 1 .. FileLen |-> Token(r, "body", i)]
  IN CASE q.target = "missing" -> status(404)
       [] q.target = "noperm" -> status(200) \o status(500)
       [] q.target = "dir" \/ (q.target = "file" /\ q.method = "HEAD") -> status(200)
       [] OTHER -> status(200) \o file \o <<Token(r, "eof", 0)>>

\* The answer that the client of request r waits for.
Answer(r) ==
  LET q == RequestOf(r)
      status(code) == <<Token(r, "head", code), Token(r, "end", code)>>
      valid == q.method \in {"GET", "HEAD"} \/ (q.method = "POST" /\ HasLength(q))
  IN CASE q.method = "MALFORMED" -> <<>>
       [] q.method = "OTHER" -> status(501)
       [] q.method = "POST" /\ ~HasLength(q) -> status(411)
       [] valid /\ q.target = "cgi" -> [i \in 1 .. OutputLen(q) |-> Token(r, "cgi", i)]
       [] valid /\ q.target # "cgi" /\ q.method = "POST" -> <<Token(r, "head", 200)>>
       [] OTHER -> FileAnswer(r)

Answered(r) ==
  /\ Answer(r) # <<>>
  /\ \E i \in 1 .. Len(net[r[1]].got) :
       net[r[1]].got[i] = Answer(r)[Len(Answer(r))]

HasMore(c) == net[c].next[1] <= Len(script[c])

\* The j-th token that client c sends for its k-th request.
RequestToken(c, k, j) ==
  LET r == <<c, k>> IN
  CASE j = 1 -> Token(r, "head", 0)
    [] j = 2 -> Token(r, "end", 0)
    [] OTHER -> Token(r, "body", j - 2)

Connect(c) ==
  /\ KernelTurn
  /\ net[c].st = "off" /\ script[c] # <<>>
  /\ net' = [net EXCEPT ![c].st = "on"]
  /\ backlog' = Append(backlog, c)
  /\ UnchangedServer /\ UNCHANGED proc

ClientSend(c) ==
  /\ KernelTurn
  /\ net[c].st = "on" /\ net[c].conn \in {"none", "open"}
  /\ HasMore(c)
  /\ Len(net[c].inq) < NetCap
  /\ LET k == net[c].next[1]
         j == net[c].next[2]
     IN /\ ~Pipelined /\ k > 1 /\ j = 1 => Answered(<<c, k - 1>>)
        /\ net' = [net EXCEPT
             ![c].inq = Append(@, RequestToken(c, k, j)),
             ![c].next = IF j < 2 + BodyLen(script[c][k])
                           THEN <<k, j + 1>> ELSE <<k + 1, 1>>]
  /\ UnchangedServer /\ UNCHANGED <<backlog, proc>>

ClientRead(c) ==
  /\ KernelTurn
  /\ net[c].st \in {"on", "shut"}
  /\ net[c].outq # <<>>
  /\ net' = [net EXCEPT ![c].got = @ \o net[c].outq, ![c].outq = <<>>]
  /\ UnchangedServer /\ UNCHANGED <<backlog, proc>>

\* The client has said all it wanted and shuts down its sending side.
ClientShutdown(c) ==
  /\ KernelTurn
  /\ "shutdown" \in Faults
  /\ net[c].st = "on" /\ ~HasMore(c)
  /\ net' = [net EXCEPT ![c].st = "shut"]
  /\ UnchangedServer /\ UNCHANGED <<backlog, proc>>

\* The client goes away; what it has sent may or may not still arrive.
ClientVanish(c) ==
  /\ KernelTurn
  /\ "vanish" \in Faults
  /\ net[c].st \in {"on", "shut"}
  /\ \E q \in {net[c].inq, <<>>} :
       net' = [net EXCEPT ![c].st = "gone", ![c].inq = q, ![c].outq = <<>>]
  /\ UnchangedServer /\ UNCHANGED <<backlog, proc>>

\* A CGI child: it reads its input as CONTENT_LENGTH says, writes its output
\* and exits.
ChildRead(p) ==
  /\ KernelTurn
  /\ proc[p].st = "run" /\ proc[p].stdin # <<>>
  /\ proc' = [proc EXCEPT ![p].read = @ \o proc[p].stdin, ![p].stdin = <<>>]
  /\ UnchangedServer /\ UNCHANGED <<net, backlog>>

InputRead(p) ==
  LET q == RequestOf(proc[p].env)
  IN q.method = "POST" => Len(proc[p].read) = BodyLen(q)

ChildWrite(p) ==
  /\ KernelTurn
  /\ proc[p].st = "run" /\ InputRead(p)
  /\ proc[p].wrote < OutputLen(RequestOf(proc[p].env))
  /\ proc' = [proc EXCEPT
       ![p].wrote = @ + 1,
       ![p].stdout = Append(@, Token(proc[p].env, "cgi", proc[p].wrote + 1))]
  /\ UnchangedServer /\ UNCHANGED <<net, backlog>>

ChildExit(p) ==
  /\ KernelTurn
  /\ proc[p].st = "run" /\ InputRead(p)
  /\ proc[p].wrote = OutputLen(RequestOf(proc[p].env))
  /\ proc' = [proc EXCEPT ![p].st = "done"]
  /\ UnchangedServer /\ UNCHANGED <<net, backlog>>

\* execve fails in the child, or the script dies.
ChildFails(p) ==
  /\ KernelTurn
  /\ "childfail" \in Faults
  /\ proc[p].st = "run"
  /\ proc' = [proc EXCEPT ![p].st = "done"]
  /\ UnchangedServer /\ UNCHANGED <<net, backlog>>

Environment ==
  \/ \E c \in Client :
       \/ Connect(c) \/ ClientSend(c) \/ ClientRead(c)
       \/ ClientShutdown(c) \/ ClientVanish(c)
  \/ \E p \in Pids : ChildRead(p) \/ ChildWrite(p) \/ ChildExit(p) \/ ChildFails(p)

Next == ServerStep \/ Interrupt \/ SelectFails \/ Environment

Spec == Init /\ [][Next]_vars
=============================================================================
